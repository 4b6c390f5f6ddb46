------------------------- MODULE MarketLayers_proofs -------------------------
(***************************************************************************)
(* The list of layers and the overlays of the map, for any features and    *)
(* any number of turns and clicks: rows, switches and popups tell what is  *)
(* on the map, nothing is added twice, and the last click is stored.       *)
(* The income of an area and its competitors, for any buildings in pages   *)
(* of any size.  The filter of building sizes, for any areas and any moves *)
(* of its thumbs.                                                          *)
(***************************************************************************)
EXTENDS LayersSidebar, MapOverlays, AreaStatistics, BuildingFilter, Inductions, TLAPS

Layering == [drawn : SUBSET Feats, rows : SUBSET Feats, checked : SUBSET Feats,
             hidden : SUBSET Feats, members : SUBSET SectorsThen, selected : SUBSET Feats]

LayersTypeOK ==
    /\ under \in [SectorsThen -> Towers]
    /\ layers \in Layering
    /\ posts \subseteq MoreSectors \cup Areas /\ dels \subseteq Feats

\* What is drawn, whatever happens: what a tower knows of its sectors, what is on
\* its way to the database, and what is selected is on the map.
OnTheMap ==
    /\ posts \subseteq layers.drawn
    /\ dels \cap layers.drawn = {}
    /\ layers.members \subseteq layers.drawn \ posts
    /\ (layers.rows \cup layers.hidden) \cap Areas \subseteq layers.drawn \ posts
    /\ layers.checked \subseteq layers.rows
    /\ layers.selected \subseteq layers.drawn
    /\ "popup" \notin whim => layers.selected \cap layers.hidden = {}

\* While nothing is deleted elsewhere, rows and switches follow the map.
OwnRows ==
    "elsewhere" \notin whim =>
        /\ layers.rows = {f \in layers.drawn \ posts :
                            f \in SectorsThen => under[f] \in layers.drawn}
        /\ layers.checked = layers.rows \ layers.hidden
        /\ layers.hidden \subseteq layers.drawn \ posts
        /\ (layers.drawn \cap SectorsThen) \ posts \subseteq layers.members

\* While nothing is added or deleted, every sector and its tower have a row.
AllThere ==
    whim \cap {"delete", "add", "elsewhere"} = {} =>
        /\ posts = {} /\ dels = {}
        /\ \A s \in layers.members : s \in layers.rows /\ under[s] \in layers.rows

LayersInv == LayersTypeOK /\ OnTheMap /\ OwnRows /\ AllThere /\ TowerGoesWithItsSectors

------------------------------------------------------------------------------
(* What showing and hiding does *)

\* V is shown and H is hidden: their switches follow, and what is hidden is not selected.
Flipped(l, m, V, H) ==
    /\ m \in Layering /\ m.drawn = l.drawn /\ m.rows = l.rows /\ m.members = l.members
    /\ m.hidden = (l.hidden \cup H) \ V
    /\ m.selected = l.selected \ H
    /\ m.checked = (l.checked \ H) \cup (V \cap l.rows)

\* One feature is shown or hidden.
LEMMA OneFlips ==
    ASSUME NEW l \in Layering, l.checked \subseteq l.rows, NEW f \in Feats
    PROVE  Flipped(l, SetVisible(l, f, TRUE), {f}, {}) /\ Flipped(l, SetVisible(l, f, FALSE), {}, {f})
<1>1. ASSUME NEW v \in BOOLEAN, NEW V, NEW H, V = (IF v THEN {f} ELSE {}), H = (IF v THEN {} ELSE {f})
      PROVE  Flipped(l, SetVisible(l, f, v), V, H)
  <2> DEFINE k == [l EXCEPT !.hidden = IF v THEN @ \ {f} ELSE @ \cup {f},
                            !.selected = IF v THEN @ ELSE @ \ {f}]
             m == [k EXCEPT !.checked = IF v /\ f \in k.rows THEN @ \cup {f} ELSE @ \ {f}]
  <2>1. /\ k \in Layering /\ k.drawn = l.drawn /\ k.rows = l.rows /\ k.members = l.members
        /\ k.hidden = (l.hidden \cup H) \ V /\ k.selected = l.selected \ H /\ k.checked = l.checked
    BY <1>1 DEF Layering
  <2> HIDE DEF k
  <2>2. /\ m \in Layering /\ m.drawn = k.drawn /\ m.rows = k.rows /\ m.members = k.members
        /\ m.hidden = k.hidden /\ m.selected = k.selected
        /\ m.checked = IF v /\ f \in k.rows THEN k.checked \cup {f} ELSE k.checked \ {f}
    BY <2>1 DEF Layering
  <2>3. m.checked = (l.checked \ H) \cup (V \cap l.rows)
    BY <1>1, <2>1, <2>2
  <2>4. m = SetVisible(l, f, v)
    BY DEF SetVisible, SetChecked, k
  <2> HIDE DEF m
  <2>5. QED
    BY <2>1, <2>2, <2>3, <2>4 DEF Flipped
<1>2. QED
  BY <1>1

\* Several are.
LEMMA AllFlip ==
    ASSUME NEW l \in Layering, NEW S \in SUBSET Feats
    PROVE  Flipped(l, SetAll(l, S, TRUE), S, {}) /\ Flipped(l, SetAll(l, S, FALSE), {}, S)
<1>1. ASSUME NEW v \in BOOLEAN, NEW V, NEW H, V = (IF v THEN S ELSE {}), H = (IF v THEN {} ELSE S)
      PROVE  Flipped(l, SetAll(l, S, v), V, H)
  <2> DEFINE m == [l EXCEPT !.hidden = IF v THEN @ \ S ELSE @ \cup S,
                            !.selected = IF v THEN @ ELSE @ \ S,
                            !.checked = IF v THEN @ \cup (S \cap l.rows) ELSE @ \ S]
  <2>1. /\ m \in Layering /\ m.drawn = l.drawn /\ m.rows = l.rows /\ m.members = l.members
        /\ m.hidden = (l.hidden \cup H) \ V /\ m.selected = l.selected \ H
        /\ m.checked = IF v THEN l.checked \cup (S \cap l.rows) ELSE l.checked \ S
    BY <1>1 DEF Layering
  <2>2. m.checked = (l.checked \ H) \cup (V \cap l.rows)
    BY <1>1, <2>1
  <2>3. m = SetAll(l, S, v)
    BY DEF SetAll
  <2> HIDE DEF m
  <2>4. QED
    BY <2>1, <2>2, <2>3 DEF Flipped
<1>2. QED
  BY <1>1

\* A tower goes with the sectors it knows.
LEMMA TowerFlips ==
    ASSUME NEW l \in Layering, l.checked \subseteq l.rows, NEW t \in Towers
    PROVE  LET S == {t} \cup SectorsOf(l, t)
           IN  Flipped(l, SetTower(l, t, TRUE), S, {}) /\ Flipped(l, SetTower(l, t, FALSE), {}, S)
<1> DEFINE M == SectorsOf(l, t)
           p == SetVisible(l, t, TRUE)
           n == SetVisible(l, t, FALSE)
<1>1. t \in Feats /\ M \in SUBSET Feats
  BY DEF Feats, SectorsOf, Layering
<1>2. Flipped(l, p, {t}, {}) /\ Flipped(l, n, {}, {t})
  BY <1>1, OneFlips
<1>3. SetTower(l, t, TRUE) = SetAll(p, M, TRUE) /\ SetTower(l, t, FALSE) = SetAll(n, M, FALSE)
  BY DEF SetTower
<1> HIDE DEF M, p, n
<1>4. p \in Layering /\ n \in Layering
  BY <1>2 DEF Flipped
<1>5. Flipped(p, SetAll(p, M, TRUE), M, {}) /\ Flipped(n, SetAll(n, M, FALSE), {}, M)
  BY <1>1, <1>4, AllFlip
<1>6. Flipped(l, SetAll(p, M, TRUE), {t} \cup M, {}) /\ Flipped(l, SetAll(n, M, FALSE), {}, {t} \cup M)
  BY <1>2, <1>5 DEF Flipped
<1>7. QED
  BY <1>3, <1>6 DEF M

\* A sector that is shown shows its tower, if the tower's switch is off.
LEMMA SectorShown ==
    ASSUME NEW l \in Layering, l.checked \subseteq l.rows, NEW s \in SectorsThen,
           under \in [SectorsThen -> Towers]
    PROVE  \E V, H : /\ Flipped(l, SetSector(l, s, TRUE), V, H)
                     /\ \/ V = {s, under[s]} /\ H = {}
                        \/ V = {s} /\ H = {} /\ under[s] \in l.checked
                        \/ V = {s} /\ H = {under[s]} /\ ~ (s \in l.rows /\ s \in l.members)
<1> DEFINE t == under[s]
           q == SetVisible(l, s, TRUE)
           on == SetVisible(q, t, TRUE)
           off == SetVisible(q, t, FALSE)
<1>1. t \in Towers /\ t \in Feats /\ s \in Feats /\ t # s
  BY FeaturesAssumption DEF Feats, SectorsThen
<1>2. Flipped(l, q, {s}, {})
  BY <1>1, OneFlips
<1>3. SetSector(l, s, TRUE) = IF t \notin q.checked THEN on
                              ELSE IF SectorsOf(q, t) \cap q.checked = {} THEN off ELSE q
  BY DEF SetSector
<1>4. s \in l.rows /\ s \in l.members => s \in SectorsOf(q, t) \cap q.checked
  BY <1>2 DEF SectorsOf, Flipped
<1> HIDE DEF q
<1>5. q \in Layering /\ q.checked \subseteq q.rows
  BY <1>2 DEF Flipped
<1>6. Flipped(q, on, {t}, {}) /\ Flipped(q, off, {}, {t})
  BY <1>1, <1>5, OneFlips
<1> HIDE DEF t, on, off
<1>7. CASE t \notin q.checked
  <2>1. Flipped(l, on, {s, t}, {})
    BY <1>2, <1>6 DEF Flipped
  <2>2. QED
    BY <1>3, <1>7, <2>1 DEF t
<1>8. CASE t \in q.checked /\ SectorsOf(q, t) \cap q.checked = {}
  <2>1. Flipped(l, off, {s}, {t})
    BY <1>1, <1>2, <1>6 DEF Flipped
  <2>2. QED
    BY <1>3, <1>4, <1>8, <2>1 DEF t
<1>9. CASE t \in q.checked /\ SectorsOf(q, t) \cap q.checked # {}
  <2>1. t \in l.checked
    BY <1>1, <1>2, <1>9 DEF Flipped
  <2>2. SetSector(l, s, TRUE) = q
    BY <1>3, <1>9
  <2>3. QED
    BY <1>2, <2>1, <2>2 DEF t
<1>10. QED
  BY <1>7, <1>8, <1>9

\* A sector that is hidden hides its tower, if it was the last one switched on.
LEMMA SectorHidden ==
    ASSUME NEW l \in Layering, l.checked \subseteq l.rows, NEW s \in SectorsThen,
           under \in [SectorsThen -> Towers]
    PROVE  LET on == (SectorsOf(l, under[s]) \cap l.checked) \ {s}
           IN  \E H : /\ Flipped(l, SetSector(l, s, FALSE), {}, H)
                      /\ (H = {s, under[s]} /\ on = {}) \/ (H = {s} /\ on # {})
<1> DEFINE t == under[s]
           q == SetVisible(l, s, FALSE)
           off == SetVisible(q, t, FALSE)
           on == (SectorsOf(l, t) \cap l.checked) \ {s}
<1>1. t \in Towers /\ t \in Feats /\ s \in Feats /\ t # s
  BY FeaturesAssumption DEF Feats, SectorsThen
<1>2. Flipped(l, q, {}, {s})
  BY <1>1, OneFlips
<1>3. SetSector(l, s, FALSE) = IF SectorsOf(q, t) \cap q.checked = {} THEN off ELSE q
  BY DEF SetSector
<1>4. SectorsOf(q, t) \cap q.checked = on
  BY <1>2 DEF SectorsOf, Flipped
<1> HIDE DEF q
<1>5. q \in Layering /\ q.checked \subseteq q.rows
  BY <1>2 DEF Flipped
<1>6. Flipped(q, off, {}, {t})
  BY <1>1, <1>5, OneFlips
<1> HIDE DEF off
<1>7. Flipped(l, off, {}, {s, t})
  BY <1>2, <1>6 DEF Flipped
<1>8. QED
  BY <1>2, <1>3, <1>4, <1>7

\* Which features a switch can show or hide with its own.
LEMMA FeatureFlips ==
    ASSUME NEW l \in Layering, l.checked \subseteq l.rows, NEW f \in Feats, NEW v \in BOOLEAN,
           under \in [SectorsThen -> Towers]
    PROVE  \E V, H : /\ Flipped(l, SetFeatureVisibility(l, f, v), V, H) /\ V \cap H = {}
                     /\ \A g \in V \cup H : \/ g = f
                                            \/ f \in SectorsThen /\ g = under[f]
                                            \/ f \in Towers /\ g \in SectorsOf(l, f)
<1> DEFINE m == SetFeatureVisibility(l, f, v)
           Near(g) == \/ g = f
                      \/ f \in SectorsThen /\ g = under[f]
                      \/ f \in Towers /\ g \in SectorsOf(l, f)
<1> SUFFICES \E V, H : Flipped(l, m, V, H) /\ V \cap H = {} /\ \A g \in V \cup H : Near(g)
  OBVIOUS
<1>0. v = TRUE \/ v = FALSE
  OBVIOUS
<1>1. CASE f \in Towers
  <2> DEFINE S == {f} \cup SectorsOf(l, f)
  <2>1. m = SetTower(l, f, v)
    BY <1>1, FeaturesAssumption DEF SetFeatureVisibility, SectorsThen
  <2>2. Flipped(l, SetTower(l, f, TRUE), S, {}) /\ Flipped(l, SetTower(l, f, FALSE), {}, S)
    BY <1>1, TowerFlips
  <2>3. Flipped(l, m, S, {}) \/ Flipped(l, m, {}, S)
    BY <1>0, <2>1, <2>2
  <2>4. \A g \in S : Near(g)
    BY <1>1
  <2> HIDE DEF S, m, Near
  <2>5. QED
    BY <2>3, <2>4
<1>2. CASE f \in SectorsThen
  <2>1. m = SetSector(l, f, v) /\ under[f] # f
    BY <1>2, FeaturesAssumption DEF SetFeatureVisibility, SectorsThen
  <2>2. CASE v = TRUE
    <3>1. PICK V, H : /\ Flipped(l, SetSector(l, f, TRUE), V, H)
                      /\ V \cup H \subseteq {f, under[f]} /\ V \cap H = {}
      <4>1. PICK V, H : /\ Flipped(l, SetSector(l, f, TRUE), V, H)
                        /\ \/ V = {f, under[f]} /\ H = {}
                           \/ V = {f} /\ H = {} /\ under[f] \in l.checked
                           \/ V = {f} /\ H = {under[f]} /\ ~ (f \in l.rows /\ f \in l.members)
        BY <1>2, SectorShown
      <4>2. V \cup H \subseteq {f, under[f]} /\ V \cap H = {}
        BY <2>1, <4>1
      <4>3. QED
        BY <4>1, <4>2
    <3>2. \A g \in V \cup H : Near(g)
      BY <1>2, <3>1
    <3>3. Flipped(l, m, V, H)
      BY <2>1, <2>2, <3>1
    <3> HIDE DEF m, Near
    <3>4. QED
      BY <3>1, <3>2, <3>3
  <2>3. CASE v = FALSE
    <3>1. PICK H : /\ Flipped(l, SetSector(l, f, FALSE), {}, H)
                   /\ H = {f, under[f]} \/ H = {f}
      BY <1>2, SectorHidden
    <3>2. \A g \in {} \cup H : Near(g)
      BY <1>2, <3>1
    <3>3. Flipped(l, m, {}, H) /\ {} \cap H = {}
      BY <2>1, <2>3, <3>1
    <3> HIDE DEF m, Near
    <3>4. QED
      BY <3>2, <3>3
  <2>4. QED
    BY <1>0, <2>2, <2>3
<1>3. CASE f \in Areas
  <2>1. m = SetVisible(l, f, v)
    BY <1>3, FeaturesAssumption DEF SetFeatureVisibility, SectorsThen
  <2>2. Flipped(l, m, {f}, {}) \/ Flipped(l, m, {}, {f})
    BY <1>0, <2>1, OneFlips
  <2>3. \A g \in {f} : Near(g)
    OBVIOUS
  <2> HIDE DEF m, Near
  <2>4. QED
    BY <2>2, <2>3
<1>4. QED
  BY <1>1, <1>2, <1>3 DEF Feats

------------------------------------------------------------------------------
(* The invariant of the list of layers *)

\* Nothing is known yet but what the page was loaded with, all of it shown.
LEMMA LayersStart == LayersInit => LayersInv
<1> SUFFICES ASSUME LayersInit PROVE LayersInv
  OBVIOUS
<1> DEFINE T == Towers \cup OldSectors
<1>1. /\ layers = [drawn |-> T, rows |-> T, checked |-> T, hidden |-> {},
                   members |-> OldSectors, selected |-> {}]
      /\ posts = {} /\ dels = {} /\ under \in [SectorsThen -> Towers]
  BY DEF LayersInit, LayersLoaded
<1>2. LayersTypeOK
  BY <1>1 DEF LayersTypeOK, Layering, Feats, SectorsThen
<1>3. OnTheMap /\ AllThere
  BY <1>1 DEF OnTheMap, AllThere, SectorsThen
<1>4. OwnRows
  <2>1. \A f \in T : f \in SectorsThen => f \in OldSectors /\ under[f] \in T
    BY <1>1, FeaturesAssumption DEF SectorsThen
  <2>2. QED
    BY <1>1, <2>1 DEF OwnRows
<1>5. TowerGoesWithItsSectors
  BY <1>1 DEF TowerGoesWithItsSectors, SectorsOf
<1>6. QED
  BY <1>2, <1>3, <1>4, <1>5 DEF LayersInv

\* The parts of the invariant that a flip concerns.
LEMMA FlipKeeps ==
    ASSUME LayersInv, NEW f \in layers.drawn, NEW V, NEW H,
           Flipped(layers, layers', V, H), V \cap H = {},
           \A g \in V \cup H : \/ g = f
                               \/ f \in SectorsThen /\ g = under[f]
                               \/ f \in Towers /\ g \in SectorsOf(layers, f),
           f \in layers.rows,
           UNCHANGED <<whim, under, posts, dels>>
    PROVE  LayersTypeOK' /\ OnTheMap' /\ OwnRows' /\ AllThere'
<1>1. /\ layers' \in Layering /\ layers'.drawn = layers.drawn /\ layers'.rows = layers.rows
      /\ layers'.members = layers.members
      /\ layers'.hidden = (layers.hidden \cup H) \ V /\ layers'.selected = layers.selected \ H
      /\ layers'.checked = (layers.checked \ H) \cup (V \cap layers.rows)
  BY DEF Flipped
<1>2. /\ under \in [SectorsThen -> Towers] /\ layers \in Layering
      /\ posts \subseteq MoreSectors \cup Areas
  BY DEF LayersInv, LayersTypeOK
<1>3. LayersTypeOK'
  BY <1>1 DEF LayersTypeOK, LayersInv
<1>4. \A g \in H : g \in Areas => g = f
  BY <1>2, FeaturesAssumption DEF SectorsOf, SectorsThen, Layering
<1>5. OnTheMap'
  BY <1>1, <1>4 DEF OnTheMap, LayersInv
<1>6. ASSUME "elsewhere" \notin whim
      PROVE  /\ layers.rows = {g \in layers.drawn \ posts :
                                 g \in SectorsThen => under[g] \in layers.drawn}
             /\ layers'.checked = layers.rows \ layers'.hidden
             /\ layers'.hidden \subseteq layers.drawn \ posts
             /\ (layers.drawn \cap SectorsThen) \ posts \subseteq layers.members
  <2>1. /\ layers.rows = {g \in layers.drawn \ posts :
                            g \in SectorsThen => under[g] \in layers.drawn}
        /\ layers.checked = layers.rows \ layers.hidden
        /\ layers.hidden \subseteq layers.drawn \ posts
        /\ (layers.drawn \cap SectorsThen) \ posts \subseteq layers.members
        /\ layers.members \subseteq layers.drawn \ posts
    BY <1>6 DEF LayersInv, OwnRows, OnTheMap
  <2>2. f \in SectorsThen => under[f] \in layers.drawn \ posts
    BY <1>2, <1>6, <2>1, FeaturesAssumption DEF SectorsThen
  <2>3. H \subseteq layers.drawn \ posts
    BY <1>6, <2>1, <2>2 DEF SectorsOf
  <2>4. layers'.hidden \subseteq layers.drawn \ posts
    BY <1>1, <2>1, <2>3
  <2>5. layers'.checked = layers.rows \ layers'.hidden
    BY <1>1, <2>1
  <2>6. QED
    BY <2>1, <2>4, <2>5
<1>7. OwnRows'
  BY <1>1, <1>6 DEF OwnRows
<1>8. AllThere'
  BY <1>1 DEF AllThere, LayersInv
<1>9. QED
  BY <1>3, <1>5, <1>7, <1>8

\* What a flip of a tower, a sector or an area makes of the towers.
LEMMA TowerStaysWithSectors ==
    ASSUME LayersInv, NEW f \in layers.rows, whim \cap {"delete", "add", "elsewhere"} = {},
           NEW v \in BOOLEAN, v <=> f \in layers.hidden,
           layers' = SetFeatureVisibility(layers, f, v), UNCHANGED <<whim, under>>
    PROVE  TowerGoesWithItsSectors'
<1> DEFINE l == layers
           m == layers'
           M(t) == SectorsOf(l, t)
<1>1. /\ l \in Layering /\ l.checked \subseteq l.rows /\ under \in [SectorsThen -> Towers]
      /\ l.checked = l.rows \ l.hidden
      /\ \A s \in l.members : s \in l.rows /\ under[s] \in l.rows
      /\ \A t \in Towers : M(t) # {} => (t \in l.hidden <=> M(t) \subseteq l.hidden)
      /\ (f \in SectorsThen => f \in l.members)
  BY DEF LayersInv, LayersTypeOK, OnTheMap, OwnRows, AllThere, TowerGoesWithItsSectors
<1>2. f \in Feats /\ l.members \subseteq SectorsThen
  BY <1>1 DEF Layering
<1>0. v = TRUE \/ v = FALSE
  OBVIOUS
<1> SUFFICES ASSUME NEW t \in Towers, SectorsOf(m, t) # {}
             PROVE  t \in m.hidden <=> SectorsOf(m, t) \subseteq m.hidden
  BY DEF TowerGoesWithItsSectors, SectorsOf
<1>3. ASSUME NEW V, NEW H, Flipped(l, m, V, H)
      PROVE  /\ SectorsOf(m, t) = M(t)
             /\ m.hidden = (l.hidden \cup H) \ V
  BY <1>3 DEF Flipped, SectorsOf
<1>4. \A s \in M(t) : s \in SectorsThen /\ s \in l.members /\ s \in l.rows /\ under[s] = t /\ s # t
  BY <1>1, <1>2, FeaturesAssumption DEF SectorsOf, SectorsThen
<1>5. CASE f \in Towers
  <2> DEFINE S == {f} \cup M(f)
  <2>1. m = SetTower(l, f, v)
    BY <1>5, FeaturesAssumption DEF SetFeatureVisibility, SectorsThen
  <2>2. Flipped(l, SetTower(l, f, TRUE), S, {}) /\ Flipped(l, SetTower(l, f, FALSE), {}, S)
    BY <1>1, <1>5, TowerFlips
  <2>3. Flipped(l, m, S, {}) \/ Flipped(l, m, {}, S)
    BY <1>0, <2>1, <2>2
  <2>4. /\ f = t => t \in S /\ M(t) \subseteq S
        /\ f # t => t \notin S /\ M(t) \cap S = {}
    <3>1. \A s \in M(f) : s \in SectorsThen /\ under[s] = f
      BY <1>2 DEF SectorsOf
    <3>2. f \notin SectorsThen /\ t \notin SectorsThen
      BY <1>5, FeaturesAssumption DEF SectorsThen
    <3>3. QED
      BY <1>4, <3>1, <3>2
  <2> HIDE DEF S, M
  <2>5. SectorsOf(m, t) = M(t) /\ (m.hidden = l.hidden \ S \/ m.hidden = l.hidden \cup S)
    BY <1>3, <2>3
  <2>6. M(t) # {} /\ (t \in l.hidden <=> M(t) \subseteq l.hidden)
    BY <1>1, <2>5
  <2>7. QED
    BY <2>4, <2>5, <2>6
<1>6. CASE f \in SectorsThen
  <2> DEFINE u == under[f]
  <2>0. u \in Towers /\ f \in M(u) /\ f # u /\ f \notin Towers
    BY <1>1, <1>6, FeaturesAssumption DEF SectorsOf, SectorsThen
  <2>1. m = SetSector(l, f, v)
    BY <1>6, FeaturesAssumption DEF SetFeatureVisibility, SectorsThen
  <2>2. u # t => f \notin M(t) /\ u \notin M(t)
    BY <1>4, <2>0, FeaturesAssumption DEF SectorsOf, SectorsThen
  <2>3. CASE v = TRUE
    <3>1. PICK V, H : /\ Flipped(l, SetSector(l, f, TRUE), V, H)
                      /\ \/ V = {f, under[f]} /\ H = {}
                         \/ V = {f} /\ H = {} /\ under[f] \in l.checked
                         \/ V = {f} /\ H = {under[f]} /\ ~ (f \in l.rows /\ f \in l.members)
      BY <1>1, <1>6, SectorShown
    <3>2. SectorsOf(m, t) = M(t) /\ m.hidden = (l.hidden \cup H) \ V
      <4>1. Flipped(l, m, V, H)
        BY <2>1, <2>3, <3>1
      <4>2. QED
        BY <1>3, <4>1
    <3>3. H = {} /\ (V = {f, u} \/ (V = {f} /\ u \notin l.hidden))
      BY <1>1, <1>6, <3>1
    <3> HIDE DEF u, M
    <3>4. M(t) # {} /\ (t \in l.hidden <=> M(t) \subseteq l.hidden)
      BY <1>1, <3>2
    <3>5. QED
      BY <2>0, <2>2, <3>2, <3>3, <3>4
  <2>4. CASE v = FALSE
    <3> DEFINE on == (M(u) \cap l.checked) \ {f}
    <3>1. PICK H : /\ Flipped(l, SetSector(l, f, FALSE), {}, H)
                   /\ (H = {f, u} /\ on = {}) \/ (H = {f} /\ on # {})
      BY <1>1, <1>6, SectorHidden
    <3>2. SectorsOf(m, t) = M(t) /\ m.hidden = l.hidden \cup H
      <4>1. Flipped(l, m, {}, H)
        BY <2>1, <2>4, <3>1
      <4>2. QED
        BY <1>3, <4>1
    <3>3. on = {g \in M(u) : g # f /\ g \notin l.hidden}
      BY <1>1 DEF SectorsOf
    <3> HIDE DEF on, M, u
    <3>4. M(t) # {} /\ (t \in l.hidden <=> M(t) \subseteq l.hidden)
      BY <1>1, <3>2
    <3>5. QED
      BY <2>0, <2>2, <2>4, <3>1, <3>2, <3>3, <3>4
  <2>5. QED
    BY <1>0, <2>3, <2>4
<1>7. CASE f \in Areas
  <2>1. m = SetVisible(l, f, v)
    BY <1>7, FeaturesAssumption DEF SetFeatureVisibility, SectorsThen
  <2>2. Flipped(l, m, {f}, {}) \/ Flipped(l, m, {}, {f})
    <3>1. Flipped(l, SetVisible(l, f, TRUE), {f}, {}) /\ Flipped(l, SetVisible(l, f, FALSE), {}, {f})
      BY <1>1, <1>2, OneFlips
    <3>2. QED
      BY <1>0, <2>1, <3>1
  <2>3. f # t /\ f \notin M(t)
    BY <1>4, <1>7, FeaturesAssumption DEF SectorsThen
  <2>4. SectorsOf(m, t) = M(t) /\ (m.hidden = l.hidden \ {f} \/ m.hidden = l.hidden \cup {f})
    BY <1>3, <2>2
  <2>5. M(t) # {} /\ (t \in l.hidden <=> M(t) \subseteq l.hidden)
    BY <1>1, <2>4
  <2>6. QED
    BY <2>3, <2>4, <2>5
<1>8. QED
  BY <1>2, <1>5, <1>6, <1>7 DEF Feats

\* The user's switch, and what it takes along.
LEMMA ToggleRowKeeps ==
    ASSUME LayersInv, NEW f \in Feats, ToggleRow(f)
    PROVE  LayersInv'
<1>1. f \in layers.rows /\ UNCHANGED <<whim, under, posts, dels>>
  BY DEF ToggleRow, Turn
<1>2. /\ layers \in Layering /\ layers.checked \subseteq layers.rows
      /\ under \in [SectorsThen -> Towers]
  BY DEF LayersInv, LayersTypeOK, OnTheMap
<1>3. CASE f \in layers.drawn
  <2> DEFINE v == f \in layers.hidden
  <2>1. layers' = SetFeatureVisibility(layers, f, v) /\ v \in BOOLEAN
    BY <1>3 DEF ToggleRow
  <2>2. v <=> f \in layers.hidden
    OBVIOUS
  <2> HIDE DEF v
  <2>3. PICK V, H : /\ Flipped(layers, SetFeatureVisibility(layers, f, v), V, H) /\ V \cap H = {}
                    /\ \A g \in V \cup H : \/ g = f
                                           \/ f \in SectorsThen /\ g = under[f]
                                           \/ f \in Towers /\ g \in SectorsOf(layers, f)
    BY <1>2, <2>1, FeatureFlips
  <2>4. LayersTypeOK' /\ OnTheMap' /\ OwnRows' /\ AllThere'
    <3>1. Flipped(layers, layers', V, H)
      BY <2>1, <2>3
    <3>2. QED
      BY <1>1, <1>3, <2>3, <3>1, FlipKeeps
  <2>5. TowerGoesWithItsSectors'
    <3>1. CASE whim \cap {"delete", "add", "elsewhere"} = {}
      BY <1>1, <2>1, <2>2, <3>1, TowerStaysWithSectors
    <3>2. CASE whim \cap {"delete", "add", "elsewhere"} # {}
      BY <1>1, <3>2 DEF TowerGoesWithItsSectors
    <3>3. QED
      BY <3>1, <3>2
  <2>6. QED
    BY <2>4, <2>5 DEF LayersInv
<1>4. CASE f \notin layers.drawn
  <2>1. "elsewhere" \in whim
    BY <1>1, <1>4 DEF LayersInv, OwnRows
  <2>2. /\ layers' \in Layering /\ layers'.drawn = layers.drawn /\ layers'.rows = layers.rows
        /\ layers'.members = layers.members /\ layers'.hidden = layers.hidden
        /\ layers'.selected = layers.selected /\ layers'.checked \subseteq layers.rows
    BY <1>1, <1>2, <1>4 DEF ToggleRow, Layering
  <2>3. LayersTypeOK' /\ OnTheMap'
    BY <1>1, <2>2 DEF LayersInv, LayersTypeOK, OnTheMap
  <2>4. QED
    BY <1>1, <2>1, <2>3 DEF LayersInv, OwnRows, AllThere, TowerGoesWithItsSectors
<1>5. QED
  BY <1>3, <1>4

\* What is not selected by the sector popup's list is not hidden.
LEMMA SelectFeaturesKeeps ==
    ASSUME LayersInv, NEW S, SelectFeatures(S)
    PROVE  LayersInv'
<1>1. /\ UNCHANGED <<whim, under, posts, dels>> /\ S \in SUBSET layers.drawn
      /\ S \cap layers.hidden = {} \/ "popup" \in whim
  BY DEF SelectFeatures, Turn
<1>2. layers \in Layering
  BY DEF LayersInv, LayersTypeOK
<1>3. /\ layers' \in Layering /\ layers'.drawn = layers.drawn /\ layers'.rows = layers.rows
      /\ layers'.members = layers.members /\ layers'.hidden = layers.hidden
      /\ layers'.selected = S /\ layers'.checked = layers.checked
  BY <1>1, <1>2 DEF SelectFeatures, Layering
<1>4. LayersTypeOK' /\ OnTheMap'
  BY <1>1, <1>3 DEF LayersInv, LayersTypeOK, OnTheMap
<1>5. OwnRows' /\ AllThere'
  BY <1>1, <1>3 DEF LayersInv, OwnRows, AllThere
<1>6. TowerGoesWithItsSectors'
  <2> SUFFICES ASSUME whim \cap {"delete", "add", "elsewhere"} = {},
                      NEW u \in Towers, SectorsOf(layers, u) # {}
               PROVE  u \in layers'.hidden <=> SectorsOf(layers, u) \subseteq layers'.hidden
    BY <1>1, <1>3 DEF TowerGoesWithItsSectors, SectorsOf
  <2>1. QED
    BY <1>3 DEF LayersInv, TowerGoesWithItsSectors
<1>7. QED
  BY <1>4, <1>5, <1>6 DEF LayersInv

\* A tower that is clicked is selected and shown with its sectors.
LEMMA ClickTowerKeeps ==
    ASSUME LayersInv, NEW t \in Towers, ClickTower(t)
    PROVE  LayersInv'
<1> DEFINE k == [layers EXCEPT !.selected = {t}]
           S == {t} \cup SectorsOf(layers, t)
<1>1. /\ UNCHANGED <<whim, under, posts, dels>> /\ t \in layers.drawn /\ t \notin layers.hidden
      /\ layers' = SetTower(k, t, TRUE)
  BY DEF ClickTower, Turn
<1>2. /\ layers \in Layering /\ layers.checked \subseteq layers.rows /\ t \in Feats
      /\ under \in [SectorsThen -> Towers] /\ posts \subseteq MoreSectors \cup Areas
  BY DEF LayersInv, LayersTypeOK, OnTheMap, Feats
<1>3. /\ k \in Layering /\ k.drawn = layers.drawn /\ k.rows = layers.rows
      /\ k.members = layers.members /\ k.hidden = layers.hidden
      /\ k.selected = {t} /\ k.checked = layers.checked
  BY <1>2 DEF Layering
<1>4. SectorsOf(k, t) = SectorsOf(layers, t)
  BY <1>3 DEF SectorsOf
<1> HIDE DEF k
<1>5. Flipped(k, SetTower(k, t, TRUE), S, {})
  BY <1>2, <1>3, <1>4, TowerFlips
<1>6. /\ layers' \in Layering /\ layers'.drawn = layers.drawn /\ layers'.rows = layers.rows
      /\ layers'.members = layers.members /\ layers'.hidden = layers.hidden \ S
      /\ layers'.selected = {t} /\ layers'.checked = layers.checked \cup (S \cap layers.rows)
  BY <1>1, <1>3, <1>5 DEF Flipped
<1>7. LayersTypeOK' /\ OnTheMap'
  BY <1>1, <1>2, <1>6 DEF LayersInv, LayersTypeOK, OnTheMap
<1>8. OwnRows' /\ AllThere'
  BY <1>1, <1>6 DEF LayersInv, OwnRows, AllThere
<1>9. TowerGoesWithItsSectors'
  <2>0. whim' = whim /\ under' = under /\ layers'.members = layers.members
    BY <1>1, <1>6
  <2> SUFFICES ASSUME whim \cap {"delete", "add", "elsewhere"} = {},
                      NEW u \in Towers, SectorsOf(layers, u) # {}
               PROVE  u \in layers'.hidden <=> SectorsOf(layers, u) \subseteq layers'.hidden
    BY <2>0 DEF TowerGoesWithItsSectors, SectorsOf
  <2>1. u \in layers.hidden <=> SectorsOf(layers, u) \subseteq layers.hidden
    BY DEF LayersInv, TowerGoesWithItsSectors
  <2>2. CASE u = t
    BY <1>1, <1>6, <2>2
  <2>3. CASE u # t
    <3>1. u \notin S /\ SectorsOf(layers, u) \cap S = {}
      BY <1>2, <2>3, FeaturesAssumption DEF SectorsOf, SectorsThen, Layering
    <3>2. QED
      BY <1>6, <2>1, <3>1
  <2>4. QED
    BY <2>2, <2>3
<1>10. QED
  BY <1>7, <1>8, <1>9 DEF LayersInv

\* What is added is on the map, without a row, until it is stored.
LEMMA AddFeatureKeeps ==
    ASSUME LayersInv, NEW f \in Feats, AddFeature(f)
    PROVE  LayersInv'
<1>1. /\ UNCHANGED <<whim, under, dels>> /\ posts' = posts \cup {f} /\ "add" \in whim
      /\ f \in MoreSectors \cup Areas /\ f \notin layers.drawn /\ f \notin posts /\ f \notin dels
      /\ layers' = [layers EXCEPT !.drawn = @ \cup {f},
                                  !.selected = IF f \in Areas THEN {f} ELSE @]
  BY DEF AddFeature, Turn
<1>2. layers \in Layering
  BY DEF LayersInv, LayersTypeOK
<1>3. /\ layers' \in Layering /\ layers'.drawn = layers.drawn \cup {f}
      /\ layers'.rows = layers.rows /\ layers'.checked = layers.checked
      /\ layers'.members = layers.members /\ layers'.hidden = layers.hidden
      /\ layers'.selected = IF f \in Areas THEN {f} ELSE layers.selected
  BY <1>1, <1>2 DEF Layering
<1>4. LayersTypeOK'
  BY <1>1, <1>3 DEF LayersInv, LayersTypeOK
<1>5. OnTheMap'
  BY <1>1, <1>3 DEF LayersInv, OnTheMap
<1>6. OwnRows'
  <2> SUFFICES ASSUME "elsewhere" \notin whim
               PROVE  /\ layers'.rows = {g \in layers'.drawn \ posts' :
                                           g \in SectorsThen => under[g] \in layers'.drawn}
                      /\ layers'.checked = layers'.rows \ layers'.hidden
                      /\ layers'.hidden \subseteq layers'.drawn \ posts'
                      /\ (layers'.drawn \cap SectorsThen) \ posts' \subseteq layers'.members
    BY <1>1 DEF OwnRows
  <2>1. /\ layers.rows = {g \in layers.drawn \ posts :
                            g \in SectorsThen => under[g] \in layers.drawn}
        /\ layers.checked = layers.rows \ layers.hidden
        /\ layers.hidden \subseteq layers.drawn \ posts
        /\ (layers.drawn \cap SectorsThen) \ posts \subseteq layers.members
    BY DEF LayersInv, OwnRows
  <2>2. \A g \in SectorsThen : under[g] # f
    BY <1>1, FeaturesAssumption DEF LayersInv, LayersTypeOK, SectorsThen
  <2>3. QED
    BY <1>1, <1>3, <2>1, <2>2
<1>7. AllThere' /\ TowerGoesWithItsSectors'
  BY <1>1 DEF AllThere, TowerGoesWithItsSectors
<1>8. QED
  BY <1>4, <1>5, <1>6, <1>7 DEF LayersInv

\* What an erased feature leaves.
LEMMA ErasedIs ==
    ASSUME NEW l \in Layering, NEW S
    PROVE  /\ Erased(l, S) \in Layering
           /\ Erased(l, S).drawn = l.drawn \ S /\ Erased(l, S).rows = l.rows \ S
           /\ Erased(l, S).checked = l.checked \ S /\ Erased(l, S).hidden = l.hidden \ S
           /\ Erased(l, S).members = l.members \ S /\ Erased(l, S).selected = l.selected \ S
  BY DEF Erased, Layering

\* A feature goes with its row, and a tower with its sectors.
LEMMA DeleteFeatureKeeps ==
    ASSUME LayersInv, NEW f \in Feats, DeleteFeature(f)
    PROVE  LayersInv'
<1> DEFINE gone == {f} \cup (IF f \in Towers THEN SectorsOf(layers, f) ELSE {})
<1>1. /\ UNCHANGED <<whim, under, posts>> /\ "delete" \in whim
      /\ f \in layers.drawn /\ f \notin posts
      /\ layers' = Erased(layers, gone) /\ dels' = dels \cup gone
  BY DEF DeleteFeature, Turn
<1>2. /\ layers \in Layering /\ under \in [SectorsThen -> Towers]
      /\ layers.members \subseteq layers.drawn \ posts
  BY DEF LayersInv, LayersTypeOK, OnTheMap
<1>3. /\ layers' \in Layering /\ layers'.drawn = layers.drawn \ gone
      /\ layers'.rows = layers.rows \ gone /\ layers'.checked = layers.checked \ gone
      /\ layers'.members = layers.members \ gone /\ layers'.hidden = layers.hidden \ gone
      /\ layers'.selected = layers.selected \ gone
  BY <1>1, <1>2, ErasedIs
<1>4. /\ f \in gone /\ gone \subseteq layers.drawn \ posts /\ gone \subseteq Feats
      /\ f \in Towers => SectorsOf(layers, f) \subseteq gone
      /\ \A g \in gone : g = f \/ g \in SectorsThen
  BY <1>1, <1>2 DEF SectorsOf, Layering, Feats
<1> HIDE DEF gone
<1>5. LayersTypeOK' /\ OnTheMap'
  BY <1>1, <1>3, <1>4 DEF LayersInv, LayersTypeOK, OnTheMap
<1>6. OwnRows'
  <2> SUFFICES ASSUME "elsewhere" \notin whim
               PROVE  /\ layers'.rows = {g \in layers'.drawn \ posts :
                                           g \in SectorsThen => under[g] \in layers'.drawn}
                      /\ layers'.checked = layers'.rows \ layers'.hidden
                      /\ layers'.hidden \subseteq layers'.drawn \ posts
                      /\ (layers'.drawn \cap SectorsThen) \ posts \subseteq layers'.members
    BY <1>1 DEF OwnRows
  <2>1. /\ layers.rows = {g \in layers.drawn \ posts :
                            g \in SectorsThen => under[g] \in layers.drawn}
        /\ layers.checked = layers.rows \ layers.hidden
        /\ layers.hidden \subseteq layers.drawn \ posts
        /\ (layers.drawn \cap SectorsThen) \ posts \subseteq layers.members
    BY DEF LayersInv, OwnRows
  <2>2. \A g \in layers.drawn \ posts : g \in SectorsThen /\ under[g] \in gone => g \in gone
    BY <1>2, <1>4, <2>1, FeaturesAssumption DEF SectorsOf, SectorsThen
  <2>3. QED
    BY <1>3, <1>4, <2>1, <2>2
<1>7. AllThere' /\ TowerGoesWithItsSectors'
  BY <1>1 DEF AllThere, TowerGoesWithItsSectors
<1>8. QED
  BY <1>5, <1>6, <1>7 DEF LayersInv

\* A row comes with the reply that stores its feature, switched on.
LEMMA StoredKeeps ==
    ASSUME LayersInv, NEW f \in posts, Stored(f)
    PROVE  LayersInv'
<1> DEFINE r == RowComes(layers, f)
           here == f \in layers.rows \/ (f \in SectorsThen /\ under[f] \notin layers.rows)
           new == IF here THEN {} ELSE {f}
<1>1. /\ UNCHANGED <<whim, under, dels>> /\ posts' = posts \ {f}
      /\ layers' = [r EXCEPT !.members = @ \cup ({f} \cap SectorsThen)]
  BY DEF Stored
<1>2. /\ layers \in Layering /\ under \in [SectorsThen -> Towers] /\ f \in Feats
      /\ f \in MoreSectors \cup Areas /\ posts \subseteq MoreSectors \cup Areas
      /\ f \in layers.drawn /\ f \notin layers.members
  BY DEF LayersInv, LayersTypeOK, OnTheMap, Feats, SectorsThen
<1>3. /\ r \in Layering /\ r.drawn = layers.drawn /\ r.rows = layers.rows \cup new
      /\ r.checked = layers.checked \cup new /\ r.members = layers.members
      /\ r.hidden = layers.hidden /\ r.selected = layers.selected
  BY <1>2 DEF RowComes, Layering
<1> HIDE DEF r
<1>4. /\ layers' \in Layering /\ layers'.drawn = layers.drawn
      /\ layers'.rows = layers.rows \cup new /\ layers'.checked = layers.checked \cup new
      /\ layers'.members = layers.members \cup ({f} \cap SectorsThen)
      /\ layers'.hidden = layers.hidden /\ layers'.selected = layers.selected
  BY <1>1, <1>3 DEF Layering
<1>5. LayersTypeOK' /\ OnTheMap'
  BY <1>1, <1>2, <1>4 DEF LayersInv, LayersTypeOK, OnTheMap
<1>6. OwnRows'
  <2> SUFFICES ASSUME "elsewhere" \notin whim
               PROVE  /\ layers'.rows = {g \in layers'.drawn \ posts' :
                                           g \in SectorsThen => under[g] \in layers'.drawn}
                      /\ layers'.checked = layers'.rows \ layers'.hidden
                      /\ layers'.hidden \subseteq layers'.drawn \ posts'
                      /\ (layers'.drawn \cap SectorsThen) \ posts' \subseteq layers'.members
    BY <1>1 DEF OwnRows
  <2>1. /\ layers.rows = {g \in layers.drawn \ posts :
                            g \in SectorsThen => under[g] \in layers.drawn}
        /\ layers.checked = layers.rows \ layers.hidden
        /\ layers.hidden \subseteq layers.drawn \ posts
        /\ (layers.drawn \cap SectorsThen) \ posts \subseteq layers.members
    BY DEF LayersInv, OwnRows
  <2>2. \A t \in Towers : t \in layers.rows <=> t \in layers.drawn
    BY <1>2, <2>1, FeaturesAssumption DEF SectorsThen
  <2>3. new = IF f \in SectorsThen => under[f] \in layers.drawn THEN {f} ELSE {}
    BY <1>2, <2>1, <2>2
  <2> HIDE DEF new
  <2>4. QED
    BY <1>1, <1>2, <1>4, <2>1, <2>3
<1>7. AllThere' /\ TowerGoesWithItsSectors'
  BY <1>1 DEF AllThere, TowerGoesWithItsSectors, LayersInv
<1>8. QED
  BY <1>5, <1>6, <1>7 DEF LayersInv

\* What cannot be stored goes from the map.
LEMMA NotStoredKeeps ==
    ASSUME LayersInv, NEW f \in posts, NotStored(f)
    PROVE  LayersInv'
<1>1. /\ UNCHANGED <<whim, under, dels>> /\ posts' = posts \ {f}
      /\ layers' = [layers EXCEPT !.drawn = @ \ {f}, !.selected = @ \ {f}]
  BY DEF NotStored
<1>2. /\ layers \in Layering /\ under \in [SectorsThen -> Towers]
      /\ f \in MoreSectors \cup Areas /\ posts \subseteq MoreSectors \cup Areas
      /\ f \in layers.drawn /\ f \notin layers.members
  BY DEF LayersInv, LayersTypeOK, OnTheMap
<1>3. /\ layers' \in Layering /\ layers'.drawn = layers.drawn \ {f}
      /\ layers'.rows = layers.rows /\ layers'.checked = layers.checked
      /\ layers'.members = layers.members /\ layers'.hidden = layers.hidden
      /\ layers'.selected = layers.selected \ {f}
  BY <1>1, <1>2 DEF Layering
<1>4. LayersTypeOK'
  BY <1>1, <1>3 DEF LayersInv, LayersTypeOK
<1>5. OnTheMap'
  BY <1>1, <1>2, <1>3 DEF LayersInv, OnTheMap
<1>6. OwnRows'
  <2> SUFFICES ASSUME "elsewhere" \notin whim
               PROVE  /\ layers'.rows = {g \in layers'.drawn \ posts' :
                                           g \in SectorsThen => under[g] \in layers'.drawn}
                      /\ layers'.checked = layers'.rows \ layers'.hidden
                      /\ layers'.hidden \subseteq layers'.drawn \ posts'
                      /\ (layers'.drawn \cap SectorsThen) \ posts' \subseteq layers'.members
    BY <1>1 DEF OwnRows
  <2>1. /\ layers.rows = {g \in layers.drawn \ posts :
                            g \in SectorsThen => under[g] \in layers.drawn}
        /\ layers.checked = layers.rows \ layers.hidden
        /\ layers.hidden \subseteq layers.drawn \ posts
        /\ (layers.drawn \cap SectorsThen) \ posts \subseteq layers.members
    BY DEF LayersInv, OwnRows
  <2>2. \A g \in SectorsThen : under[g] # f
    BY <1>2, FeaturesAssumption DEF SectorsThen
  <2>3. QED
    BY <1>1, <1>2, <1>3, <2>1, <2>2
<1>7. AllThere' /\ TowerGoesWithItsSectors'
  BY <1>1 DEF AllThere, TowerGoesWithItsSectors, LayersInv
<1>8. QED
  BY <1>4, <1>5, <1>6, <1>7 DEF LayersInv

\* A deletion is done, or reverted because another view was faster.
LEMMA RemovedKeeps ==
    ASSUME LayersInv, NEW f \in dels, Removed(f)
    PROVE  LayersInv'
<1>1. /\ UNCHANGED <<whim, under, posts>> /\ dels' = dels \ {f}
      /\ whim \cap {"delete", "add", "elsewhere"} # {}
  BY DEF Removed, LayersInv, AllThere
<1>2. layers \in Layering /\ f \notin layers.drawn /\ f \in Feats
  BY DEF LayersInv, LayersTypeOK, OnTheMap
<1>3. AllThere' /\ TowerGoesWithItsSectors'
  BY <1>1 DEF AllThere, TowerGoesWithItsSectors
<1>4. CASE UNCHANGED layers
  BY <1>1, <1>3, <1>4 DEF LayersInv, LayersTypeOK, OnTheMap, OwnRows
<1>5. CASE /\ "elsewhere" \in whim /\ f \in Areas
           /\ \E H \in SUBSET {f} :
                 layers' = [layers EXCEPT !.drawn = @ \cup {f}, !.hidden = @ \cup H]
  <2>1. PICK H \in SUBSET {f} :
                 layers' = [layers EXCEPT !.drawn = @ \cup {f}, !.hidden = @ \cup H]
    BY <1>5
  <2>2. /\ layers' \in Layering /\ layers'.drawn = layers.drawn \cup {f}
        /\ layers'.rows = layers.rows /\ layers'.checked = layers.checked
        /\ layers'.members = layers.members /\ layers'.hidden = layers.hidden \cup H
        /\ layers'.selected = layers.selected
    BY <1>2, <2>1 DEF Layering
  <2>3. LayersTypeOK' /\ OnTheMap'
    BY <1>1, <1>2, <2>2 DEF LayersInv, LayersTypeOK, OnTheMap
  <2>4. QED
    BY <1>1, <1>3, <1>5, <2>3 DEF LayersInv, OwnRows
<1>6. QED
  BY <1>4, <1>5 DEF Removed

\* A tower that another view deleted loses its sectors.
LEMMA ReadMissingKeeps ==
    ASSUME LayersInv, NEW f \in layers.drawn, ReadMissing(f)
    PROVE  LayersInv'
<1> DEFINE gone == IF f \in Towers THEN SectorsOf(layers, f) ELSE {}
           k == Erased(layers, gone)
<1>1. /\ UNCHANGED <<whim, under, posts>> /\ "elsewhere" \in whim
      /\ layers' = [k EXCEPT !.members = @ \ {f}] /\ dels' = dels \cup gone
  BY DEF ReadMissing
<1>2. /\ layers \in Layering /\ layers.members \subseteq layers.drawn \ posts
  BY DEF LayersInv, LayersTypeOK, OnTheMap
<1>3. gone \subseteq SectorsThen /\ gone \subseteq layers.drawn \ posts
  BY <1>2 DEF SectorsOf, Layering
<1> HIDE DEF gone
<1>4. /\ k \in Layering /\ k.drawn = layers.drawn \ gone
      /\ k.rows = layers.rows \ gone /\ k.checked = layers.checked \ gone
      /\ k.members = layers.members \ gone /\ k.hidden = layers.hidden \ gone
      /\ k.selected = layers.selected \ gone
  BY <1>2, ErasedIs
<1> HIDE DEF k
<1>5. /\ layers' \in Layering /\ layers'.drawn = layers.drawn \ gone
      /\ layers'.rows = layers.rows \ gone /\ layers'.checked = layers.checked \ gone
      /\ layers'.members \subseteq layers.members \ gone /\ layers'.hidden = layers.hidden \ gone
      /\ layers'.selected = layers.selected \ gone
  BY <1>1, <1>4 DEF Layering
<1>6. LayersTypeOK' /\ OnTheMap'
  BY <1>1, <1>3, <1>5 DEF LayersInv, LayersTypeOK, OnTheMap, Feats
<1>7. QED
  BY <1>1, <1>6 DEF LayersInv, OwnRows, AllThere, TowerGoesWithItsSectors

\* Every step of the list keeps its invariant.
LEMMA LayersStep == LayersInv /\ [LayersNext]_layerVars => LayersInv'
<1> SUFFICES ASSUME LayersInv, [LayersNext]_layerVars PROVE LayersInv'
  OBVIOUS
<1>1. ASSUME NEW f \in Feats, ToggleRow(f) PROVE LayersInv'
  BY <1>1, ToggleRowKeeps
<1>2. ASSUME NEW f \in Feats, AddFeature(f) PROVE LayersInv'
  BY <1>2, AddFeatureKeeps
<1>3. ASSUME NEW f \in Feats, DeleteFeature(f) PROVE LayersInv'
  BY <1>3, DeleteFeatureKeeps
<1>4. ASSUME NEW S \in SUBSET layers.drawn, SelectFeatures(S) PROVE LayersInv'
  BY <1>4, SelectFeaturesKeeps
<1>5. ASSUME NEW t \in Towers, ClickTower(t) PROVE LayersInv'
  BY <1>5, ClickTowerKeeps
<1>6. ASSUME NEW f \in posts, Stored(f) PROVE LayersInv'
  BY <1>6, StoredKeeps
<1>7. ASSUME NEW f \in posts, NotStored(f) PROVE LayersInv'
  BY <1>7, NotStoredKeeps
<1>8. ASSUME NEW f \in dels, Removed(f) PROVE LayersInv'
  BY <1>8, RemovedKeeps
<1>9. ASSUME NEW f \in layers.drawn, ReadMissing(f) PROVE LayersInv'
  BY <1>9, ReadMissingKeeps
<1>10. CASE UNCHANGED layerVars
  BY <1>10 DEF layerVars, LayersInv, LayersTypeOK, OnTheMap, OwnRows, AllThere,
               TowerGoesWithItsSectors, SectorsOf
<1>11. QED
  BY <1>1, <1>2, <1>3, <1>4, <1>5, <1>6, <1>7, <1>8, <1>9, <1>10 DEF LayersNext

\* The rows of the list are those of the features that are stored, their switches
\* tell what is hidden, and nothing hidden is selected, in every state and for any
\* towers, sectors and areas (the layers' view and MapboxLayer's events).
THEOREM RowsFollowTheMap == LayersSpec => []RowsTellTheMap
<1>1. LayersInv => RowsTellTheMap
  BY DEF LayersInv, OnTheMap, OwnRows, RowsTellTheMap
<1>2. QED
  BY LayersStart, LayersStep, <1>1, PTL DEF LayersSpec

\* While the network stays as it is, a tower is hidden exactly when all its sectors
\* are, whichever switches are turned in whatever order (setFeatureVisibility).
THEOREM TowersGoWithTheirSectors == LayersSpec => []TowerGoesWithItsSectors
<1>1. LayersInv => TowerGoesWithItsSectors
  BY DEF LayersInv
<1>2. QED
  BY LayersStart, LayersStep, <1>1, PTL DEF LayersSpec


------------------------------------------------------------------------------
(* The overlays of the map: what is kept *)

Where == Shapes \cup {Nothing}
Request == Shapes \X Nat
Feature == [of : Shapes \cup Masts, n : Nat, state : {"unsaved", "posting", "stored", "deleting"}]

PanelType == [awaited : SUBSET Overlays, active : Overlays \cup {Nothing},
              checked : SUBSET Overlays, shown : SUBSET Overlays,
              mode : {"simple_select", "draw_ap"}]
HoverType == [mouse : Where, open : BOOLEAN, html : Where]
GeogType == [current : [Overlays -> Nat], asked : SUBSET Request, replies : SUBSET Request,
             clicked : [Overlays -> Where], count : Nat]
MastType == [of : Masts \cup {Nothing}, button : {"plot", "again", "plotted"},
             saves : SUBSET (Masts \X Nat)]

OverlaysTypeOK ==
    /\ panel \in PanelType /\ hover \in HoverType /\ geog \in GeogType
    /\ drawn \subseteq Feature /\ mast \in MastType

\* One switch is on, that of the overlay that is shown, once all of them are there.
OneOverlay ==
    "early" \notin manner =>
        panel.checked = {panel.active} \ {Nothing} /\ panel.shown = panel.checked

PopupOfTheMouse ==
    "zero" \notin manner /\ hover.open =>
        hover.mouse # Nothing /\ hover.html = hover.mouse /\ hover.mouse[1] \in panel.shown

Under == geog.asked \cup geog.replies

\* A request's number is its own; only the last of an overlay has the current one.
Numbered ==
    /\ geog.asked \cap geog.replies = {}
    /\ \A r \in Under : /\ r[2] <= geog.count
                        /\ r[2] = geog.current[r[1][1]] => r[1] = geog.clicked[r[1][1]]
    /\ \A o \in Overlays : /\ geog.current[o] <= geog.count
                           /\ geog.clicked[o] # Nothing => geog.clicked[o][1] = o

\* A user who waits has one request under way and nothing being stored beside it,
\* and a plot button only for a mast that is not there and not on its way.
OneAtATime ==
    manner \cap {"hasty", "again", "drawing"} = {} =>
        /\ panel.mode # "draw_ap"
        /\ \A f, g \in drawn : f.of = g.of => f = g
        /\ \A r, q \in Under : r = q
        /\ \A f \in drawn : /\ f.state # "unsaved"
                            /\ Under # {} /\ f.of \in Shapes => f.state # "posting"
        /\ \A r, q \in mast.saves : r = q
        /\ \A r \in mast.saves : ~ PlottedAt(r[1])
        /\ mast.of # Nothing /\ mast.button = "plot" => mast.saves = {} /\ ~ PlottedAt(mast.of)

\* What was clicked last is asked for, or there.
LastIsComing ==
    manner \cap {"fail", "drawing", "twins", "delete"} = {} =>
        /\ panel.mode # "draw_ap"
        /\ \A f \in drawn : f.state # "unsaved" /\ f.state # "deleting"
        /\ \A o \in Overlays : geog.clicked[o] # Nothing =>
              \/ <<geog.clicked[o], geog.current[o]>> \in Under
              \/ \E f \in drawn : f.of = geog.clicked[o]

OverlaysInv ==
    /\ OverlaysTypeOK /\ OneOverlay /\ PopupOfTheMouse
    /\ Numbered /\ OneAtATime /\ LastIsComing

\* Overlays are not Nothing, and an area is of one.
LEMMA OfAnOverlay == Nothing \notin Overlays /\ \A s \in Shapes : s[1] \in Overlays /\ s # Nothing
  BY ShapesAssumption DEF Overlays

\* Nothing is asked for or added yet, and nothing is over the map.
LEMMA OverlaysStart == OverlaysInit => OverlaysInv
<1> SUFFICES ASSUME OverlaysInit PROVE OverlaysInv
  OBVIOUS
<1>1. /\ panel = [awaited |-> Overlays, active |-> Nothing, checked |-> {}, shown |-> {},
                  mode |-> "simple_select"]
      /\ hover = [mouse |-> Nothing, open |-> FALSE, html |-> Nothing]
      /\ geog = [current |-> [o \in Overlays |-> 0], asked |-> {}, replies |-> {},
                 clicked |-> [o \in Overlays |-> Nothing], count |-> 0]
      /\ drawn = {}
      /\ mast = [of |-> Nothing, button |-> "plot", saves |-> {}]
  BY DEF OverlaysInit, NothingClicked
<1>2. OverlaysTypeOK
  <2>1. panel \in PanelType /\ hover \in HoverType
    BY <1>1 DEF PanelType, HoverType, Where
  <2>2. geog \in GeogType
    BY <1>1 DEF GeogType, Where
  <2>3. mast \in MastType /\ drawn \subseteq Feature
    BY <1>1 DEF MastType
  <2>4. QED
    BY <2>1, <2>2, <2>3 DEF OverlaysTypeOK
<1>3. OneOverlay /\ PopupOfTheMouse
  BY <1>1 DEF OneOverlay, PopupOfTheMouse
<1>4. Numbered
  BY <1>1 DEF Numbered, Under
<1>5. OneAtATime /\ LastIsComing
  BY <1>1 DEF OneAtATime, LastIsComing, Under
<1>6. QED
  BY <1>2, <1>3, <1>4, <1>5 DEF OverlaysInv

\* An answer, or a reply of the database, that neither the switches nor the popup see.
LEMMA PopupUntouched ==
    ASSUME OneOverlay, PopupOfTheMouse, UNCHANGED <<manner, hover>>, panel'.active = panel.active,
           panel'.checked = panel.checked, panel'.shown = panel.shown
    PROVE  OneOverlay' /\ PopupOfTheMouse'
  BY DEF OneOverlay, PopupOfTheMouse

\* What is being added stays as it is.
LEMMA AddingUntouched ==
    ASSUME Numbered, OneAtATime, LastIsComing, UNCHANGED <<manner, geog, drawn, mast>>,
           panel'.mode = panel.mode
    PROVE  Numbered' /\ OneAtATime' /\ LastIsComing'
  BY DEF Numbered, OneAtATime, LastIsComing, Under, PlottedAt

------------------------------------------------------------------------------
(* The switches and the mouse *)

\* The last overlay that arrives makes the switches work.
LEMMA SourceArrivesKeeps ==
    ASSUME OverlaysInv, NEW o \in Overlays, SourceArrives(o)
    PROVE  OverlaysInv'
<1>1. /\ UNCHANGED <<manner, hover, geog, drawn, mast>>
      /\ panel \in PanelType /\ panel' = [panel EXCEPT !.awaited = @ \ {o}]
  BY DEF SourceArrives, OverlaysInv, OverlaysTypeOK
<1>2. /\ panel' \in PanelType /\ panel'.active = panel.active /\ panel'.checked = panel.checked
      /\ panel'.shown = panel.shown /\ panel'.mode = panel.mode
  BY <1>1 DEF PanelType
<1>3. OverlaysTypeOK'
  BY <1>1, <1>2 DEF OverlaysInv, OverlaysTypeOK
<1>4. QED
  BY <1>1, <1>2, <1>3, PopupUntouched, AddingUntouched DEF OverlaysInv

\* A switch takes the overlay that was on with it.
LEMMA SwitchedIs ==
    ASSUME NEW p \in PanelType, NEW o \in Overlays
    PROVE  /\ Switched(p, o) \in PanelType /\ Switched(p, o).mode = p.mode
           /\ (p.checked = {p.active} \ {Nothing} /\ p.shown = p.checked) =>
                 /\ Switched(p, o).checked = {Switched(p, o).active} \ {Nothing}
                 /\ Switched(p, o).shown = Switched(p, o).checked
<1> DEFINE q == [p EXCEPT !.checked = Toggle(@, o)]
           w == Switched(p, o)
<1>0. o # Nothing
  BY OfAnOverlay
<1>1. /\ q \in PanelType /\ q.active = p.active /\ q.shown = p.shown /\ q.mode = p.mode
      /\ q.checked = IF o \in p.checked THEN p.checked \ {o} ELSE p.checked \cup {o}
  BY DEF PanelType, Toggle
<1>2. w = IF p.active = o THEN [Remove(q, o) EXCEPT !.active = Nothing]
          ELSE [Put(Remove(q, p.active), o) EXCEPT !.active = o, !.checked = @ \ {p.active}]
  BY DEF Switched
<1> HIDE DEF q, w
<1>3. CASE p.active = o
  <2> DEFINE r == Remove(q, o)
  <2>1. r \in PanelType /\ r.checked = q.checked /\ r.shown = q.shown \ {o} /\ r.mode = q.mode
    BY <1>1 DEF Remove, PanelType
  <2>2. w = [r EXCEPT !.active = Nothing]
    BY <1>2, <1>3
  <2> HIDE DEF r
  <2>3. /\ w \in PanelType /\ w.checked = q.checked /\ w.shown = q.shown \ {o}
        /\ w.mode = q.mode /\ w.active = Nothing
    BY <2>1, <2>2 DEF PanelType
  <2>4. QED
    BY <1>0, <1>1, <1>3, <2>3 DEF w
<1>4. CASE p.active # o
  <2> DEFINE r == Remove(q, p.active)
             t == Put(r, o)
  <2>1. /\ r \in PanelType /\ r.checked = q.checked /\ r.shown = q.shown \ {p.active}
        /\ r.mode = q.mode
    BY <1>1 DEF Remove, PanelType
  <2> HIDE DEF r
  <2>2. /\ t \in PanelType /\ t.checked = q.checked /\ t.shown = (q.shown \ {p.active}) \cup {o}
        /\ t.mode = q.mode
    BY <2>1 DEF Put, PanelType
  <2>3. w = [t EXCEPT !.active = o, !.checked = @ \ {p.active}]
    BY <1>2, <1>4 DEF r
  <2> HIDE DEF t
  <2>4. /\ w \in PanelType /\ w.checked = q.checked \ {p.active} /\ w.shown = t.shown
        /\ w.mode = q.mode /\ w.active = o
    BY <2>2, <2>3 DEF PanelType
  <2>5. QED
    BY <1>0, <1>1, <1>4, <2>2, <2>4 DEF w
<1>5. QED
  BY <1>3, <1>4

\* A click on a switch, with the mouse off the map.
LEMMA ClickSwitchKeeps ==
    ASSUME OverlaysInv, NEW o \in Overlays, ClickSwitch(o)
    PROVE  OverlaysInv'
<1>1. /\ UNCHANGED <<manner, hover, geog, drawn>> /\ hover.mouse = Nothing
      /\ panel' = IF Ready THEN Switched(panel, o) ELSE [panel EXCEPT !.checked = Toggle(@, o)]
      /\ Ready \/ "early" \in manner
      /\ mast' = mast \/ mast' = [mast EXCEPT !.of = Nothing]
      /\ panel \in PanelType /\ mast \in MastType
  BY DEF ClickSwitch, Click, OverlaysInv, OverlaysTypeOK
<1>2. /\ panel' \in PanelType /\ panel'.mode = panel.mode
      /\ OneOverlay'
  <2>1. CASE Ready
    BY <1>1, <2>1, SwitchedIs DEF OneOverlay, OverlaysInv
  <2>2. CASE ~ Ready
    BY <1>1, <2>2 DEF PanelType, Toggle, OneOverlay
  <2>3. QED
    BY <2>1, <2>2
<1>3. /\ mast' \in MastType /\ mast'.saves = mast.saves
      /\ mast'.of = Nothing \/ (mast'.of = mast.of /\ mast'.button = mast.button)
  BY <1>1 DEF MastType
<1>4. OverlaysTypeOK' /\ PopupOfTheMouse'
  BY <1>1, <1>2, <1>3 DEF OverlaysInv, OverlaysTypeOK, PopupOfTheMouse
<1>5. Numbered' /\ OneAtATime' /\ LastIsComing'
  BY <1>1, <1>2, <1>3 DEF OverlaysInv, Numbered, OneAtATime, LastIsComing, Under, PlottedAt
<1>6. QED
  BY <1>2, <1>4, <1>5 DEF OverlaysInv

\* The popup is closed before it tells about another area.
LEMMA MouseMoveKeeps ==
    ASSUME OverlaysInv, NEW s \in Shapes, MouseMove(s)
    PROVE  OverlaysInv'
<1>1. /\ UNCHANGED <<manner, panel, geog, drawn, mast>> /\ s[1] \in panel.shown
      /\ hover \in HoverType /\ hover' = Pointed(hover, s) /\ s # Nothing
  BY OfAnOverlay DEF MouseMove, OverlaysInv, OverlaysTypeOK
<1>2. hover' = [mouse |-> s, open |-> TRUE, html |-> s]
  BY <1>1 DEF Pointed, ShowPopup, HidePopup, HoverType
<1>3. OverlaysTypeOK'
  BY <1>1, <1>2 DEF OverlaysInv, OverlaysTypeOK, HoverType, Where
<1>4. OneOverlay' /\ PopupOfTheMouse'
  BY <1>1, <1>2 DEF OverlaysInv, OneOverlay, PopupOfTheMouse
<1>5. QED
  BY <1>1, <1>3, <1>4, AddingUntouched DEF OverlaysInv

\* The mouse leaves, and with it the popup.
LEMMA MouseLeaveKeeps ==
    ASSUME OverlaysInv, MouseLeave
    PROVE  OverlaysInv'
<1>1. /\ UNCHANGED <<manner, panel, geog, drawn, mast>> /\ hover \in HoverType
      /\ hover' = [hover EXCEPT !.mouse = Nothing, !.open = @ /\ HasIdZero(hover.mouse)]
  BY DEF MouseLeave, OverlaysInv, OverlaysTypeOK
<1>2. /\ hover' \in HoverType
      /\ hover'.open = (hover.open /\ HasIdZero(hover.mouse))
  <2>1. (hover.open /\ HasIdZero(hover.mouse)) \in BOOLEAN
    BY DEF HasIdZero
  <2> DEFINE b == hover.open /\ HasIdZero(hover.mouse)
  <2> HIDE DEF b
  <2>2. b \in BOOLEAN /\ hover' = [hover EXCEPT !.mouse = Nothing, !.open = b]
    BY <1>1, <2>1 DEF b
  <2>3. hover' \in HoverType /\ hover'.open = b
    BY <1>1, <2>2 DEF HoverType, Where
  <2>4. QED
    BY <2>3 DEF b
<1>3. OverlaysTypeOK'
  BY <1>1, <1>2 DEF OverlaysInv, OverlaysTypeOK
<1>4. OneOverlay' /\ PopupOfTheMouse'
  BY <1>1, <1>2 DEF OverlaysInv, OneOverlay, PopupOfTheMouse, HasIdZero
<1>5. QED
  BY <1>1, <1>3, <1>4, AddingUntouched DEF OverlaysInv

------------------------------------------------------------------------------
(* Areas are asked for, drawn, stored and deleted *)

\* The last click's request has a number of its own.
LEMMA ClickShapeKeeps ==
    ASSUME OverlaysInv, NEW s \in Shapes, ClickShape(s)
    PROVE  OverlaysInv'
<1> DEFINE k == geog.count + 1
           r == <<s, k>>
<1>0. /\ manner' = manner /\ panel' = panel /\ drawn' = drawn /\ mast' = mast
      /\ "hasty" \in manner \/ ~Busy
      /\ hover' = [hover EXCEPT !.open = FALSE] /\ hover \in HoverType
  BY DEF ClickShape, Click, OverlaysInv, OverlaysTypeOK
<1>1. /\ geog \in GeogType
      /\ geog' = [geog EXCEPT !.count = @ + 1, !.current[s[1]] = geog.count + 1,
                              !.asked = @ \cup {<<s, geog.count + 1>>}, !.clicked[s[1]] = s]
      /\ s[1] \in Overlays
  BY OfAnOverlay DEF ClickShape, Click, OverlaysInv, OverlaysTypeOK
<1>2. hover' \in HoverType /\ ~ hover'.open
  BY <1>0 DEF HoverType
<1>3. k \in Nat /\ geog.count \in Nat /\ r \in Request
  BY <1>1 DEF GeogType, Request
<1>4. /\ geog'.count = k /\ geog'.current = [geog.current EXCEPT ![s[1]] = k]
      /\ geog'.asked = geog.asked \cup {r} /\ geog'.replies = geog.replies
      /\ geog'.clicked = [geog.clicked EXCEPT ![s[1]] = s]
  BY <1>1 DEF GeogType
<1> HIDE DEF k, r
<1>5. geog' \in GeogType
  <2>1. /\ geog'.current \in [Overlays -> Nat] /\ geog'.clicked \in [Overlays -> Where]
        /\ geog'.asked \in SUBSET Request /\ geog'.replies \in SUBSET Request
    BY <1>1, <1>3, <1>4 DEF GeogType, Where
  <2>2. geog' = [current |-> geog'.current, asked |-> geog'.asked, replies |-> geog'.replies,
                 clicked |-> geog'.clicked, count |-> k]
    BY <1>1, <1>4 DEF GeogType
  <2>3. QED
    BY <2>1, <2>2, <1>3 DEF GeogType
<1>6. OverlaysTypeOK'
  BY <1>0, <1>2, <1>5 DEF OverlaysInv, OverlaysTypeOK
<1>7. OneOverlay' /\ PopupOfTheMouse'
  BY <1>0, <1>2 DEF OverlaysInv, OneOverlay, PopupOfTheMouse
<1>8. /\ Under' = Under \cup {r} /\ r[1] = s /\ r[2] = k
      /\ \A q \in Under : q[2] \in Nat /\ q[2] <= geog.count /\ q[2] # k
      /\ \A o \in Overlays : geog.current[o] \in Nat
  <2>1. Under' = Under \cup {r}
    BY <1>4 DEF Under
  <2>2. \A q \in Under : q[2] \in Nat /\ q[2] <= geog.count
    BY <1>1 DEF OverlaysInv, Numbered, Under, GeogType, Request
  <2>3. \A q \in Under : q[2] # k
    BY <2>2, <1>3 DEF k
  <2>4. QED
    BY <1>1, <2>1, <2>2, <2>3 DEF r, GeogType
<1>9. /\ \A o \in Overlays : /\ geog'.current[o] = IF o = s[1] THEN k ELSE geog.current[o]
                             /\ geog'.clicked[o] = IF o = s[1] THEN s ELSE geog.clicked[o]
      /\ geog.count <= k
  BY <1>1, <1>3, <1>4 DEF GeogType, k
<1>10. Numbered'
  <2>1. geog'.asked \cap geog'.replies = {}
    <3>1. r \notin geog.replies
      BY <1>8 DEF Under
    <3>2. QED
      BY <1>4, <3>1 DEF OverlaysInv, Numbered
  <2>2. \A q \in Under : q[1][1] \in Overlays
    BY <1>1, OfAnOverlay DEF Under, GeogType, Request
  <2>3. ASSUME NEW q \in Under'
        PROVE  /\ q[2] <= geog'.count
               /\ q[2] = geog'.current[q[1][1]] => q[1] = geog'.clicked[q[1][1]]
    <3>1. CASE q = r
      BY <1>1, <1>3, <1>4, <1>8, <1>9, <3>1
    <3>2. CASE q \in Under
      <4>1. q[2] <= geog'.count /\ q[2] # k
        BY <1>3, <1>4, <1>8, <1>9, <3>2
      <4>2. q[1][1] \in Overlays /\ (q[2] = geog.current[q[1][1]] => q[1] = geog.clicked[q[1][1]])
        BY <2>2, <3>2 DEF OverlaysInv, Numbered
      <4>3. QED
        BY <1>9, <4>1, <4>2
    <3>3. QED
      BY <1>8, <3>1, <3>2
  <2>4. \A o \in Overlays : /\ geog'.current[o] <= geog'.count
                            /\ geog'.clicked[o] # Nothing => geog'.clicked[o][1] = o
    <3>1. ASSUME NEW o \in Overlays
          PROVE  /\ geog'.current[o] <= geog'.count
                 /\ geog'.clicked[o] # Nothing => geog'.clicked[o][1] = o
      <4>1. /\ geog.current[o] <= geog.count /\ geog.current[o] \in Nat
            /\ geog.clicked[o] # Nothing => geog.clicked[o][1] = o
        BY <1>8 DEF OverlaysInv, Numbered
      <4>2. QED
        BY <1>3, <1>4, <1>9, <4>1
    <3>2. QED
      BY <3>1
  <2>5. QED
    BY <2>1, <2>3, <2>4 DEF Numbered
<1>11. OneAtATime'
  <2> SUFFICES ASSUME manner \cap {"hasty", "again", "drawing"} = {} PROVE OneAtATime'
    BY <1>0 DEF OneAtATime
  <2>1. Under = {} /\ \A f \in drawn : f.state = "stored"
    BY <1>0 DEF Busy, Under
  <2>2. Under' = {r}
    BY <1>8, <2>1
  <2>3. QED
    BY <1>0, <2>1, <2>2 DEF OverlaysInv, OneAtATime, PlottedAt
<1>12. LastIsComing'
  <2> SUFFICES ASSUME manner \cap {"fail", "drawing", "twins", "delete"} = {},
                      NEW o \in Overlays, geog'.clicked[o] # Nothing
               PROVE  \/ <<geog'.clicked[o], geog'.current[o]>> \in Under'
                      \/ \E f \in drawn : f.of = geog'.clicked[o]
    BY <1>0 DEF OverlaysInv, LastIsComing
  <2>1. CASE o = s[1]
    BY <1>8, <1>9, <2>1 DEF r
  <2>2. CASE o # s[1]
    BY <1>8, <1>9, <2>2 DEF OverlaysInv, LastIsComing
  <2>3. QED
    BY <2>1, <2>2
<1>13. QED
  BY <1>6, <1>7, <1>10, <1>11, <1>12 DEF OverlaysInv

\* The task answers, or comes to nothing.
LEMMA GeogTaskKeeps ==
    ASSUME OverlaysInv, NEW s \in Shapes, NEW n \in Nat, GeogTask(s, n)
    PROVE  OverlaysInv'
<1> DEFINE r == <<s, n>>
<1>1. /\ UNCHANGED <<manner, panel, hover, drawn, mast>> /\ r \in geog.asked
      /\ \/ geog' = [geog EXCEPT !.asked = @ \ {r}, !.replies = @ \cup {r}]
         \/ "fail" \in manner /\ geog' = [geog EXCEPT !.asked = @ \ {r}]
      /\ geog \in GeogType /\ r \in Request
  BY DEF GeogTask, OverlaysInv, OverlaysTypeOK, Request
<1> HIDE DEF r
<1>2. /\ geog' \in GeogType /\ geog'.current = geog.current /\ geog'.clicked = geog.clicked
      /\ geog'.count = geog.count /\ geog'.asked = geog.asked \ {r}
      /\ \/ geog'.replies = geog.replies \cup {r}
         \/ "fail" \in manner /\ geog'.replies = geog.replies
  BY <1>1, ZenonT(60) DEF GeogType
<1>3. Under' \subseteq Under /\ (Under' = Under \/ "fail" \in manner)
  BY <1>1, <1>2 DEF Under
<1>4. OverlaysTypeOK' /\ OneOverlay' /\ PopupOfTheMouse'
  BY <1>1, <1>2 DEF OverlaysInv, OverlaysTypeOK, OneOverlay, PopupOfTheMouse
<1>5. Numbered'
  <2>1. geog'.asked \cap geog'.replies = {}
    BY <1>2 DEF OverlaysInv, Numbered
  <2>2. QED
    BY <1>2, <1>3, <2>1 DEF OverlaysInv, Numbered
<1>6. OneAtATime'
  BY <1>1, <1>3 DEF OverlaysInv, OneAtATime, PlottedAt
<1>7. LastIsComing'
  BY <1>1, <1>2, <1>3 DEF OverlaysInv, LastIsComing
<1>8. QED
  BY <1>4, <1>5, <1>6, <1>7 DEF OverlaysInv

\* An answer is drawn if it is the last one's and its name is not there.
LEMMA ReceiveGeogKeeps ==
    ASSUME OverlaysInv, NEW s \in Shapes, NEW n \in Nat, ReceiveGeog(s, n)
    PROVE  OverlaysInv'
<1> DEFINE r == <<s, n>>
           state == IF panel.mode = "draw_ap" THEN "unsaved" ELSE "posting"
           x == [of |-> s, n |-> n, state |-> state]
<1>1. /\ UNCHANGED <<manner, hover, mast>> /\ r \in geog.replies
      /\ geog' = [geog EXCEPT !.replies = @ \ {r}]
      /\ \/ /\ geog.current[s[1]] = n /\ NameOf(s) \notin KnownNames
            /\ drawn' = drawn \cup {x} /\ panel' = [panel EXCEPT !.mode = "simple_select"]
         \/ /\ ~ (geog.current[s[1]] = n /\ NameOf(s) \notin KnownNames)
            /\ drawn' = drawn /\ panel' = panel
      /\ geog \in GeogType /\ panel \in PanelType /\ drawn \subseteq Feature
      /\ s[1] \in Overlays /\ s \notin Masts
  BY OfAnOverlay, ShapesAssumption DEF ReceiveGeog, OverlaysInv, OverlaysTypeOK
<1>2. x \in Feature /\ x.of = s /\ x.state = state /\ state \in {"unsaved", "posting"}
  BY DEF Feature
<1>3. r[1] = s /\ r[2] = n
  OBVIOUS
<1> HIDE DEF r, x
<1>4. /\ geog' \in GeogType /\ geog'.current = geog.current /\ geog'.clicked = geog.clicked
      /\ geog'.count = geog.count /\ geog'.asked = geog.asked
      /\ geog'.replies = geog.replies \ {r}
  BY <1>1 DEF GeogType
<1>5. /\ panel' \in PanelType /\ panel'.active = panel.active /\ panel'.checked = panel.checked
      /\ panel'.shown = panel.shown /\ panel'.mode \in {"simple_select", panel.mode}
  BY <1>1 DEF PanelType
<1>6. OverlaysTypeOK'
  BY <1>1, <1>2, <1>4, <1>5 DEF OverlaysInv, OverlaysTypeOK
<1>7. OneOverlay' /\ PopupOfTheMouse'
  BY <1>1, <1>5, PopupUntouched DEF OverlaysInv
<1>8. Under' = Under \ {r} /\ r \in Under
  BY <1>1, <1>4 DEF Under, OverlaysInv, Numbered
<1>9. Numbered'
  BY <1>4, <1>8 DEF OverlaysInv, Numbered
<1>10. drawn \subseteq drawn' /\ drawn' \subseteq drawn \cup {x}
  BY <1>1
<1>11. OneAtATime'
  <2> SUFFICES ASSUME manner \cap {"hasty", "again", "drawing"} = {} PROVE OneAtATime'
    BY <1>1 DEF OneAtATime
  <2>1. /\ panel.mode # "draw_ap" /\ state = "posting"
        /\ \A f, g \in drawn : f.of = g.of => f = g
        /\ Under = {r} /\ Under' = {}
        /\ \A f \in drawn : f.state # "unsaved" /\ (f.of \in Shapes => f.state # "posting")
        /\ \A p, q \in mast.saves : p = q
        /\ \A p \in mast.saves : ~ PlottedAt(p[1])
        /\ mast.of # Nothing /\ mast.button = "plot" => mast.saves = {} /\ ~ PlottedAt(mast.of)
    BY <1>8 DEF OverlaysInv, OneAtATime
  <2>2. panel'.mode # "draw_ap"
    BY <1>5, <2>1
  <2>3. x \in drawn' => x \in drawn \/ \A f \in drawn : f.of # s
    <3> SUFFICES ASSUME x \in drawn', NEW f \in drawn, f.of = s PROVE x \in drawn
      OBVIOUS
    <3>1. f.state \in {"stored", "deleting"}
      BY <1>1, <2>1 DEF Feature
    <3>2. NameOf(s) \in KnownNames
      BY <3>1 DEF KnownNames
    <3>3. QED
      BY <1>1, <3>2
  <2>4. \A f, g \in drawn' : f.of = g.of => f = g
    BY <1>2, <1>10, <2>1, <2>3
  <2>5. \A f \in drawn' : f.state # "unsaved"
    BY <1>2, <1>10, <2>1
  <2>6. /\ \A p \in mast.saves : p[1] \in Masts
        /\ mast.of # Nothing => mast.of \in Masts
    BY DEF OverlaysInv, OverlaysTypeOK, MastType
  <2>7. \A m \in Masts : ~ PlottedAt(m) => \A f \in drawn' : f.of # m
    BY <1>1, <1>2, <1>10 DEF PlottedAt
  <2>8. \A p \in mast.saves : \A f \in drawn' : f.of # p[1]
    BY <2>1, <2>6, <2>7
  <2>9. mast.of # Nothing /\ mast.button = "plot" =>
          mast.saves = {} /\ \A f \in drawn' : f.of # mast.of
    BY <2>1, <2>6, <2>7
  <2>10. QED
    BY <1>1, <2>1, <2>2, <2>4, <2>5, <2>8, <2>9 DEF OneAtATime, PlottedAt
<1>12. LastIsComing'
  <2> SUFFICES ASSUME manner \cap {"fail", "drawing", "twins", "delete"} = {} PROVE LastIsComing'
    BY <1>1 DEF LastIsComing
  <2>1. /\ panel.mode # "draw_ap" /\ state = "posting"
        /\ \A f \in drawn : f.state # "unsaved" /\ f.state # "deleting"
    BY DEF OverlaysInv, LastIsComing
  <2>2. panel'.mode # "draw_ap" /\ \A f \in drawn' : f.state # "unsaved" /\ f.state # "deleting"
    BY <1>2, <1>5, <1>10, <2>1
  <2>3. ASSUME NEW o \in Overlays, geog.clicked[o] # Nothing
        PROVE  \/ <<geog.clicked[o], geog.current[o]>> \in Under'
               \/ \E f \in drawn' : f.of = geog.clicked[o]
    <3>1. CASE \E f \in drawn : f.of = geog.clicked[o]
      BY <1>10, <3>1
    <3>2. CASE <<geog.clicked[o], geog.current[o]>> \in Under \ {r}
      BY <1>8, <3>2
    <3>3. CASE <<geog.clicked[o], geog.current[o]>> = r
      <4>1. geog.clicked[o] = s /\ geog.current[o] = n
        BY <1>3, <3>3
      <4>2. s[1] = o
        BY <2>3, <4>1 DEF OverlaysInv, Numbered
      <4>3. CASE NameOf(s) \in KnownNames
        <5>1. PICK f \in drawn : NameOf(s) = NameOf(f.of)
          BY <4>3 DEF KnownNames
        <5>2. f.of = s
          BY <5>1 DEF NameOf
        <5>3. QED
          BY <1>10, <4>1, <5>2
      <4>4. CASE NameOf(s) \notin KnownNames
        BY <1>1, <1>2, <4>1, <4>2, <4>4
      <4>5. QED
        BY <4>3, <4>4
    <3>4. QED
      BY <2>3, <3>1, <3>2, <3>3 DEF OverlaysInv, LastIsComing
  <2>4. QED
    BY <1>4, <2>2, <2>3 DEF LastIsComing
<1>13. QED
  BY <1>6, <1>7, <1>9, <1>11, <1>12 DEF OverlaysInv

\* A feature that is stored, or being deleted, is the same one.
LEMMA StateChanges ==
    ASSUME OverlaysInv, NEW f \in drawn, NEW g \in Feature, g.of = f.of,
           g.state = "stored" \/ (g.state = "deleting" /\ "delete" \in manner),
           drawn' = (drawn \ {f}) \cup {g}, UNCHANGED <<manner, panel, hover, geog, mast>>
    PROVE  OverlaysInv'
<1>1. OverlaysTypeOK' /\ OneOverlay' /\ PopupOfTheMouse' /\ Numbered'
  BY DEF OverlaysInv, OverlaysTypeOK, OneOverlay, PopupOfTheMouse, Numbered, Under
<1>2. \A o : (\E h \in drawn' : h.of = o) <=> (\E h \in drawn : h.of = o)
  OBVIOUS
<1>3. OneAtATime'
  <2> SUFFICES ASSUME manner \cap {"hasty", "again", "drawing"} = {} PROVE OneAtATime'
    BY DEF OneAtATime
  <2>1. \A h, k \in drawn' : h.of = k.of => h = k
    BY DEF OverlaysInv, OneAtATime
  <2>2. \A h \in drawn' : /\ h.state # "unsaved"
                          /\ Under # {} /\ h.of \in Shapes => h.state # "posting"
    BY DEF OverlaysInv, OneAtATime
  <2>3. Under' = Under
    BY DEF Under
  <2>4. QED
    BY <1>2, <2>1, <2>2, <2>3 DEF OverlaysInv, OneAtATime, PlottedAt
<1>4. LastIsComing'
  <2>1. Under' = Under
    BY DEF Under
  <2>2. QED
    BY <1>2, <2>1 DEF OverlaysInv, LastIsComing
<1>5. QED
  BY <1>1, <1>3, <1>4 DEF OverlaysInv

\* A feature that goes has not been stored, or was to be deleted.
LEMMA GoesKeeps ==
    ASSUME OverlaysInv, NEW f \in drawn, f.state = "deleting" \/ "fail" \in manner,
           drawn' = drawn \ {f}, UNCHANGED <<manner, panel, hover, geog, mast>>
    PROVE  OverlaysInv'
<1>1. OverlaysTypeOK' /\ OneOverlay' /\ PopupOfTheMouse' /\ Numbered'
  BY DEF OverlaysInv, OverlaysTypeOK, OneOverlay, PopupOfTheMouse, Numbered, Under
<1>2. OneAtATime'
  BY DEF OverlaysInv, OneAtATime, PlottedAt, Under
<1>3. LastIsComing'
  BY DEF OverlaysInv, LastIsComing, Under
<1>4. QED
  BY <1>1, <1>2, <1>3 DEF OverlaysInv

\* The database stores what was drawn, or fails.
LEMMA PostedKeeps ==
    ASSUME OverlaysInv, NEW f \in drawn, Posted(f)
    PROVE  OverlaysInv'
<1> DEFINE g == [f EXCEPT !.state = "stored"]
<1>1. /\ UNCHANGED <<manner, panel, hover, geog, mast>> /\ f \in Feature
      /\ drawn' = (drawn \ {f}) \cup {g} \/ ("fail" \in manner /\ drawn' = drawn \ {f})
  BY DEF Posted, OverlaysInv, OverlaysTypeOK
<1>2. g \in Feature /\ g.of = f.of /\ g.state = "stored"
  BY <1>1 DEF Feature
<1> HIDE DEF g
<1>3. CASE drawn' = (drawn \ {f}) \cup {g}
  BY <1>1, <1>2, <1>3, StateChanges
<1>4. CASE "fail" \in manner /\ drawn' = drawn \ {f}
  BY <1>1, <1>4, GoesKeeps
<1>5. QED
  BY <1>1, <1>3, <1>4

\* An area is deleted at once for the user, and later in the database.
LEMMA DeleteAreaKeeps ==
    ASSUME OverlaysInv, NEW f \in drawn, DeleteArea(f)
    PROVE  OverlaysInv'
<1> DEFINE g == [f EXCEPT !.state = "deleting"]
<1>1. /\ UNCHANGED <<manner, panel, hover, geog, mast>> /\ f \in Feature
      /\ drawn' = (drawn \ {f}) \cup {g} /\ "delete" \in manner
  BY DEF DeleteArea, Click, OverlaysInv, OverlaysTypeOK
<1>2. g \in Feature /\ g.of = f.of /\ g.state = "deleting"
  BY <1>1 DEF Feature
<1> HIDE DEF g
<1>3. QED
  BY <1>1, <1>2, StateChanges

\* Then it is gone.
LEMMA DeletedKeeps ==
    ASSUME OverlaysInv, NEW f \in drawn, Deleted(f)
    PROVE  OverlaysInv'
  BY GoesKeeps DEF Deleted

\* Who draws a tower while an answer is under way does not wait.
LEMMA StartDrawingKeeps ==
    ASSUME OverlaysInv, StartDrawing
    PROVE  OverlaysInv'
<1>1. /\ UNCHANGED <<manner, hover, geog, drawn, mast>> /\ "drawing" \in manner
      /\ panel \in PanelType /\ panel' = [panel EXCEPT !.mode = "draw_ap"]
  BY DEF StartDrawing, Click, OverlaysInv, OverlaysTypeOK
<1>2. /\ panel' \in PanelType /\ panel'.active = panel.active /\ panel'.checked = panel.checked
      /\ panel'.shown = panel.shown
  BY <1>1 DEF PanelType
<1>3. OverlaysTypeOK' /\ Numbered'
  BY <1>1, <1>2 DEF OverlaysInv, OverlaysTypeOK, Numbered, Under
<1>4. OneOverlay' /\ PopupOfTheMouse'
  BY <1>1, <1>2, PopupUntouched DEF OverlaysInv
<1>5. OneAtATime' /\ LastIsComing'
  BY <1>1 DEF OneAtATime, LastIsComing
<1>6. QED
  BY <1>3, <1>4, <1>5 DEF OverlaysInv

------------------------------------------------------------------------------
(* Masts are plotted as towers *)

\* A mast's popup offers what is not there.
LEMMA ClickMastKeeps ==
    ASSUME OverlaysInv, NEW m \in Masts, ClickMast(m)
    PROVE  OverlaysInv'
<1>1. /\ UNCHANGED <<manner, panel, hover, geog, drawn>> /\ mast \in MastType /\ mast.saves = {}
      /\ mast' = [mast EXCEPT !.of = m, !.button = ButtonRow(m)]
  BY DEF ClickMast, Click, OverlaysInv, OverlaysTypeOK
<1>2. /\ mast' \in MastType /\ mast'.of = m /\ mast'.saves = {}
      /\ mast'.button = "plot" => ~ PlottedAt(m)
  BY <1>1 DEF MastType, ButtonRow
<1>3. OverlaysTypeOK' /\ OneOverlay' /\ PopupOfTheMouse' /\ Numbered' /\ LastIsComing'
  BY <1>1, <1>2 DEF OverlaysInv, OverlaysTypeOK, OneOverlay, PopupOfTheMouse, Numbered,
                    LastIsComing, Under
<1>4. OneAtATime'
  BY <1>1, <1>2 DEF OverlaysInv, OneAtATime, PlottedAt, Under
<1>5. QED
  BY <1>3, <1>4 DEF OverlaysInv

\* The button that was pressed is not offered again, unless it stays.
LEMMA PlotAsTowerKeeps ==
    ASSUME OverlaysInv, PlotAsTower
    PROVE  OverlaysInv'
<1> DEFINE k == geog.count + 1
           r == <<mast.of, k>>
           b == IF PlottedAt(mast.of) THEN "plotted" ELSE "again"
<1>1. /\ UNCHANGED <<manner, panel, hover, drawn>> /\ mast \in MastType /\ geog \in GeogType
      /\ geog' = [geog EXCEPT !.count = @ + 1]
      /\ mast' = [mast EXCEPT !.saves = @ \cup {r}, !.button = b]
      /\ mast.of # Nothing /\ mast.button # "plotted"
      /\ mast.button = "again" => "again" \in manner
  BY DEF PlotAsTower, Click, OverlaysInv, OverlaysTypeOK
<1>2. /\ geog' \in GeogType /\ geog'.current = geog.current /\ geog'.clicked = geog.clicked
      /\ geog'.asked = geog.asked /\ geog'.replies = geog.replies
      /\ geog'.count = k /\ k \in Nat /\ geog.count \in Nat
  BY <1>1 DEF GeogType
<1>3. b \in {"plotted", "again"} /\ r \in Masts \X Nat
  BY <1>1, <1>2 DEF MastType
<1> HIDE DEF b, r
<1>4. /\ mast' \in MastType /\ mast'.of = mast.of /\ mast'.button = b
      /\ mast'.saves = mast.saves \cup {r}
  BY <1>1, <1>2, <1>3 DEF MastType
<1>5. OverlaysTypeOK' /\ OneOverlay' /\ PopupOfTheMouse' /\ LastIsComing'
  BY <1>1, <1>2, <1>4 DEF OverlaysInv, OverlaysTypeOK, OneOverlay, PopupOfTheMouse,
                          LastIsComing, Under
<1>6. Numbered'
  <2>1. Under' = Under /\ geog'.asked \cap geog'.replies = {}
    BY <1>2 DEF OverlaysInv, Numbered, Under
  <2>2. \A x \in Int : x <= geog.count => x <= k
    BY <1>2
  <2>3. \A q \in Under : q[2] <= k /\ (q[2] = geog.current[q[1][1]] => q[1] = geog.clicked[q[1][1]])
    <3>1. \A q \in Under : q[2] \in Nat
      BY <1>1 DEF Under, GeogType, Request
    <3>2. QED
      BY <2>2, <3>1 DEF OverlaysInv, Numbered
  <2>4. \A o \in Overlays : /\ geog.current[o] <= k
                            /\ geog.clicked[o] # Nothing => geog.clicked[o][1] = o
    <3>1. \A o \in Overlays : geog.current[o] \in Nat
      BY <1>1 DEF GeogType
    <3>2. QED
      BY <2>2, <3>1 DEF OverlaysInv, Numbered
  <2>5. QED
    BY <1>2, <2>1, <2>3, <2>4 DEF Numbered
<1>7. OneAtATime'
  <2> SUFFICES ASSUME manner \cap {"hasty", "again", "drawing"} = {} PROVE OneAtATime'
    BY <1>1 DEF OneAtATime
  <2>1. mast.saves = {} /\ ~ PlottedAt(mast.of)
    BY <1>1 DEF OverlaysInv, OneAtATime, MastType
  <2>2. b = "again" /\ mast'.saves = {r} /\ r[1] = mast.of
    BY <1>4, <2>1 DEF b, r
  <2>3. Under' = Under
    BY <1>2 DEF Under
  <2>4. QED
    BY <1>1, <1>4, <2>1, <2>2, <2>3 DEF OverlaysInv, OneAtATime, PlottedAt
<1>8. QED
  BY <1>5, <1>6, <1>7 DEF OverlaysInv

\* The tower is there once its elevation is known.
LEMMA SaveMastKeeps ==
    ASSUME OverlaysInv, NEW m \in Masts, NEW n \in Nat, SaveMast(m, n)
    PROVE  OverlaysInv'
<1> DEFINE x == [of |-> m, n |-> n, state |-> "posting"]
           r == <<m, n>>
<1>1. /\ UNCHANGED <<manner, panel, hover, geog>> /\ mast \in MastType /\ r \in mast.saves
      /\ mast' = [mast EXCEPT !.saves = @ \ {r}]
      /\ drawn' = drawn \cup {x} /\ m \notin Shapes
  BY ShapesAssumption DEF SaveMast, OverlaysInv, OverlaysTypeOK
<1>2. x \in Feature /\ x.of = m /\ x.state = "posting"
  BY DEF Feature
<1> HIDE DEF x
<1>3. /\ mast' \in MastType /\ mast'.of = mast.of /\ mast'.button = mast.button
      /\ mast'.saves = mast.saves \ {r} /\ r[1] = m
  BY <1>1 DEF MastType
<1> HIDE DEF r
<1>4. OverlaysTypeOK' /\ OneOverlay' /\ PopupOfTheMouse' /\ Numbered'
  BY <1>1, <1>2, <1>3 DEF OverlaysInv, OverlaysTypeOK, OneOverlay, PopupOfTheMouse,
                          Numbered, Under
<1>5. OneAtATime'
  <2> SUFFICES ASSUME manner \cap {"hasty", "again", "drawing"} = {} PROVE OneAtATime'
    BY <1>1 DEF OneAtATime
  <2>1. /\ mast.saves = {r} /\ mast'.saves = {} /\ ~ PlottedAt(m)
        /\ ~ (mast.of # Nothing /\ mast.button = "plot")
    BY <1>1, <1>3 DEF OverlaysInv, OneAtATime
  <2>2. \A f, g \in drawn' : f.of = g.of => f = g
    BY <1>1, <1>2, <2>1 DEF OverlaysInv, OneAtATime, PlottedAt
  <2>3. \A f \in drawn' : /\ f.state # "unsaved"
                          /\ Under # {} /\ f.of \in Shapes => f.state # "posting"
    BY <1>1, <1>2 DEF OverlaysInv, OneAtATime
  <2>4. Under' = Under
    BY <1>1 DEF Under
  <2>5. QED
    BY <1>1, <1>3, <2>1, <2>2, <2>3, <2>4 DEF OverlaysInv, OneAtATime
<1>6. LastIsComing'
  BY <1>1, <1>2 DEF OverlaysInv, LastIsComing, Under
<1>7. QED
  BY <1>4, <1>5, <1>6 DEF OverlaysInv

------------------------------------------------------------------------------
(* The theorems of the overlays *)

\* Every step of the overlays keeps their invariant.
LEMMA OverlaysStep == OverlaysInv /\ [OverlaysNext]_overlayVars => OverlaysInv'
<1> SUFFICES ASSUME OverlaysInv, [OverlaysNext]_overlayVars PROVE OverlaysInv'
  OBVIOUS
<1>0. /\ geog.asked \subseteq Request /\ geog.replies \subseteq Request
      /\ mast.saves \subseteq Masts \X Nat
  BY DEF OverlaysInv, OverlaysTypeOK, GeogType, MastType
<1>1. ASSUME NEW o \in Overlays, SourceArrives(o) \/ ClickSwitch(o) PROVE OverlaysInv'
  BY <1>1, SourceArrivesKeeps, ClickSwitchKeeps
<1>2. ASSUME NEW s \in Shapes, MouseMove(s) \/ ClickShape(s) PROVE OverlaysInv'
  BY <1>2, MouseMoveKeeps, ClickShapeKeeps
<1>3. ASSUME MouseLeave \/ StartDrawing \/ PlotAsTower PROVE OverlaysInv'
  BY <1>3, MouseLeaveKeeps, StartDrawingKeeps, PlotAsTowerKeeps
<1>4. ASSUME NEW r \in geog.asked, GeogTask(r[1], r[2]) PROVE OverlaysInv'
  <2>1. r[1] \in Shapes /\ r[2] \in Nat
    BY <1>0 DEF Request
  <2>2. QED
    BY <1>4, <2>1, GeogTaskKeeps
<1>5. ASSUME NEW r \in geog.replies, ReceiveGeog(r[1], r[2]) PROVE OverlaysInv'
  <2>1. r[1] \in Shapes /\ r[2] \in Nat
    BY <1>0 DEF Request
  <2>2. QED
    BY <1>5, <2>1, ReceiveGeogKeeps
<1>6. ASSUME NEW f \in drawn, Posted(f) \/ DeleteArea(f) \/ Deleted(f) PROVE OverlaysInv'
  BY <1>6, PostedKeeps, DeleteAreaKeeps, DeletedKeeps
<1>7. ASSUME NEW m \in Masts, ClickMast(m) PROVE OverlaysInv'
  BY <1>7, ClickMastKeeps
<1>8. ASSUME NEW r \in mast.saves, SaveMast(r[1], r[2]) PROVE OverlaysInv'
  <2>1. r[1] \in Masts /\ r[2] \in Nat
    BY <1>0
  <2>2. QED
    BY <1>8, <2>1, SaveMastKeeps
<1>9. CASE UNCHANGED overlayVars
  BY <1>9 DEF overlayVars, OverlaysInv, OverlaysTypeOK, OneOverlay, PopupOfTheMouse,
              Numbered, OneAtATime, LastIsComing, Under, PlottedAt
<1>10. QED
  BY <1>1, <1>2, <1>3, <1>4, <1>5, <1>6, <1>7, <1>8, <1>9 DEF OverlaysNext

\* Whatever the user clicks and whenever the overlays arrive: the switches tell what
\* lies over the map and the popup tells about the area under the mouse, if he clicks
\* no switch before the overlays are there and no area's tile id is 0.
THEOREM SwitchesTellTheMap == OverlaysSpec => []SwitchesAndPopupTellTheMap
<1>1. OverlaysInv => SwitchesAndPopupTellTheMap
  BY DEF OverlaysInv, OneOverlay, PopupOfTheMouse, SwitchesAndPopupTellTheMap
<1>2. QED
  BY OverlaysStart, OverlaysStep, <1>1, PTL DEF OverlaysSpec

\* For any areas and masts and any number of clicks, nothing is added twice by a user
\* who waits until what he added is stored (receiveGeog, plotAsTower).
THEOREM AddedOnce == OverlaysSpec => []NothingIsAddedTwice
<1>1. OverlaysInv => NothingIsAddedTwice
  BY DEF OverlaysInv, OneAtATime, NothingIsAddedTwice
<1>2. QED
  BY OverlaysStart, OverlaysStep, <1>1, PTL DEF OverlaysSpec

\* Every overlay's last click is in the workspace when all has come to rest, whatever
\* answers overtook each other (currentRequestUUIDs).
THEOREM LastClicksAreStored == OverlaysSpec => []LastClickIsStored
<1>1. OverlaysInv => LastClickIsStored
  BY DEF OverlaysInv, LastIsComing, LastClickIsStored, Busy, Under
<1>2. QED
  BY OverlaysStart, OverlaysStep, <1>1, PTL DEF OverlaysSpec

(***************************************************************************)
(*                          Statistics of the area                         *)
(***************************************************************************)

------------------------------------------------------------------------------
(* The sum of a page *)

\* A whole number of times k.
Multiple(x, k) == \E q \in Int : x = k * q

\* Multiples of k add up to one, and a multiple is divided without a remainder.
LEMMA Multiples ==
    ASSUME NEW k \in Nat \ {0}
    PROVE  /\ \A x \in Nat : x % k = 0 => Multiple(x, k)
           /\ \A x, y \in Int : Multiple(x, k) /\ Multiple(y, k) => Multiple(x + y, k)
           /\ \A x \in Int : Multiple(x, k) => (x \div k) * k = x
<1>1. ASSUME NEW x \in Nat, x % k = 0 PROVE Multiple(x, k)
  <2> DEFINE q == x \div k
  <2>1. q \in Int /\ x = k * q + (x % k)
    OBVIOUS
  <2>2. QED
    BY <1>1, <2>1 DEF Multiple
<1>2. ASSUME NEW x \in Int, NEW y \in Int, Multiple(x, k), Multiple(y, k) PROVE Multiple(x + y, k)
  <2>1. PICK q \in Int : x = k * q
    BY <1>2 DEF Multiple
  <2>2. PICK r \in Int : y = k * r
    BY <1>2 DEF Multiple
  <2>3. x + y = k * (q + r) /\ q + r \in Int
    BY <2>1, <2>2
  <2>4. QED
    BY <2>3 DEF Multiple
<1>3. ASSUME NEW x \in Int, Multiple(x, k) PROVE (x \div k) * k = x
  <2>1. PICK q \in Int : x = k * q
    BY <1>3 DEF Multiple
  <2>2. (k * q) \div k = q
    OBVIOUS
  <2>3. QED
    BY <2>1, <2>2
<1>4. QED
  BY <1>1, <1>2, <1>3

\* Incomes that are all known, on the buildings up to m after the first L.
PageSum(f, L, m) ==
    /\ SumOver(f, L + 1 .. m) \in Int
    /\ SumOver(f, 1 .. m) = SumOver(f, 1 .. L) + SumOver(f, L + 1 .. m)
    /\ m > L => (SumOver(f, L + 1 .. m) \div (m - L)) * (m - L) = SumOver(f, L + 1 .. m)

\* The sums of a page and of what is before it.
LEMMA PageSums ==
    ASSUME NEW n \in Nat, NEW f \in [1 .. n -> Nat], NEW L \in 0 .. n, NEW m \in L .. n,
           m > L => \A i \in 1 .. n : f[i] % (m - L) = 0
    PROVE  PageSum(f, L, m)
<1> DEFINE d == m - L
           Page(j) == L + 1 .. L + j
<1>1. d \in Nat /\ m = L + d /\ L \in Nat /\ IsFiniteSet(1 .. n) /\ L + d <= n
  BY FS_Interval
<1>14. d > 0 => \A i \in 1 .. n : f[i] % d = 0
  OBVIOUS
<1>2. PICK g : Sums(g, f, 1 .. n)
  <2> DEFINE S == 1 .. n
  <2>1. \A x \in S : f[x] \in Int
    OBVIOUS
  <2>2. IsFiniteSet(S)
    BY <1>1
  <2> HIDE DEF S
  <2>3. \E g : Sums(g, f, S)
    BY <2>1, <2>2, SumsExist
  <2>4. QED
    BY <2>3 DEF S
<1>3. /\ g[{}] = 0 /\ \A T \in SUBSET (1 .. n) : g[T] \in Int /\ g[T] = SumOver(f, T)
      /\ \A T \in SUBSET (1 .. n) : \A x \in (1 .. n) \ T : g[T \cup {x}] = g[T] + f[x]
  BY <1>2 DEF Sums
<1> HIDE DEF d
<1>4. \A j \in 0 .. d : Page(j) \in SUBSET (1 .. n) /\ 1 .. L + j \in SUBSET (1 .. n)
  BY <1>1
<1>5. \A j \in 1 .. d : /\ L + j \in 1 .. n /\ f[L + j] \in Nat
                        /\ Page(j) = Page(j - 1) \cup {L + j} /\ L + j \notin Page(j - 1)
                        /\ 1 .. L + j = (1 .. L + (j - 1)) \cup {L + j} /\ L + j \notin 1 .. L + (j - 1)
  <2> SUFFICES ASSUME NEW j \in 1 .. d
               PROVE  /\ L + j \in 1 .. n /\ f[L + j] \in Nat
                      /\ Page(j) = Page(j - 1) \cup {L + j} /\ L + j \notin Page(j - 1)
                      /\ 1 .. L + j = (1 .. L + (j - 1)) \cup {L + j} /\ L + j \notin 1 .. L + (j - 1)
    OBVIOUS
  <2>1. L + j \in 1 .. n
    BY <1>1
  <2>2. f[L + j] \in Nat
    BY <2>1
  <2>3. Page(j) = Page(j - 1) \cup {L + j} /\ L + j \notin Page(j - 1)
    <3>1. j \in Int /\ j >= 1 /\ L \in Int
      BY <1>1
    <3>2. \A i \in Int : (L + 1 <= i /\ i <= L + j) <=> (L + 1 <= i /\ i <= L + (j - 1)) \/ i = L + j
      BY <3>1
    <3>3. Page(j) = Page(j - 1) \cup {L + j}
      BY <3>1, <3>2
    <3>4. L + j \notin Page(j - 1)
      BY <3>1
    <3>5. QED
      BY <3>3, <3>4
  <2>4. 1 .. L + j = (1 .. L + (j - 1)) \cup {L + j} /\ L + j \notin 1 .. L + (j - 1)
    <3>1. j \in Int /\ j >= 1 /\ L \in Int /\ L >= 0
      BY <1>1
    <3> DEFINE x == L + j
    <3>2. x \in Int /\ x >= 1 /\ L + (j - 1) = x - 1
      BY <3>1
    <3> HIDE DEF x
    <3>3. 1 .. x = (1 .. x - 1) \cup {x} /\ x \notin 1 .. x - 1
      BY <3>2
    <3>4. QED
      BY <3>2, <3>3 DEF x
  <2>5. QED
    BY <2>1, <2>2, <2>3, <2>4
<1> DEFINE K == {j \in 0 .. d : /\ g[1 .. L + j] = g[1 .. L] + g[Page(j)]
                                /\ d > 0 => Multiple(g[Page(j)], d)}
<1>6. 0 \in K
  <2>1. Page(0) = {} /\ L + 0 = L
    BY <1>1
  <2>2. g[1 .. L] \in Int
    BY <1>1, <1>3, <1>4
  <2>3. d > 0 => Multiple(0, d)
    <3>1. d > 0 => 0 = d * 0
      BY <1>1
    <3>2. QED
      BY <3>1 DEF Multiple
  <2>4. g[Page(0)] = 0
    BY <1>3, <2>1
  <2> HIDE DEF Page
  <2>5. g[1 .. L + 0] = g[1 .. L] + g[Page(0)]
    BY <2>1, <2>2, <2>4
  <2>6. QED
    BY <1>1, <2>3, <2>4, <2>5
<1>7. ASSUME NEW j \in 1 .. d, j - 1 \in K PROVE j \in K
  <2> DEFINE x == f[L + j]
             a == g[1 .. L + (j - 1)]
             b == g[Page(j - 1)]
             c == g[1 .. L]
  <2>1. j - 1 \in 0 .. d /\ j \in 0 .. d /\ 0 \in 0 .. d /\ d > 0
    BY <1>1
  <2>2. x \in Nat /\ a \in Int /\ b \in Int
    BY <1>3, <1>4, <1>5, <2>1
  <2>3. c \in Int
    <3>1. 1 .. L \in SUBSET (1 .. n)
      BY <1>1
    <3>2. QED
      BY <1>3, <3>1
  <2>4. a = c + b /\ Multiple(b, d)
    BY <1>7, <2>1
  <2>5. g[1 .. L + j] = a + x /\ g[Page(j)] = b + x
    <3> DEFINE T == 1 .. L + (j - 1)
               U == Page(j - 1)
    <3>1. T \in SUBSET (1 .. n) /\ U \in SUBSET (1 .. n) /\ L + j \in (1 .. n) \ T /\ L + j \in (1 .. n) \ U
      BY <1>4, <1>5, <2>1
    <3>2. 1 .. L + j = T \cup {L + j} /\ Page(j) = U \cup {L + j}
      BY <1>5
    <3>3. a = g[T] /\ b = g[U]
      OBVIOUS
    <3> HIDE DEF T, U, Page
    <3>4. g[T \cup {L + j}] = g[T] + x /\ g[U \cup {L + j}] = g[U] + x
      BY <1>3, <3>1
    <3>5. QED
      BY <3>2, <3>3, <3>4
  <2>6. Multiple(x, d)
    <3>1. x % d = 0
      BY <1>5, <1>14, <2>1
    <3>2. d \in Nat \ {0} /\ x \in Nat
      BY <1>1, <2>1, <2>2
    <3> HIDE DEF x
    <3>3. \A y \in Nat : y % d = 0 => Multiple(y, d)
      BY <3>2, Multiples
    <3>4. QED
      BY <3>1, <3>2, <3>3
  <2> HIDE DEF x, a, b, c
  <2>7. a + x = c + (b + x) /\ Multiple(b + x, d)
    BY <1>1, <2>1, <2>2, <2>3, <2>4, <2>6, Multiples
  <2> HIDE DEF Page
  <2>8. QED
    BY <2>1, <2>5, <2>7 DEF c
<1> HIDE DEF K
<1>8. d \in K
  <2>1. 0 .. d \subseteq K
    BY <1>1, <1>6, <1>7, Upwards
  <2>2. QED
    BY <1>1, <2>1
<1>9. g[1 .. m] = g[1 .. L] + g[L + 1 .. m] /\ (d > 0 => Multiple(g[L + 1 .. m], d))
  BY <1>1, <1>8 DEF K
<1>10. /\ g[1 .. m] = SumOver(f, 1 .. m) /\ g[1 .. L] = SumOver(f, 1 .. L)
       /\ g[L + 1 .. m] = SumOver(f, L + 1 .. m) /\ g[L + 1 .. m] \in Int
  <2>1. 1 .. m \in SUBSET (1 .. n) /\ 1 .. L \in SUBSET (1 .. n) /\ L + 1 .. m \in SUBSET (1 .. n)
    BY <1>1
  <2>2. QED
    BY <1>3, <2>1
<1> DEFINE s == SumOver(f, L + 1 .. m)
<1>11. s \in Int /\ (d > 0 => (s \div d) * d = s)
  <2>1. s \in Int /\ (d > 0 => Multiple(s, d))
    BY <1>9, <1>10
  <2> HIDE DEF s
  <2>2. d > 0 => d \in Nat \ {0}
    BY <1>1
  <2>3. QED
    BY <2>1, <2>2, Multiples
<1>12. m > L => d > 0
  BY <1>1
<1>13. QED
  BY <1>9, <1>10, <1>11, <1>12 DEF PageSum, d


------------------------------------------------------------------------------
(* The invariant *)

Halves == {"providers", "prices"}
Response == [error : BOOLEAN, of : Nat]

StatisticsTypeOK ==
    /\ habit \subseteq Habit
    /\ ground.number \in Nat /\ (ground.number > 0 => ground.is \in Grounds)
    /\ income \in [is : {"running", "ended", "dead"}, last : Nat, total : Int, count : Nat,
                   failed : BOOLEAN]
    /\ awaited \subseteq Halves
    /\ told \in [providers : Response, prices : Response,
                 income : [is : {"loading", "mean", "error"}, mean : Int \X Nat]]
    /\ rendering \subseteq [of : Nat \X Nat, canada : BOOLEAN]
    /\ dialog \in [shown : BOOLEAN, of : Nat \X Nat]

\* Both halves of the selected area have come without error.
BothCame == \A half \in Halves : told[half].of = ground.number /\ ~told[half].error

\* What has come is of the selected area, and so is a dialog on its way, as long as
\* the user waits for it; once both halves have come there is one.
DialogsInv ==
    LET now == ground.number
    IN  /\ \A half \in Halves : /\ told[half].of \in {0, now}
                                /\ half \in awaited => told[half] = Silence
        /\ now = 0 => awaited = {} /\ rendering = {} /\ income.is # "running"
        /\ "hasty" \notin habit =>
              /\ \A p \in rendering : p.of = <<now, now>> /\ p.canada = ground.is.canada
              /\ dialog.shown => dialog.of = <<now, now>>
        /\ now > 0 /\ ~ground.is.canada /\ BothCame =>
              dialog.shown \/ \E p \in rendering : ~p.canada

\* Every building has a tract with an income, and no query has failed.
AllKnown ==
    /\ ground.number > 0 /\ ground.is.precomputed /\ ~income.failed
    /\ \A g \in DOMAIN ground.is.incomes : ground.is.incomes[g] \notin {NoTract, Null}

\* What is averaged so far is the sum over the buildings up to the last gid.
IncomeInv ==
    LET incomes == ground.is.incomes
    IN  AllKnown =>
          /\ income.is = "running" =>
                /\ income.last \in 0 .. Len(incomes) /\ income.count = income.last
                /\ income.total = SumOver(incomes, 1 .. income.last)
          /\ income.is = "ended" =>
                told.income = [is   |-> "mean",
                               mean |-> <<SumOver(incomes, DOMAIN incomes), Len(incomes)>>]

StatisticsInv == StatisticsTypeOK /\ DialogsInv /\ IncomeInv


------------------------------------------------------------------------------
(* A page of incomes *)

\* What the assumption says of an area.
LEMMA GroundFacts ==
    ASSUME StatisticsAssumption, NEW a \in Grounds
    PROVE  /\ a.incomes \in Seq(Nat \cup {NoTract, Null}) /\ a.precomputed \in BOOLEAN
           /\ a.simple \in Nat \cup {Null} /\ a.canada \in BOOLEAN
           /\ PageSize \in Nat \ {0}
           /\ \A i \in DOMAIN a.incomes : \A k \in 1 .. PageSize : a.incomes[i] >= 0 => a.incomes[i] % k = 0
<1>1. a \in Ground
  BY DEF StatisticsAssumption
<1>2. QED
  BY <1>1 DEF StatisticsAssumption, Ground

\* A page is counted and averaged in whole numbers.
LEMMA RowTyped ==
    ASSUME StatisticsAssumption, NEW a \in Grounds, NEW after \in Nat
    PROVE  IncomeRow(a.incomes, after) \in [count : Nat, mean : Int, last : Nat]
<1> DEFINE f == a.incomes
           rows  == {g \in after + 1 .. after + PageSize : g \in DOMAIN f /\ f[g] # NoTract}
           known == {g \in rows : f[g] # Null}
           top == CHOOSE g \in rows : \A h \in rows : h <= g
<1>1. f \in Seq(Nat \cup {NoTract, Null}) /\ PageSize \in Nat
  BY GroundFacts
<1> HIDE DEF f
<1>2. rows \subseteq 1 .. Len(f) /\ Len(f) \in Nat
  BY <1>1
<1>3. \A g \in known : f[g] \in Nat
  BY <1>1
<1>4. IsFiniteSet(rows) /\ IsFiniteSet(known)
  <2>1. IsFiniteSet(1 .. Len(f))
    BY <1>2, FS_Interval
  <2>2. known \subseteq rows
    OBVIOUS
  <2> HIDE DEF rows, known
  <2>3. QED
    BY <1>2, <2>1, <2>2, FS_Subset
<1>5. rows # {} => top \in Nat
  <2> HIDE DEF rows
  <2>1. rows # {} => Max(rows) \in rows /\ \A x \in rows : x <= Max(rows)
    BY <1>2, MaxOfSome
  <2>2. rows # {} => top \in rows
    BY <2>1
  <2>3. \A x \in rows : x \in Nat
    BY <1>2
  <2>4. QED
    BY <2>2, <2>3
<1>6. SumOver(f, known) \in Int
  <2> HIDE DEF known
  <2>1. PICK g : Sums(g, f, known)
    <3>1. \A x \in known : f[x] \in Int
      BY <1>3
    <3>2. QED
      BY <1>4, <3>1, SumsExist
  <2>2. QED
    BY <2>1 DEF Sums
<1>7. Cardinality(rows) \in Nat /\ Cardinality(known) \in Nat /\ (known # {} => Cardinality(known) > 0)
  <2> HIDE DEF rows, known
  <2>1. Cardinality(rows) \in Nat /\ Cardinality(known) \in Nat
    BY <1>4, FS_CardinalityType
  <2>2. Cardinality(known) = 0 <=> known = {}
    BY <1>4, FS_EmptySet
  <2>3. QED
    BY <2>1, <2>2
<1> DEFINE mean == IF known = {} THEN 0 ELSE SumOver(f, known) \div Cardinality(known)
<1>8. mean \in Int
  <2> HIDE DEF known
  <2>1. CASE known = {}
    BY <2>1
  <2>2. CASE known # {}
    <3>1. Cardinality(known) \in Nat \ {0}
      BY <1>7, <2>2
    <3>2. SumOver(f, known) \div Cardinality(known) \in Int
      BY <1>6, <3>1
    <3>3. QED
      BY <2>2, <3>2
  <2>3. QED
    BY <2>1, <2>2
<1>9. IncomeRow(f, after) = [count |-> Cardinality(rows), mean |-> mean,
                             last |-> IF rows = {} THEN 0 ELSE top]
  BY DEF IncomeRow, SumOver
<1> HIDE DEF mean, rows, known, top
<1>10. IncomeRow(f, after) \in [count : Nat, mean : Int, last : Nat]
  BY <1>5, <1>7, <1>8, <1>9
<1>11. QED
  BY <1>10 DEF f

\* A page after the first L of n incomes that are all known: it averages those up to m.
PageGives(r, f, L, n) ==
    \E m \in L .. n :
       /\ r.count = m - L
       /\ SumOver(f, 1 .. m) = SumOver(f, 1 .. L) + r.mean * r.count
       /\ IF m = L THEN L = n ELSE r.last = m

\* So the task does.
LEMMA PageOfKnown ==
    ASSUME StatisticsAssumption, NEW a \in Grounds,
           \A g \in DOMAIN a.incomes : a.incomes[g] \notin {NoTract, Null},
           NEW L \in 0 .. Len(a.incomes)
    PROVE  PageGives(IncomeRow(a.incomes, L), a.incomes, L, Len(a.incomes))
<1> DEFINE f == a.incomes
           n == Len(f)
           rows  == {g \in L + 1 .. L + PageSize : g \in DOMAIN f /\ f[g] # NoTract}
           known == {g \in rows : f[g] # Null}
           top == CHOOSE g \in rows : \A h \in rows : h <= g
           m == IF L + PageSize <= n THEN L + PageSize ELSE n
<1>1. /\ f \in Seq(Nat \cup {NoTract, Null}) /\ PageSize \in Nat \ {0}
      /\ \A i \in DOMAIN f : \A k \in 1 .. PageSize : f[i] >= 0 => f[i] % k = 0
      /\ \A g \in DOMAIN f : f[g] \notin {NoTract, Null}
  BY GroundFacts
<1>2. L \in 0 .. n
  OBVIOUS
<1> HIDE DEF f
<1>3. n \in Nat /\ DOMAIN f = 1 .. n
  BY <1>1
<1>4. f \in [1 .. n -> Nat]
  BY <1>1
<1> HIDE DEF n
<1>5. m \in L .. n /\ m \in Nat /\ L \in Nat /\ m <= L + PageSize /\ (m = L => L = n)
  BY <1>1, <1>2, <1>3
<1>6. rows = L + 1 .. m /\ known = rows
  BY <1>1, <1>2, <1>3
<1> HIDE DEF rows, known, m
<1>7. PageSum(f, L, m)
  <2>1. m > L => \A i \in 1 .. n : f[i] % (m - L) = 0
    <3> SUFFICES ASSUME m > L, NEW i \in 1 .. n PROVE f[i] % (m - L) = 0
      OBVIOUS
    <3>1. m - L \in 1 .. PageSize
      BY <1>1, <1>5
    <3>2. f[i] >= 0 /\ i \in DOMAIN f
      BY <1>3, <1>4
    <3>3. QED
      BY <1>1, <3>1, <3>2
  <2>2. QED
    BY <1>2, <1>3, <1>4, <1>5, <2>1, PageSums
<1>8. Cardinality(rows) = m - L
  <2>1. \A x, y \in Int : Cardinality(x .. y) = IF x > y THEN 0 ELSE y - x + 1
    BY FS_Interval
  <2>2. Cardinality(L + 1 .. m) = m - L
    <3>1. L + 1 \in Int /\ m \in Int /\ L <= m
      BY <1>3, <1>5
    <3>2. Cardinality(L + 1 .. m) = IF L + 1 > m THEN 0 ELSE m - (L + 1) + 1
      BY <2>1, <3>1
    <3>3. QED
      BY <1>5, <3>1, <3>2
  <2>3. QED
    BY <1>6, <2>2
<1>9. rows # {} <=> m > L
  <2>1. m > L => L + 1 \in L + 1 .. m
    BY <1>5
  <2>2. ~ (m > L) => L + 1 .. m = {}
    BY <1>5
  <2>3. QED
    BY <1>6, <2>1, <2>2
<1>10. m > L => top = m
  <2> SUFFICES ASSUME m > L PROVE top = m
    OBVIOUS
  <2>1. m \in rows /\ \A h \in rows : h <= m /\ h \in Int
    BY <1>5, <1>6
  <2>2. \A g \in rows : (\A h \in rows : h <= g) => g = m
    BY <1>5, <2>1
  <2>3. QED
    BY <2>1, <2>2
<1> DEFINE s == SumOver(f, rows)
           mean == IF known = {} THEN 0 ELSE SumOver(f, known) \div Cardinality(known)
<1>11. mean * (m - L) = s /\ s \in Int
  <2>1. s \in Int /\ (m > L => (s \div (m - L)) * (m - L) = s)
    BY <1>6, <1>7 DEF PageSum
  <2>2. CASE m > L
    <3>1. mean = s \div (m - L)
      BY <1>6, <1>8, <1>9, <2>2
    <3>2. QED
      BY <2>1, <2>2, <3>1
  <2>3. CASE ~ (m > L)
    <3>1. mean = 0 /\ m - L = 0
      BY <1>5, <1>6, <1>9, <2>3
    <3>2. L + 1 .. m = {}
      BY <1>5, <2>3
    <3>3. s = 0
      <4>1. SumOver(f, {}) = 0
        <5>1. PICK g : Sums(g, f, {})
          BY FS_EmptySet, SumsExist
        <5>2. QED
          BY <5>1 DEF Sums
      <4>2. QED
        BY <1>6, <3>2, <4>1
    <3>4. QED
      BY <3>1, <3>3
  <2>4. QED
    BY <2>2, <2>3
<1>12. IncomeRow(f, L) = [count |-> Cardinality(rows), mean |-> mean,
                          last |-> IF rows = {} THEN 0 ELSE top]
  BY DEF IncomeRow, SumOver, rows, known
<1>13. SumOver(f, 1 .. m) = SumOver(f, 1 .. L) + s
  BY <1>6, <1>7 DEF PageSum
<1> HIDE DEF mean, s, top
<1> DEFINE r == IncomeRow(f, L)
<1>14. r.count = m - L /\ r.mean = mean /\ (m > L => r.last = m)
  BY <1>8, <1>9, <1>10, <1>12
<1> HIDE DEF r
<1>15. SumOver(f, 1 .. m) = SumOver(f, 1 .. L) + r.mean * r.count
  BY <1>11, <1>13, <1>14
<1>16. PageGives(r, f, L, n)
  <2>1. IF m = L THEN L = n ELSE r.last = m
    BY <1>5, <1>14
  <2>2. QED
    BY <1>5, <1>14, <1>15, <2>1 DEF PageGives
<1>17. QED
  BY <1>16 DEF r, f, n


------------------------------------------------------------------------------
(* The steps *)

\* Records of the state, by their fields.
LEMMA StatisticsFields ==
    ASSUME StatisticsTypeOK
    PROVE  /\ income = [is |-> income.is, last |-> income.last, total |-> income.total,
                        count |-> income.count, failed |-> income.failed]
           /\ told = [providers |-> told.providers, prices |-> told.prices, income |-> told.income]
           /\ told.providers \in Response /\ told.prices \in Response
           /\ income.last \in Nat /\ income.total \in Int /\ income.count \in Nat
           /\ income.failed \in BOOLEAN
           /\ dialog = [shown |-> dialog.shown, of |-> dialog.of]
           /\ dialog.shown \in BOOLEAN /\ dialog.of \in Nat \X Nat
BY DEF StatisticsTypeOK

\* The invariant holds while nothing is selected,
LEMMA StatisticsInitInv ==
    ASSUME StatisticsAssumption, StatisticsInit
    PROVE  StatisticsInv
<1>1. PICK h \in Habits : habit = h[1]
  BY DEF StatisticsInit
<1>2. habit \subseteq Habit
  BY <1>1 DEF StatisticsAssumption
<1>3. /\ ground.number = 0
      /\ income = [is |-> "ended", last |-> 0, total |-> 0, count |-> 0, failed |-> FALSE]
      /\ awaited = {} /\ told = NothingTold /\ rendering = {} /\ dialog = NoDialog
  BY DEF StatisticsInit, NothingSelected
<1>4. StatisticsTypeOK
  BY <1>2, <1>3 DEF StatisticsTypeOK, NothingTold, NoDialog, Silence, Response
<1>5. DialogsInv
  BY <1>3 DEF DialogsInv, NothingTold, NoDialog, Silence, Halves
<1>6. IncomeInv
  BY <1>3 DEF IncomeInv, AllKnown
<1>7. QED
  BY <1>4, <1>5, <1>6 DEF StatisticsInv

\* when an area is selected,
LEMMA SelectGroundKeeps ==
    ASSUME StatisticsAssumption, StatisticsInv, SelectGround
    PROVE  StatisticsInv'
<1>1. PICK a \in Grounds : ground' = [number |-> ground.number + 1, is |-> a]
  BY DEF SelectGround
<1>2. /\ rendering # {} => "hasty" \in habit
      /\ income' = [is |-> "running", last |-> 0, total |-> 0, count |-> 0, failed |-> FALSE]
      /\ awaited' = Halves /\ told' = NothingTold
      /\ dialog' = [dialog EXCEPT !.shown = FALSE] /\ habit' = habit /\ rendering' = rendering
  BY DEF SelectGround, Reset, Halves
<1>3. StatisticsTypeOK /\ dialog' = [shown |-> FALSE, of |-> dialog.of]
  BY <1>2, StatisticsFields DEF StatisticsInv
<1>4. ground.number \in Nat /\ ground'.number = ground.number + 1 /\ ground'.is = a
  BY <1>1, <1>3 DEF StatisticsTypeOK
<1>5. StatisticsTypeOK'
  <2>1. ground'.number \in Nat /\ ground'.is \in Grounds /\ dialog' \in [shown : BOOLEAN, of : Nat \X Nat]
    BY <1>3, <1>4, StatisticsFields
  <2>2. QED
    BY <1>2, <1>3, <2>1 DEF StatisticsTypeOK, NothingTold, Silence, Response
<1>6. DialogsInv'
  <2>1. \A half \in Halves : told'[half] = Silence
    BY <1>2 DEF Halves, NothingTold
  <2>2. ground'.number > 0
    BY <1>4
  <2>3. "hasty" \notin habit' => rendering' = {}
    BY <1>2
  <2>4. ~ dialog'.shown
    BY <1>3
  <2>5. ~ BothCame'
    BY <1>4, <2>1, <2>2 DEF BothCame, Silence, Halves
  <2>6. QED
    BY <2>1, <2>2, <2>3, <2>4, <2>5 DEF DialogsInv, Silence
<1>7. IncomeInv'
  <2>1. ASSUME AllKnown'
        PROVE  /\ 0 \in 0 .. Len(a.incomes)
               /\ 0 = SumOver(a.incomes, 1 .. 0)
    <3>1. a.incomes \in Seq(Nat \cup {NoTract, Null})
      BY GroundFacts
    <3>2. Len(a.incomes) \in Nat
      BY <3>1
    <3>3. 1 .. 0 = {}
      OBVIOUS
    <3>4. SumOver(a.incomes, {}) = 0
      <4>1. PICK g : Sums(g, a.incomes, {})
        BY FS_EmptySet, SumsExist
      <4>2. QED
        BY <4>1 DEF Sums
    <3>5. QED
      BY <3>2, <3>3, <3>4
  <2>2. QED
    BY <1>2, <1>4, <2>1 DEF IncomeInv
<1>8. QED
  BY <1>5, <1>6, <1>7 DEF StatisticsInv

\* A step of the income's task leaves the halves and the dialog.
LEMMA IncomeStepKeeps ==
    ASSUME StatisticsInv, IncomeStep,
           told' = told \/ \E shown \in [is : {"mean", "error"}, mean : Int \X Nat] :
                              told' = [told EXCEPT !.income = shown],
           income' \in [is : {"running", "ended", "dead"}, last : Nat, total : Int, count : Nat,
                        failed : BOOLEAN]
    PROVE  StatisticsTypeOK' /\ DialogsInv'
<1>1. /\ habit' = habit /\ ground' = ground /\ awaited' = awaited /\ rendering' = rendering
      /\ dialog' = dialog
  BY DEF IncomeStep
<1>2. /\ told'.providers = told.providers /\ told'.prices = told.prices
      /\ told' \in [providers : Response, prices : Response,
                    income : [is : {"loading", "mean", "error"}, mean : Int \X Nat]]
  BY StatisticsFields DEF StatisticsInv, StatisticsTypeOK
<1>3. StatisticsTypeOK'
  BY <1>1, <1>2 DEF StatisticsInv, StatisticsTypeOK
<1>4. \A half \in Halves : told'[half] = told[half]
  BY <1>2 DEF Halves
<1>5. BothCame' <=> BothCame
  BY <1>1, <1>4 DEF BothCame
<1>6. DialogsInv'
  BY <1>1, <1>4, <1>5 DEF StatisticsInv, DialogsInv, IncomeStep
<1>7. QED
  BY <1>3, <1>6

\* The next page: what is averaged is the sum up to its last building.
LEMMA NextIncomePageKeeps ==
    ASSUME StatisticsAssumption, StatisticsInv, NextIncomePage
    PROVE  StatisticsInv'
<1> DEFINE f == ground.is.incomes
           r == IncomeRow(f, income.last)
           task == Averaged(income, r)
<1>1. /\ IncomeStep /\ ground.is.precomputed
      /\ income' = [task EXCEPT !.is = IF r.count = 0 THEN "ended" ELSE @]
      /\ told' = [told EXCEPT !.income = [is |-> "mean", mean |-> <<task.total, task.count>>]]
  BY DEF NextIncomePage, ShowIncome
<1>2. ground.number > 0 /\ ground.is \in Grounds /\ ground.number \in Nat
  <2>1. income.is = "running"
    BY <1>1 DEF IncomeStep
  <2>2. QED
    BY <2>1 DEF StatisticsInv, StatisticsTypeOK, DialogsInv
<1>3. /\ r \in [count : Nat, mean : Int, last : Nat]
      /\ income.last \in Nat /\ income.total \in Int /\ income.count \in Nat /\ income.failed \in BOOLEAN
      /\ income.is = "running"
      /\ income = [is |-> income.is, last |-> income.last, total |-> income.total,
                   count |-> income.count, failed |-> income.failed]
  BY <1>1, <1>2, RowTyped, StatisticsFields DEF StatisticsInv, IncomeStep
<1> HIDE DEF r
<1>4. r.mean * r.count \in Int /\ r.count \in Nat /\ r.last \in Nat
  <2>1. r.mean \in Int /\ r.count \in Nat /\ r.last \in Nat
    BY <1>3
  <2>2. QED
    BY <2>1
<1> DEFINE total == income.total + r.mean * r.count
           count == income.count + r.count
<1>5. total \in Int /\ count \in Nat
  BY <1>3, <1>4
<1>12. task = [income EXCEPT !.total = total, !.count = count, !.last = r.last]
  BY DEF Averaged
<1> HIDE DEF total, count, task
<1>6. task = [is |-> income.is, last |-> r.last, total |-> total, count |-> count,
              failed |-> income.failed]
  BY <1>3, <1>12
<1> HIDE DEF task
<1>7. /\ income' = [is |-> IF r.count = 0 THEN "ended" ELSE "running", last |-> r.last,
                   total |-> total, count |-> count, failed |-> income.failed]
      /\ told' = [told EXCEPT !.income = [is |-> "mean", mean |-> <<total, count>>]]
  BY <1>1, <1>3, <1>6
<1>8. StatisticsTypeOK' /\ DialogsInv'
  <2>1. income' \in [is : {"running", "ended", "dead"}, last : Nat, total : Int, count : Nat,
                     failed : BOOLEAN]
    BY <1>3, <1>4, <1>5, <1>7
  <2>2. \E shown \in [is : {"mean", "error"}, mean : Int \X Nat] :
           told' = [told EXCEPT !.income = shown]
    BY <1>5, <1>7
  <2>3. QED
    BY <1>1, <1>5, <1>7, <2>1, IncomeStepKeeps
<1>9. told'.income = [is |-> "mean", mean |-> <<total, count>>] /\ ground' = ground
  BY <1>1, <1>7, StatisticsFields DEF StatisticsInv, IncomeStep
<1>10. IncomeInv'
  <2> SUFFICES ASSUME AllKnown'
               PROVE  /\ income'.is = "running" =>
                            /\ income'.last \in 0 .. Len(f) /\ income'.count = income'.last
                            /\ income'.total = SumOver(f, 1 .. income'.last)
                      /\ income'.is = "ended" =>
                            told'.income = [is |-> "mean", mean |-> <<SumOver(f, DOMAIN f), Len(f)>>]
    BY <1>9 DEF IncomeInv
  <2>1. AllKnown
    BY <1>7, <1>9 DEF AllKnown
  <2> DEFINE L == income.last
             n == Len(f)
  <2>2. L \in 0 .. n /\ income.count = L /\ income.total = SumOver(f, 1 .. L)
    BY <1>3, <2>1 DEF StatisticsInv, IncomeInv
  <2>3. PageGives(r, f, L, n)
    BY <1>2, <2>1, <2>2, PageOfKnown DEF AllKnown, r
  <2>4. n \in Nat /\ DOMAIN f = 1 .. n
    <3>1. f \in Seq(Nat \cup {NoTract, Null})
      BY <1>2, GroundFacts
    <3> HIDE DEF f
    <3>2. QED
      BY <3>1
  <2> HIDE DEF L, n, f
  <2>5. PICK m \in L .. n : /\ r.count = m - L
                            /\ SumOver(f, 1 .. m) = SumOver(f, 1 .. L) + r.mean * r.count
                            /\ IF m = L THEN L = n ELSE r.last = m
    BY <2>3 DEF PageGives
  <2>6. m \in Nat /\ L \in Nat /\ L <= m /\ m <= n
    BY <2>2, <2>4
  <2>7. count = m /\ total = SumOver(f, 1 .. m)
    BY <2>2, <2>5, <2>6 DEF count, total
  <2>8. CASE m = L
    <3>1. r.count = 0 /\ m = n
      BY <2>5, <2>6, <2>8
    <3>2. income'.is = "ended"
      BY <1>7, <3>1
    <3>3. QED
      BY <1>9, <2>4, <2>7, <3>1, <3>2 DEF n
  <2>9. CASE m # L
    <3>1. r.count # 0 /\ r.last = m
      BY <2>5, <2>6, <2>9
    <3>2. income'.is = "running" /\ income'.last = m /\ income'.total = total /\ income'.count = count
      BY <1>7, <3>1
    <3>3. m \in 0 .. n
      BY <2>4, <2>6
    <3>4. QED
      BY <2>7, <3>2, <3>3 DEF n
  <2>10. QED
    BY <2>8, <2>9
<1>11. QED
  BY <1>8, <1>10 DEF StatisticsInv

\* The other steps of the income's task end it or start it again, with no claim.
LEMMA OtherIncomeStepsKeep ==
    ASSUME StatisticsAssumption, StatisticsInv,
           FailIncomePage \/ SimpleIncome \/ FailSimpleIncome \/ IncomeTimesOut
    PROVE  StatisticsInv'
<1> DEFINE Incomes == [is : {"running", "ended", "dead"}, last : Nat, total : Int, count : Nat,
                       failed : BOOLEAN]
           Shown == [is : {"mean", "error"}, mean : Int \X Nat]
<1>1. /\ IncomeStep /\ income.is = "running" /\ ground' = ground
      /\ income = [is |-> income.is, last |-> income.last, total |-> income.total,
                   count |-> income.count, failed |-> income.failed]
      /\ income.last \in Nat /\ income.total \in Int /\ income.count \in Nat
      /\ income.failed \in BOOLEAN
  BY StatisticsFields DEF FailIncomePage, SimpleIncome, FailSimpleIncome, IncomeTimesOut, IncomeStep,
       StatisticsInv
<1>2. [is |-> "error", mean |-> <<0, 0>>] \in Shown
  OBVIOUS
<1>3. ground.is \in Grounds
  BY <1>1 DEF StatisticsInv, StatisticsTypeOK, DialogsInv
<1>4. CASE FailIncomePage
  <2>1. income' = [is |-> income.is, last |-> 0, total |-> income.total + 0 * 1,
                   count |-> income.count + 1, failed |-> TRUE]
    BY <1>1, <1>4 DEF FailIncomePage, Averaged
  <2>2. income' \in Incomes /\ income'.failed
    BY <1>1, <2>1
  <2>3. told' = [told EXCEPT !.income = [is |-> "error", mean |-> <<0, 0>>]]
    BY <1>4 DEF FailIncomePage, ShowNoIncome
  <2>4. StatisticsTypeOK' /\ DialogsInv'
    BY <1>1, <1>2, <2>2, <2>3, IncomeStepKeeps
  <2>5. QED
    BY <2>2, <2>4 DEF StatisticsInv, IncomeInv, AllKnown
<1>5. CASE SimpleIncome
  <2>1. ~ AllKnown'
    BY <1>1, <1>5 DEF SimpleIncome, AllKnown
  <2>2. CASE ground.is.simple = Null
    <3>1. income' = [income EXCEPT !.is = "dead"] /\ told' = told
      BY <1>5, <2>2 DEF SimpleIncome
    <3>2. income' \in Incomes
      BY <1>1, <3>1
    <3>3. QED
      BY <1>1, <2>1, <3>1, <3>2, IncomeStepKeeps DEF StatisticsInv, IncomeInv
  <2>3. CASE ground.is.simple # Null
    <3> DEFINE x == ground.is.simple
               total == income.total + x * 1
               count == income.count + 1
    <3>1. x \in Nat
      BY <1>3, <2>3, GroundFacts
    <3>2. total \in Int /\ count \in Nat
      BY <1>1, <3>1
    <3> DEFINE task == Averaged(income, [mean |-> x, count |-> 1, last |-> 0])
    <3>8. task = [income EXCEPT !.total = total, !.count = count, !.last = 0]
      BY DEF Averaged
    <3> HIDE DEF total, count, task
    <3>3. task =
            [is |-> income.is, last |-> 0, total |-> total, count |-> count, failed |-> income.failed]
      BY <1>1, <3>8
    <3>4. /\ income' = [is |-> "ended", last |-> 0, total |-> total, count |-> count,
                       failed |-> income.failed]
          /\ told' = [told EXCEPT !.income = [is |-> "mean", mean |-> <<total, count>>]]
      BY <1>5, <2>3, <3>3 DEF SimpleIncome, ShowIncome, task
    <3>5. income' \in Incomes /\ [is |-> "mean", mean |-> <<total, count>>] \in Shown
      BY <1>1, <3>2, <3>4
    <3>6. StatisticsTypeOK' /\ DialogsInv'
      BY <1>1, <3>4, <3>5, IncomeStepKeeps
    <3>7. QED
      BY <2>1, <3>6 DEF StatisticsInv, IncomeInv
  <2>4. QED
    BY <2>2, <2>3
<1>6. CASE FailSimpleIncome
  <2>1. income' \in Incomes /\ ~ AllKnown'
    BY <1>1, <1>6 DEF FailSimpleIncome, AllKnown
  <2>2. told' = [told EXCEPT !.income = [is |-> "error", mean |-> <<0, 0>>]]
    BY <1>6 DEF FailSimpleIncome, ShowNoIncome
  <2>3. QED
    BY <1>1, <1>2, <2>1, <2>2, IncomeStepKeeps DEF StatisticsInv, IncomeInv
<1>7. CASE IncomeTimesOut
  <2>1. income' \in Incomes /\ ~ AllKnown'
    BY <1>1, <1>7 DEF IncomeTimesOut, AllKnown
  <2>2. told' = [told EXCEPT !.income = [is |-> "error", mean |-> <<0, 0>>]]
    BY <1>7 DEF IncomeTimesOut, ShowNoIncome
  <2>3. QED
    BY <1>1, <1>2, <2>1, <2>2, IncomeStepKeeps DEF StatisticsInv, IncomeInv
<1>8. QED
  BY <1>4, <1>5, <1>6, <1>7


\* Nothing but the dialog's halves and the dialog changes: the income's part stands.
LEMMA IncomeStands ==
    ASSUME StatisticsInv, ground' = ground, income' = income, told'.income = told.income
    PROVE  IncomeInv'
BY DEF StatisticsInv, IncomeInv, AllKnown

\* A half comes or times out.
LEMMA HalfToldKeeps ==
    ASSUME StatisticsAssumption, StatisticsInv, NEW half \in Halves, HalfEnds(half), AskDialog,
           NEW b \in BOOLEAN, told' = [told EXCEPT ![half] = [error |-> b, of |-> ground.number]]
    PROVE  StatisticsInv'
<1> DEFINE now == ground.number
           late == [of |-> <<told'.providers.of, told'.prices.of>>, canada |-> ground.is.canada]
<1>1. /\ half \in awaited /\ awaited' = awaited \ {half} /\ habit' = habit /\ ground' = ground
      /\ income' = income /\ dialog' = dialog
  BY DEF HalfEnds
<1>2. now \in Nat /\ now > 0 /\ ground.is \in Grounds
  BY <1>1 DEF StatisticsInv, StatisticsTypeOK, DialogsInv
<1>3. /\ told'[half] = [error |-> b, of |-> now]
      /\ \A other \in Halves \ {half} : told'[other] = told[other]
      /\ told'.income = told.income
      /\ told' \in [providers : Response, prices : Response,
                    income : [is : {"loading", "mean", "error"}, mean : Int \X Nat]]
  BY <1>2, StatisticsFields DEF StatisticsInv, StatisticsTypeOK, Halves, Response
<1>4. /\ told'.providers.of \in {0, now} /\ told'.prices.of \in {0, now}
      /\ \A h \in Halves : told'[h].of \in {0, now}
      /\ \A h \in Halves : h \in awaited' => told'[h] = Silence
  BY <1>1, <1>3 DEF StatisticsInv, DialogsInv, Halves
<1>5. /\ told'.providers = told'["providers"] /\ told'.prices = told'["prices"]
  OBVIOUS
<1> DEFINE ask == /\ {told'.providers.of, told'.prices.of} \cap {0} = {}
                  /\ ~told'.providers.error /\ ~told'.prices.error
<1>6. rendering' = IF ask THEN rendering \cup {late} ELSE rendering
  BY DEF AskDialog
<1>7. late.of \in Nat \X Nat /\ late.canada \in BOOLEAN /\ (ask => late.of = <<now, now>>)
      /\ late.canada = ground.is.canada /\ late \in [of : Nat \X Nat, canada : BOOLEAN]
  <2> DEFINE x == told'.providers.of
             y == told'.prices.of
  <2>1. x \in {0, now} /\ y \in {0, now}
    BY <1>4
  <2>2. ground.is.canada \in BOOLEAN
    BY <1>2, GroundFacts
  <2>3. late = [of |-> <<x, y>>, canada |-> ground.is.canada]
    OBVIOUS
  <2>4. ask => {x, y} \cap {0} = {}
    OBVIOUS
  <2> HIDE DEF x, y, late, ask, now
  <2>5. ask => x = now /\ y = now
    BY <2>1, <2>4
  <2>6. <<x, y>> \in Nat \X Nat
    BY <1>2, <2>1
  <2>7. late.of = <<x, y>> /\ late.canada = ground.is.canada
    BY <2>3
  <2>8. late \in [of : Nat \X Nat, canada : BOOLEAN]
    BY <2>2, <2>3, <2>6
  <2>9. QED
    BY <2>2, <2>5, <2>6, <2>7, <2>8
<1>8. BothCame' => ask
  BY <1>1, <1>2, <1>5 DEF BothCame, Halves
<1> HIDE DEF ask, late
<1>9. StatisticsTypeOK'
  <2>1. rendering' \subseteq [of : Nat \X Nat, canada : BOOLEAN]
    BY <1>6, <1>7 DEF StatisticsInv, StatisticsTypeOK
  <2>2. QED
    BY <1>1, <1>3, <2>1 DEF StatisticsInv, StatisticsTypeOK
<1>10. DialogsInv'
  <2>1. "hasty" \notin habit' =>
           /\ \A p \in rendering' : p.of = <<now, now>> /\ p.canada = ground.is.canada
           /\ dialog'.shown => dialog'.of = <<now, now>>
    BY <1>1, <1>6, <1>7 DEF StatisticsInv, DialogsInv
  <2>2. ~ ground.is.canada /\ BothCame' => \E p \in rendering' : ~ p.canada
    BY <1>6, <1>7, <1>8
  <2>3. QED
    BY <1>1, <1>2, <1>4, <2>1, <2>2 DEF DialogsInv
<1>11. QED
  BY <1>1, <1>3, <1>9, <1>10, IncomeStands DEF StatisticsInv

\* A half that dies tells nothing.
LEMMA HalfDiesKeeps ==
    ASSUME StatisticsInv, NEW half \in Halves, HalfDies(half)
    PROVE  StatisticsInv'
<1>1. /\ awaited' = awaited \ {half} /\ habit' = habit /\ ground' = ground /\ income' = income
      /\ dialog' = dialog /\ told' = told /\ rendering' = rendering
  BY DEF HalfDies, HalfEnds
<1>2. StatisticsTypeOK' /\ DialogsInv'
  BY <1>1 DEF StatisticsInv, StatisticsTypeOK, DialogsInv, BothCame
<1>3. QED
  BY <1>1, <1>2, IncomeStands DEF StatisticsInv

\* A dialog arrives, of the area unless the user was hasty.
LEMMA DialogComesKeeps ==
    ASSUME StatisticsInv, DialogComes
    PROVE  StatisticsInv'
<1>1. PICK p \in rendering :
        /\ rendering' = rendering \ {p}
        /\ dialog' = IF p.canada THEN dialog ELSE [shown |-> TRUE, of |-> p.of]
  BY DEF DialogComes
<1>2. /\ awaited' = awaited /\ habit' = habit /\ ground' = ground /\ income' = income /\ told' = told
  BY DEF DialogComes
<1>3. p.of \in Nat \X Nat
  BY DEF StatisticsInv, StatisticsTypeOK
<1>4. dialog' \in [shown : BOOLEAN, of : Nat \X Nat]
  BY <1>1, <1>3 DEF StatisticsInv, StatisticsTypeOK
<1>5. StatisticsTypeOK'
  BY <1>1, <1>2, <1>4 DEF StatisticsInv, StatisticsTypeOK
<1>6. DialogsInv'
  <2>1. BothCame' <=> BothCame
    BY <1>2 DEF BothCame
  <2>2. ~ p.canada => dialog'.shown /\ dialog'.of = p.of
    BY <1>1
  <2>3. p.canada => dialog' = dialog
    BY <1>1
  <2>4. ASSUME "hasty" \notin habit, dialog'.shown
        PROVE  dialog'.of = <<ground.number, ground.number>>
    BY <2>2, <2>3, <2>4 DEF StatisticsInv, DialogsInv
  <2>5. ASSUME dialog.shown \/ \E q \in rendering : ~ q.canada
        PROVE  dialog'.shown \/ \E q \in rendering' : ~ q.canada
    BY <1>1, <2>2, <2>3, <2>5
  <2>6. QED
    BY <1>1, <1>2, <2>1, <2>4, <2>5 DEF StatisticsInv, DialogsInv
<1>7. QED
  BY <1>2, <1>5, <1>6, IncomeStands DEF StatisticsInv

\* Every step keeps the invariant.
LEMMA StatisticsStep ==
    ASSUME StatisticsAssumption, StatisticsInv, [StatisticsNext]_statisticsVars
    PROVE  StatisticsInv'
<1>1. CASE UNCHANGED statisticsVars
  BY <1>1 DEF statisticsVars, StatisticsInv, StatisticsTypeOK, DialogsInv, BothCame, IncomeInv, AllKnown
<1>2. CASE SelectGround
  BY <1>2, SelectGroundKeeps
<1>3. CASE NextIncomePage \/ FailIncomePage \/ SimpleIncome \/ FailSimpleIncome \/ IncomeTimesOut
  BY <1>3, NextIncomePageKeeps, OtherIncomeStepsKeep
<1>4. ASSUME NEW half \in Halves, HalfComes(half) \/ HalfTimesOut(half)
      PROVE  StatisticsInv'
  <2>1. PICK b \in BOOLEAN : told' = [told EXCEPT ![half] = [error |-> b, of |-> ground.number]]
    BY <1>4 DEF HalfComes, HalfTimesOut
  <2>2. HalfEnds(half) /\ AskDialog
    BY <1>4 DEF HalfComes, HalfTimesOut
  <2>3. QED
    BY <2>1, <2>2, HalfToldKeeps
<1>5. ASSUME NEW half \in Halves, HalfDies(half)
      PROVE  StatisticsInv'
  BY <1>5, HalfDiesKeeps
<1>6. CASE DialogComes
  BY <1>6, DialogComesKeeps
<1>7. QED
  BY <1>1, <1>2, <1>3, <1>4, <1>5, <1>6 DEF StatisticsNext, Halves

\* A dialog that can be opened is of the selected area, there is one once both halves
\* have come, and the income told last is the mean over all buildings
\* (IncomeTasks.py genMedianIncome, MarketEvaluatorSidebarManager.ts).
THEOREM StatisticsOfTheArea == StatisticsSpec => []StatisticsAreOfTheArea
<1>1. StatisticsInv => StatisticsAreOfTheArea
  <2> SUFFICES ASSUME StatisticsInv PROVE StatisticsAreOfTheArea
    OBVIOUS
  <2>1. dialog.shown /\ "hasty" \notin habit => dialog.of = <<ground.number, ground.number>>
    BY DEF StatisticsInv, DialogsInv
  <2>2. (/\ rendering = {} /\ ~ground.is.canada /\ ground.number > 0
         /\ \A half \in {"providers", "prices"} :
               told[half].of = ground.number /\ ~told[half].error)
        => dialog.shown
    BY DEF StatisticsInv, DialogsInv, BothCame, Halves
  <2> DEFINE f == ground.is.incomes
  <2>3. ASSUME AllKnown, income.is = "ended"
        PROVE  /\ told.income.is = "mean"
               /\ told.income.mean = <<MapThenSumSet(LAMBDA g : f[g], DOMAIN f), Cardinality(DOMAIN f)>>
    <3>1. told.income = [is |-> "mean", mean |-> <<SumOver(f, DOMAIN f), Len(f)>>]
      BY <2>3 DEF StatisticsInv, IncomeInv
    <3>2. f \in Seq(Nat \cup {NoTract, Null})
      <4>1. ground.is \in Grounds
        BY <2>3 DEF AllKnown, StatisticsInv, StatisticsTypeOK
      <4>2. QED
        BY <4>1, GroundFacts, StatisticsAssumption
    <3>3. Cardinality(DOMAIN f) = Len(f)
      <4>1. DOMAIN f = 1 .. Len(f) /\ Len(f) \in Nat
        BY <3>2
      <4>2. \A k \in Nat : Cardinality(1 .. k) = k
        BY FS_Interval
      <4> HIDE DEF f
      <4>3. QED
        BY <4>1, <4>2
    <3>4. SumOver(f, DOMAIN f) = MapThenSumSet(LAMBDA g : f[g], DOMAIN f)
      BY DEF SumOver
    <3>5. QED
      BY <3>1, <3>3, <3>4
  <2>4. QED
    BY <2>1, <2>2, <2>3 DEF StatisticsAreOfTheArea, AllKnown
<1>2. StatisticsInit => StatisticsInv
  BY StatisticsInitInv, StatisticsAssumption
<1>3. StatisticsInv /\ [StatisticsNext]_statisticsVars => StatisticsInv'
  BY StatisticsStep, StatisticsAssumption
<1>4. QED
  BY <1>1, <1>2, <1>3, PTL DEF StatisticsSpec

(***************************************************************************)
(*                       The filter of building sizes                      *)
(***************************************************************************)

------------------------------------------------------------------------------
(* Fractions *)

Number == Int \X Nat

\* There is a greatest common divisor.
LEMMA GreatestDivisor ==
    ASSUME NEW n \in Int, NEW m \in Nat \ {0}
    PROVE  \E g \in 1 .. m : /\ n % g = 0 /\ m % g = 0
                             /\ \A e \in g + 1 .. m : ~(n % e = 0 /\ m % e = 0)
<1> DEFINE S == {e \in 1 .. m : n % e = 0 /\ m % e = 0}
<1>1. 1 \in S
  OBVIOUS
<1>2. S \in SUBSET (0 .. m) /\ S # {}
  BY <1>1
<1>3. Max(S) \in S /\ \A x \in S : x <= Max(S)
  <2> HIDE DEF S
  <2>1. QED
    BY <1>2, MinAndMax
<1> DEFINE g == Max(S)
<1> HIDE DEF g
<1>4. \A e \in g + 1 .. m : e \notin S
  BY <1>3 DEF g
<1>5. g \in S
  BY <1>3 DEF g
<1>6. \A e \in g + 1 .. m : e \in 1 .. m
  BY <1>5
<1>7. QED
  BY <1>4, <1>5, <1>6

\* A fraction in its lowest terms keeps its sign.
LEMMA SimplestIsNumber ==
    ASSUME NEW n \in Int, NEW m \in Nat
    PROVE  /\ Simplest(<<n, m>>) \in Number
           /\ n >= 0 => Simplest(<<n, m>>)[1] >= 0
<1>1. CASE m = 0
  BY <1>1 DEF Simplest, Number
<1>2. CASE m # 0
  <2> DEFINE P(g) == /\ n % g = 0 /\ m % g = 0
                     /\ \A e \in g + 1 .. m : ~(n % e = 0 /\ m % e = 0)
             g0 == CHOOSE g \in 1 .. m : P(g)
  <2>1. g0 \in 1 .. m
    <3>1. \E g \in 1 .. m : P(g)
      BY <1>2, GreatestDivisor
    <3> HIDE DEF P
    <3>2. QED
      BY <3>1
  <2>2. Simplest(<<n, m>>) = <<n \div g0, m \div g0>>
    BY <1>2 DEF Simplest
  <2> HIDE DEF g0
  <2>3. n \div g0 \in Int /\ m \div g0 \in Nat /\ (n >= 0 => n \div g0 >= 0)
    BY <1>2, <2>1
  <2>4. QED
    BY <2>2, <2>3 DEF Number
<1>3. QED
  BY <1>1, <1>2

\* A multiple is divided without a rest.
LEMMA Divided ==
    ASSUME NEW r \in Nat \ {0}, NEW l \in Nat
    PROVE  (r * l) % r = 0 /\ (r * l) \div r = l
<1> DEFINE x == r * l
           q == x \div r
           m == x % r
<1>1. x \in Nat
  OBVIOUS
<1> HIDE DEF x
<1>2. q \in Nat /\ m \in 0 .. r - 1 /\ x = r * q + m
  BY <1>1
<1> HIDE DEF q, m
<1>3. q < l => FALSE
  <2> SUFFICES ASSUME q < l PROVE FALSE
    OBVIOUS
  <2>1. PICK d \in Nat : l = q + 1 + d
    <3>1. l - q - 1 \in Nat /\ l = q + 1 + (l - q - 1)
      BY <1>2
    <3>2. QED
      BY <3>1
  <2>2. r * l = r * q + r + r * d /\ r * d \in Nat /\ r * q \in Nat
    BY <1>2, <2>1
  <2>3. QED
    BY <1>2, <2>2 DEF x
<1>4. l < q => FALSE
  <2> SUFFICES ASSUME l < q PROVE FALSE
    OBVIOUS
  <2>1. PICK d \in Nat : q = l + 1 + d
    <3>1. q - l - 1 \in Nat /\ q = l + 1 + (q - l - 1)
      BY <1>2
    <3>2. QED
      BY <3>1
  <2>2. r * q = r * l + r + r * d /\ r * d \in Nat /\ r * l \in Nat
    BY <1>2, <2>1
  <2>3. QED
    BY <1>2, <2>2 DEF x
<1>5. q = l
  BY <1>2, <1>3, <1>4
<1>6. r * q = r * l /\ r * l \in Nat
  BY <1>5
<1>7. m = 0
  BY <1>2, <1>6 DEF x
<1>8. QED
  BY <1>5, <1>7 DEF q, m, x

\* A fraction that is a whole number.
LEMMA WholeFraction ==
    ASSUME NEW r \in Nat \ {0}, NEW l \in Nat
    PROVE  Simplest(<<r * l, r>>) = Num(l)
<1> DEFINE n == r * l
           P(g) == /\ n % g = 0 /\ r % g = 0
                   /\ \A e \in g + 1 .. r : ~(n % e = 0 /\ r % e = 0)
           g0 == CHOOSE g \in 1 .. r : P(g)
<1>1. n % r = 0 /\ n \div r = l
  BY Divided
<1>2. r % r = 0 /\ r \div r = 1
  BY Divided
<1> HIDE DEF n
<1>3. P(r) /\ r \in 1 .. r
  BY <1>1, <1>2
<1>4. \A g \in 1 .. r : P(g) => g = r
  BY <1>1, <1>2
<1>5. g0 = r
  <2> HIDE DEF P
  <2>1. QED
    BY <1>3, <1>4
<1>6. Simplest(<<n, r>>) = <<n \div g0, r \div g0>>
  BY DEF Simplest
<1> HIDE DEF g0
<1>7. QED
  BY <1>1, <1>2, <1>5, <1>6 DEF n, Num

\* What a thumb becomes when a limit changes from r to l.
LEMMA Proportions ==
    ASSUME NEW l \in Nat, NEW r \in Nat
    PROVE  /\ r # 0 => Over(Times(Num(r), Num(l)), Num(r)) = Num(l)
           /\ Over(Times(Num(r), Num(l)), Num(1)) = Num(r * l)
           /\ Over(Times(Num(0), Num(l)), Num(0)) = NaN
           /\ \A s \in Nat : r # 0 => Over(Times(Num(r), Infinite), Num(s)) = Infinite
           /\ \A s \in Nat : Over(Times(Num(0), Infinite), Num(s)) = NaN
<1>1. r * l \in Nat /\ 1 * (r * l) = r * l /\ (r * l) * 1 = r * l /\ 1 * r = r /\ 0 * l = 0
  OBVIOUS
<1>2. Times(Num(r), Num(l)) = Num(r * l)
  <2>1. Simplest(<<1 * (r * l), 1>>) = Num(r * l)
    BY <1>1, WholeFraction
  <2>2. QED
    BY <1>1, <2>1 DEF Times, Num
<1>3. Times(Num(0), Num(l)) = Num(0)
  <2>1. Simplest(<<1 * 0, 1>>) = Num(0)
    BY WholeFraction
  <2>2. QED
    BY <1>1, <2>1 DEF Times, Num
<1>4. ASSUME r # 0 PROVE Over(Num(r * l), Num(r)) = Num(l)
  <2>1. Over(Num(r * l), Num(r)) = Simplest(<<r * l, r>>)
    BY <1>1 DEF Over, Num, NaN
  <2>2. QED
    BY <1>4, <2>1, WholeFraction
<1>5. Over(Num(r * l), Num(1)) = Num(r * l)
  <2>1. Over(Num(r * l), Num(1)) = Simplest(<<1 * (r * l), 1>>)
    BY <1>1 DEF Over, Num, NaN
  <2>2. QED
    BY <1>1, <2>1, WholeFraction
<1>6. Over(Num(0), Num(0)) = NaN
  BY DEF Over, Num, NaN, Simplest
<1>7. ASSUME NEW s \in Nat, r # 0 PROVE Over(Times(Num(r), Infinite), Num(s)) = Infinite
  <2>1. Times(Num(r), Infinite) = Infinite
    BY <1>7 DEF Times, Num, Infinite, Simplest
  <2>2. QED
    BY <2>1 DEF Over, Num, Infinite, NaN, Simplest
<1>8. ASSUME NEW s \in Nat PROVE Over(Times(Num(0), Infinite), Num(s)) = NaN
  <2>1. Times(Num(0), Infinite) = NaN
    BY DEF Times, Num, Infinite, NaN, Simplest
  <2>2. QED
    BY <2>1 DEF Over, Num, NaN, Simplest
<1>9. QED
  BY <1>2, <1>3, <1>4, <1>5, <1>6, <1>7, <1>8

\* What is no number stays none.
LEMMA NoNumber ==
    ASSUME NEW x \in Number, NEW y \in Number
    PROVE  Over(Times(NaN, x), y) = NaN /\ Over(x, NaN) = NaN
<1>1. x[1] \in Int /\ x[2] \in Nat /\ y[1] \in Int /\ y[2] \in Nat
  BY DEF Number
<1>2. Times(NaN, x) = NaN
  BY <1>1 DEF Times, NaN, Simplest
<1>3. Over(NaN, y) = NaN
  BY <1>1 DEF Over, NaN, Simplest
<1>4. QED
  BY <1>2, <1>3 DEF Over

\* Products and quotients are numbers, and not negative if what they are of is not.
LEMMA ProductsAndQuotients ==
    ASSUME NEW x \in Number, NEW y \in Number
    PROVE  /\ Times(x, y) \in Number
           /\ x[1] >= 0 /\ y[1] >= 0 => Times(x, y)[1] >= 0
           /\ y[1] >= 0 => Over(x, y) \in Number
           /\ x[1] >= 0 /\ y[1] >= 0 => Over(x, y)[1] >= 0
<1>1. x[1] \in Int /\ x[2] \in Nat /\ y[1] \in Int /\ y[2] \in Nat
  BY DEF Number
<1>2. \A a, b \in Int : a * b \in Int
  OBVIOUS
<1>3. \A a, b \in Nat : a * b \in Nat
  OBVIOUS
<1>4. /\ x[1] * y[1] \in Int /\ x[2] * y[2] \in Nat
      /\ x[1] >= 0 /\ y[1] >= 0 => x[1] * y[1] \in Nat
  BY <1>1, <1>2, <1>3
<1>5. /\ x[1] * y[2] \in Int
      /\ y[1] >= 0 => x[2] * y[1] \in Nat
      /\ x[1] >= 0 => x[1] * y[2] \in Nat
  BY <1>1, <1>2, <1>3
<1>6. Times(x, y) = Simplest(<<x[1] * y[1], x[2] * y[2]>>)
  BY DEF Times
<1>7. Over(x, y) = NaN \/ Over(x, y) = Simplest(<<x[1] * y[2], x[2] * y[1]>>)
  BY DEF Over
<1>8. NaN \in Number /\ NaN[1] = 0
  BY DEF NaN, Number
<1> DEFINE a == x[1] * y[1]
           b == x[2] * y[2]
           c == x[1] * y[2]
           d == x[2] * y[1]
<1> HIDE DEF a, b, c, d
<1>9. Simplest(<<a, b>>) \in Number /\ (a >= 0 => Simplest(<<a, b>>)[1] >= 0)
  BY <1>4, SimplestIsNumber DEF a, b
<1>10. d \in Nat => Simplest(<<c, d>>) \in Number /\ (c >= 0 => Simplest(<<c, d>>)[1] >= 0)
  BY <1>5, SimplestIsNumber DEF c
<1>11. QED
  <2>1. x[1] >= 0 /\ y[1] >= 0 => a >= 0
    BY <1>4 DEF a
  <2>2. y[1] >= 0 => d \in Nat
    BY <1>5 DEF d
  <2>3. x[1] >= 0 => c >= 0
    BY <1>5 DEF c
  <2>4. Times(x, y) = Simplest(<<a, b>>) /\ (Over(x, y) = NaN \/ Over(x, y) = Simplest(<<c, d>>))
    BY <1>6, <1>7 DEF a, b, c, d
  <2>5. QED
    BY <1>8, <1>9, <1>10, <2>1, <2>2, <2>3, <2>4


------------------------------------------------------------------------------
(* The slider *)

NoLimits == <<[is |-> Infinite, reads |-> NaN], [is |-> Minus, reads |-> NaN]>>

Whole(a, b) == <<Limit(a), Limit(b)>>

Rails == {Whole(p[1], p[2]) : p \in {q \in Nat \X Nat : q[1] <= q[2]}} \cup {NoLimits, Unlimited}

Thumbs == [1 .. 2 -> Number]

Slides == [rail : Rails, thumbs : Thumbs, range : Thumbs]

\* What moveSliderTo makes of a value.
Within(rail, value) ==
    LET top == IF Below(rail[2].reads, value) THEN rail[2].reads ELSE value
    IN  IF Below(top, rail[1].reads) THEN rail[1].reads ELSE top

\* There is order in the slider: limits that are numbers, no thumb below zero.
Orderly(s) == s.rail # NoLimits => s.thumbs[2][1] >= 0

\* Limits are numbers, but for those of no buildings.
LEMMA LimitFacts ==
    ASSUME NEW rail \in Rails, NEW i \in 1 .. 2
    PROVE  /\ rail[i].reads \in Number /\ rail[i].is \in Number
           /\ rail # NoLimits => /\ rail[i].reads[1] >= 0 /\ rail[i].reads[2] = 1
                                 /\ rail[i].is[1] >= 0 /\ rail[i].reads # NaN
           /\ rail = NoLimits => rail[i].reads = NaN
<1>1. CASE rail = NoLimits
  BY <1>1 DEF NoLimits, Infinite, Minus, NaN, Number
<1>2. CASE rail = Unlimited /\ rail # NoLimits
  BY <1>2 DEF Unlimited, Infinite, Num, NaN, Number
<1>3. CASE \E p \in {q \in Nat \X Nat : q[1] <= q[2]} : rail = Whole(p[1], p[2])
  <2>1. PICK p \in Nat \X Nat : rail = Whole(p[1], p[2])
    BY <1>3
  <2>2. p[1] \in Nat /\ p[2] \in Nat
    OBVIOUS
  <2>3. \A n \in Nat : /\ Limit(n).is = <<n, 1>> /\ Limit(n).reads = <<n, 1>>
    BY DEF Limit, Num
  <2>4. rail[i] = Limit(p[1]) \/ rail[i] = Limit(p[2])
    BY <2>1 DEF Whole
  <2>5. \A n \in Nat : <<n, 1>> \in Number /\ <<n, 1>>[1] >= 0 /\ <<n, 1>>[2] = 1 /\ <<n, 1>> # NaN
    BY DEF Number, NaN
  <2>6. rail # NoLimits
    <3>1. rail[1].reads[2] = 1
      BY <2>1, <2>2 DEF Whole, Limit, Num
    <3>2. NoLimits[1].reads[2] = 0
      BY DEF NoLimits, NaN
    <3>3. QED
      BY <3>1, <3>2
  <2>7. QED
    BY <2>2, <2>3, <2>4, <2>5, <2>6
<1>4. QED
  BY <1>1, <1>2, <1>3 DEF Rails

\* What is kept between the limits is a number, and not below zero if they are.
LEMMA WithinFacts ==
    ASSUME NEW rail \in Rails, NEW value \in Number
    PROVE  /\ Within(rail, value) \in Number
           /\ rail # NoLimits => Within(rail, value)[1] >= 0
<1> DEFINE lo == rail[1].reads
           hi == rail[2].reads
           top == IF Below(hi, value) THEN hi ELSE value
<1>1. /\ lo \in Number /\ hi \in Number
      /\ rail # NoLimits => lo[1] >= 0 /\ lo[2] = 1 /\ lo # NaN
  BY LimitFacts
<1>2. Within(rail, value) = IF Below(top, lo) THEN lo ELSE top
  BY DEF Within
<1>3. top \in Number
  BY <1>1
<1> HIDE DEF lo, hi, top
<1>4. ASSUME rail # NoLimits, ~ Below(top, lo) PROVE top[1] >= 0
  <2>1. CASE top = NaN
    BY <2>1 DEF NaN
  <2>2. CASE top # NaN
    <3>1. ~ (top[1] * lo[2] < lo[1] * top[2])
      BY <1>1, <1>4, <2>2 DEF Below
    <3>2. top[1] \in Int /\ top[2] \in Nat /\ lo[1] \in Nat /\ lo[2] = 1
      BY <1>1, <1>3, <1>4 DEF Number
    <3>3. top[1] * lo[2] = top[1] /\ lo[1] * top[2] \in Nat
      <4>1. \A a, b \in Nat : a * b \in Nat
        OBVIOUS
      <4>2. QED
        BY <3>2, <4>1
    <3>4. QED
      BY <3>1, <3>2, <3>3
  <2>3. QED
    BY <2>1, <2>2
<1>5. QED
  BY <1>1, <1>2, <1>3, <1>4

\* A thumb not below zero stays in its place.
LEMMA ThumbsStay ==
    ASSUME engine = "later", NEW t, t[2] \in Number, t[2][1] >= 0
    PROVE  Sorted(t) = t
<1>1. ~ Below(t[2], Num(0))
  <2>1. t[2][1] \in Int /\ t[2][2] \in Nat
    BY DEF Number
  <2>2. ~ (t[2][1] * 1 < 0 * t[2][2])
    BY <2>1
  <2>3. QED
    BY <2>2 DEF Below, Num
<1>2. QED
  BY <1>1 DEF Sorted

\* Moving a thumb where there is order: it goes between the limits, the range is told.
LEMMA MoveInOrder ==
    ASSUME engine = "later", NEW s \in Slides, s.rail # NoLimits, s.thumbs[2][1] >= 0,
           NEW i \in 1 .. 2, NEW value \in Number
    PROVE  LET r == MoveSliderTo(s, i, value)
           IN  /\ r \in Slides /\ r.rail = s.rail
               /\ r.thumbs = [s.thumbs EXCEPT ![i] = Within(s.rail, value)]
               /\ r.range = r.thumbs /\ r.thumbs[2][1] >= 0
<1> DEFINE x == Within(s.rail, value)
           t == [s.thumbs EXCEPT ![i] = x]
           r == MoveSliderTo(s, i, value)
<1>1. s.rail \in Rails /\ s.thumbs \in Thumbs
  BY DEF Slides
<1>2. x \in Number /\ x[1] >= 0
  BY <1>1, WithinFacts
<1> HIDE DEF x
<1>3. t \in Thumbs /\ t[2] \in Number /\ t[2][1] >= 0
  BY <1>1, <1>2 DEF Thumbs
<1>4. Sorted(t) = t
  BY <1>3, ThumbsStay
<1>5. r = [s EXCEPT !.thumbs = Sorted(Sorted(Sorted(Sorted(t)))),
                    !.range = <<Sorted(Sorted(Sorted(t)))[1], Sorted(Sorted(Sorted(Sorted(t))))[2]>>]
  BY DEF MoveSliderTo, Within, x
<1> HIDE DEF t, r
<1>6. r = [s EXCEPT !.thumbs = t, !.range = <<t[1], t[2]>>]
  BY <1>4, <1>5
<1>7. <<t[1], t[2]>> = t
  BY <1>3 DEF Thumbs
<1>8. r = [s EXCEPT !.thumbs = t, !.range = t]
  BY <1>6, <1>7
<1>9. r \in Slides /\ r.rail = s.rail /\ r.thumbs = t /\ r.range = t
  BY <1>3, <1>8 DEF Slides
<1>10. QED
  BY <1>3, <1>9 DEF r, t, x

\* And anywhere.
LEMMA MoveAnyhow ==
    ASSUME NEW s \in Slides, NEW i \in 1 .. 2, NEW value \in Number
    PROVE  MoveSliderTo(s, i, value) \in Slides /\ MoveSliderTo(s, i, value).rail = s.rail
<1> DEFINE x == Within(s.rail, value)
           t == [s.thumbs EXCEPT ![i] = x]
           r == MoveSliderTo(s, i, value)
<1>1. s.rail \in Rails /\ s.thumbs \in Thumbs
  BY DEF Slides
<1>2. x \in Number
  BY <1>1, WithinFacts
<1> HIDE DEF x
<1>3. t \in Thumbs
  BY <1>1, <1>2 DEF Thumbs
<1>4. ASSUME NEW u \in Thumbs PROVE Sorted(u) \in Thumbs
  <2>1. Sorted(u) = u \/ Sorted(u) = <<u[2], u[1]>>
    BY DEF Sorted
  <2>2. QED
    BY <2>1 DEF Thumbs
<1>5. r = [s EXCEPT !.thumbs = Sorted(Sorted(Sorted(Sorted(t)))),
                    !.range = <<Sorted(Sorted(Sorted(t)))[1], Sorted(Sorted(Sorted(Sorted(t))))[2]>>]
  BY DEF MoveSliderTo, Within, x
<1> HIDE DEF t, r
<1>6. Sorted(Sorted(Sorted(t))) \in Thumbs /\ Sorted(Sorted(Sorted(Sorted(t)))) \in Thumbs
  BY <1>3, <1>4
<1>7. \A u, v \in Thumbs : <<u[1], v[2]>> \in Thumbs
  BY DEF Thumbs
<1>8. QED
  BY <1>5, <1>6, <1>7 DEF Slides, r

\* Redrawing brings both thumbs between the limits.
LEMMA RedrawInOrder ==
    ASSUME engine = "later", NEW s \in Slides, s.rail # NoLimits, s.thumbs[2][1] >= 0
    PROVE  /\ Redraw(s) \in Slides /\ Redraw(s).rail = s.rail
           /\ \A i \in 1 .. 2 : Redraw(s).thumbs[i] = Within(s.rail, s.thumbs[i])
           /\ Redraw(s).range = Redraw(s).thumbs /\ Redraw(s).thumbs[2][1] >= 0
<1> DEFINE q == [s EXCEPT !.thumbs = Sorted(Sorted(@))]
           r == MoveSliderTo(q, 1, q.thumbs[1])
           z == MoveSliderTo(r, 2, r.thumbs[2])
<1>1. s.thumbs \in Thumbs /\ s.thumbs[1] \in Number /\ s.thumbs[2] \in Number
  BY DEF Slides, Thumbs
<1>2. Sorted(s.thumbs) = s.thumbs
  BY <1>1, ThumbsStay
<1>3. q = s
  BY <1>2 DEF Slides
<1>4. Redraw(s) = z
  BY DEF Redraw
<1> HIDE DEF q, z
<1>5. /\ r \in Slides /\ r.rail = s.rail /\ r.thumbs[2][1] >= 0
      /\ r.thumbs = [s.thumbs EXCEPT ![1] = Within(s.rail, s.thumbs[1])]
  BY <1>1, <1>3, MoveInOrder
<1> HIDE DEF r
<1>6. r.thumbs[2] = s.thumbs[2] /\ r.thumbs[1] = Within(s.rail, s.thumbs[1]) /\ r.thumbs \in Thumbs
  BY <1>1, <1>5 DEF Thumbs, Slides
<1>7. /\ z \in Slides /\ z.rail = s.rail /\ z.thumbs[2][1] >= 0 /\ z.range = z.thumbs
      /\ z.thumbs = [r.thumbs EXCEPT ![2] = Within(s.rail, s.thumbs[2])]
  BY <1>1, <1>5, <1>6, MoveInOrder DEF z
<1>8. z.thumbs[1] = Within(s.rail, s.thumbs[1]) /\ z.thumbs[2] = Within(s.rail, s.thumbs[2])
  BY <1>6, <1>7 DEF Thumbs
<1>9. QED
  BY <1>4, <1>7, <1>8

\* A slider drawn again is a slider, of the same limits.
LEMMA RedrawAnyhow ==
    ASSUME NEW s \in Slides
    PROVE  Redraw(s) \in Slides /\ Redraw(s).rail = s.rail
<1> DEFINE q == [s EXCEPT !.thumbs = Sorted(Sorted(@))]
           r == MoveSliderTo(q, 1, q.thumbs[1])
           z == MoveSliderTo(r, 2, r.thumbs[2])
<1>1. ASSUME NEW u \in Thumbs PROVE Sorted(u) \in Thumbs
  <2>1. Sorted(u) = u \/ Sorted(u) = <<u[2], u[1]>>
    BY DEF Sorted
  <2>2. QED
    BY <2>1 DEF Thumbs
<1>2. Sorted(Sorted(s.thumbs)) \in Thumbs
  BY <1>1 DEF Slides
<1>3. q \in Slides /\ q.rail = s.rail
  BY <1>2 DEF Slides
<1>4. Redraw(s) = z
  BY DEF Redraw
<1> HIDE DEF q, z
<1>5. \A u \in Slides : u.thumbs[1] \in Number /\ u.thumbs[2] \in Number
  BY DEF Slides, Thumbs
<1>6. r \in Slides /\ r.rail = s.rail
  BY <1>3, <1>5, MoveAnyhow
<1> HIDE DEF r
<1>7. QED
  BY <1>4, <1>5, <1>6, MoveAnyhow DEF z


------------------------------------------------------------------------------
(* Thumbs left at their ends *)

\* Where a thumb is put that nobody moves.
End(rail, i) == IF rail = Unlimited THEN Num(5) ELSE rail[i].reads

AtEnds(s) == s.rail # NoLimits => \A i \in 1 .. 2 : s.thumbs[i] \in {NaN, End(s.rail, i)}

\* Whole numbers between the limits.
LEMMA KeptWithin ==
    ASSUME NEW a \in Nat, NEW b \in Nat, a <= b
    PROVE  /\ \A rail \in Rails : Within(rail, NaN) = NaN
           /\ Within(Whole(a, b), Num(a)) = Num(a)
           /\ \A n \in Nat : b <= n => Within(Whole(a, b), Num(n)) = Num(b)
           /\ \A n \in Nat : n <= 5 => Within(Unlimited, Num(n)) = Num(5)
           /\ Within(Unlimited, Infinite) = Num(5)
           /\ Whole(a, b) # Unlimited /\ Whole(a, b) # NoLimits /\ NoLimits # Unlimited
<1>1. \A m, n \in Nat : Below(Num(m), Num(n)) <=> m < n
  BY DEF Below, Num, NaN
<1>2. \A rail \in Rails : Within(rail, NaN) = NaN
  BY DEF Within, Below
<1>3. Whole(a, b)[1].reads = Num(a) /\ Whole(a, b)[2].reads = Num(b)
  BY DEF Whole, Limit
<1>4. Unlimited[1].reads = Num(5) /\ Unlimited[2].reads = Num(1)
  BY DEF Unlimited
<1>5. Within(Whole(a, b), Num(a)) = Num(a)
  BY <1>1, <1>3 DEF Within
<1>6. ASSUME NEW n \in Nat, b <= n PROVE Within(Whole(a, b), Num(n)) = Num(b)
  <2>1. n = b \/ b < n
    BY <1>6
  <2>2. CASE n = b
    BY <1>1, <1>3, <2>2 DEF Within
  <2>3. CASE b < n
    BY <1>1, <1>3, <2>3 DEF Within
  <2>4. QED
    BY <2>1, <2>2, <2>3
<1>7. ASSUME NEW n \in Nat, n <= 5 PROVE Within(Unlimited, Num(n)) = Num(5)
  <2>1. Below(Num(1), Num(n)) \/ n \in {0, 1}
    BY <1>1, <1>7
  <2>2. Below(Num(1), Num(5)) /\ Below(Num(0), Num(5))
    BY <1>1
  <2>3. CASE Below(Num(1), Num(n))
    BY <1>4, <2>2, <2>3 DEF Within
  <2>4. CASE ~ Below(Num(1), Num(n))
    BY <1>4, <2>1, <2>2, <2>4 DEF Within
  <2>5. QED
    BY <2>3, <2>4
<1>8. Within(Unlimited, Infinite) = Num(5)
  <2>1. Below(Num(1), Infinite)
    BY DEF Below, Num, Infinite, NaN
  <2>2. Below(Num(1), Num(5))
    BY <1>1
  <2>3. QED
    BY <1>4, <2>1, <2>2 DEF Within
<1>9. Whole(a, b) # Unlimited /\ Whole(a, b) # NoLimits /\ NoLimits # Unlimited
  <2>1. Whole(a, b)[2].is[2] = 1 /\ Unlimited[2].is[2] = 0
    BY DEF Whole, Limit, Num, Unlimited, Infinite
  <2>2. Whole(a, b)[1].reads[2] = 1 /\ NoLimits[1].reads[2] = 0 /\ Unlimited[1].reads[2] = 1
    BY DEF Whole, Limit, Num, Unlimited, NoLimits, NaN
  <2>3. QED
    BY <2>1, <2>2
<1>10. QED
  BY <1>2, <1>5, <1>6, <1>7, <1>8, <1>9

\* Where a thumb goes in proportion when there are new limits.
Scaled(s, limits, i) == Over(Times(s.thumbs[i], limits[i].is), s.rail[i].reads)

\* That is a number; it is none where there are no limits, and not below zero otherwise.
LEMMA ScaledFacts ==
    ASSUME NEW s \in Slides, NEW limits \in Rails, NEW i \in 1 .. 2
    PROVE  /\ Scaled(s, limits, i) \in Number
           /\ s.rail = NoLimits \/ s.thumbs[i] = NaN => Scaled(s, limits, i) = NaN
           /\ s.rail # NoLimits /\ limits # NoLimits /\ s.thumbs[i][1] >= 0 => Scaled(s, limits, i)[1] >= 0
<1> DEFINE x == s.thumbs[i]
           y == limits[i].is
           z == s.rail[i].reads
<1>1. x \in Number /\ s.rail \in Rails
  BY DEF Slides, Thumbs
<1>2. /\ y \in Number /\ z \in Number
      /\ limits # NoLimits => y[1] >= 0
      /\ s.rail # NoLimits => z[1] >= 0
      /\ s.rail = NoLimits => z = NaN
  BY <1>1, LimitFacts
<1>3. Scaled(s, limits, i) = Over(Times(x, y), z)
  BY DEF Scaled
<1>4. NaN \in Number
  BY DEF NaN, Number
<1> HIDE DEF x, y, z
<1>5. Times(x, y) \in Number
  BY <1>1, <1>2, ProductsAndQuotients
<1>6. CASE s.rail = NoLimits
  <2>1. Over(Times(x, y), z) = NaN
    BY <1>2, <1>5, <1>6, NoNumber
  <2>2. QED
    BY <1>3, <1>4, <1>6, <2>1
<1>7. CASE s.rail # NoLimits
  <2>1. Over(Times(x, y), z) \in Number
    BY <1>2, <1>5, <1>7, ProductsAndQuotients
  <2>2. limits # NoLimits /\ x[1] >= 0 => Over(Times(x, y), z)[1] >= 0
    BY <1>1, <1>2, <1>5, <1>7, ProductsAndQuotients
  <2>3. x = NaN => Over(Times(x, y), z) = NaN
    BY <1>2, NoNumber
  <2>4. QED
    BY <1>3, <1>7, <2>1, <2>2, <2>3 DEF x
<1>8. QED
  BY <1>6, <1>7

\* New limits leave a slider.
LEMMA LimitsAnyhow ==
    ASSUME NEW s \in Slides, NEW limits \in Rails
    PROVE  SetLimits(s, limits) \in Slides /\ SetLimits(s, limits).rail = limits
<1> DEFINE u == [s EXCEPT !.rail = limits, !.thumbs = [i \in 1 .. 2 |-> Scaled(s, limits, i)]]
<1>1. SetLimits(s, limits) = Redraw(u)
  BY DEF SetLimits, Scaled
<1>2. \A i \in 1 .. 2 : Scaled(s, limits, i) \in Number
  BY ScaledFacts
<1>3. [i \in 1 .. 2 |-> Scaled(s, limits, i)] \in Thumbs
  BY <1>2 DEF Thumbs
<1>4. u \in Slides /\ u.rail = limits
  BY <1>3 DEF Slides
<1> HIDE DEF u
<1>5. QED
  BY <1>1, <1>4, RedrawAnyhow

\* New limits leave order, and a range that is the thumbs'.
LEMMA LimitsInOrder ==
    ASSUME engine = "later", NEW s \in Slides, Orderly(s), NEW limits \in Rails
    PROVE  LET r == SetLimits(s, limits)
           IN  /\ r \in Slides /\ r.rail = limits /\ Orderly(r)
               /\ limits # NoLimits =>
                     /\ r.range = r.thumbs
                     /\ \A i \in 1 .. 2 : r.thumbs[i] = Within(limits, Scaled(s, limits, i))
<1> DEFINE u == [s EXCEPT !.rail = limits, !.thumbs = [i \in 1 .. 2 |-> Scaled(s, limits, i)]]
           r == SetLimits(s, limits)
<1>1. r = Redraw(u)
  BY DEF SetLimits, Scaled
<1>2. \A i \in 1 .. 2 : Scaled(s, limits, i) \in Number
  BY ScaledFacts
<1>3. [i \in 1 .. 2 |-> Scaled(s, limits, i)] \in Thumbs
  BY <1>2 DEF Thumbs
<1>4. u \in Slides /\ u.rail = limits /\ \A i \in 1 .. 2 : u.thumbs[i] = Scaled(s, limits, i)
  BY <1>3 DEF Slides
<1> HIDE DEF u, r
<1>5. CASE limits = NoLimits
  <2>1. r \in Slides /\ r.rail = limits
    BY <1>1, <1>4, RedrawAnyhow
  <2>2. QED
    BY <1>5, <2>1 DEF Orderly, r
<1>6. CASE limits # NoLimits
  <2>1. u.thumbs[2][1] >= 0
    <3>1. CASE s.rail = NoLimits
      <4>1. Scaled(s, limits, 2) = NaN
        BY <3>1, ScaledFacts
      <4>2. QED
        BY <1>4, <4>1 DEF NaN
    <3>2. CASE s.rail # NoLimits
      <4>1. Scaled(s, limits, 2)[1] >= 0
        BY <1>6, <3>2, ScaledFacts DEF Orderly
      <4>2. QED
        BY <1>4, <4>1
    <3>3. QED
      BY <3>1, <3>2
  <2>2. /\ r \in Slides /\ r.rail = limits /\ r.range = r.thumbs /\ r.thumbs[2][1] >= 0
        /\ \A i \in 1 .. 2 : r.thumbs[i] = Within(limits, u.thumbs[i])
    BY <1>1, <1>4, <1>6, <2>1, RedrawInOrder
  <2>3. QED
    BY <1>4, <2>2 DEF Orderly, r
<1>7. QED
  BY <1>5, <1>6

\* A thumb at its end stays there, whatever the limits become.
LEMMA EndsStayEnds ==
    ASSUME engine = "later", NEW s \in Slides, Orderly(s), NEW limits \in Rails, AtEnds(s)
    PROVE  AtEnds(SetLimits(s, limits))
<1> DEFINE r == SetLimits(s, limits)
<1>1. /\ r.rail = limits
      /\ limits # NoLimits => \A i \in 1 .. 2 : r.thumbs[i] = Within(limits, Scaled(s, limits, i))
  BY LimitsInOrder
<1> HIDE DEF r
<1> SUFFICES ASSUME limits # NoLimits, NEW i \in 1 .. 2
             PROVE  Within(limits, Scaled(s, limits, i)) \in {NaN, End(limits, i)}
  BY <1>1 DEF AtEnds, r
<1>2. s.rail \in Rails
  BY DEF Slides
<1>3. CASE s.rail = NoLimits \/ s.thumbs[i] = NaN
  <2>1. Scaled(s, limits, i) = NaN
    BY <1>3, ScaledFacts
  <2>2. QED
    BY <2>1, KeptWithin
<1>4. CASE s.rail # NoLimits /\ s.thumbs[i] # NaN
  <2>1. s.thumbs[i] = End(s.rail, i)
    BY <1>4 DEF AtEnds
  <2>2. PICK e \in Nat, d \in Nat : /\ s.thumbs[i] = Num(e) /\ s.rail[i].reads = Num(d)
                                    /\ e = d \/ (e = 5 /\ d = 1 /\ i = 2)
    <3>1. CASE s.rail = Unlimited
      <4>1. s.thumbs[i] = Num(5)
        BY <2>1, <3>1 DEF End
      <4>2. /\ i = 1 => s.rail[i].reads = Num(5)
            /\ i = 2 => s.rail[i].reads = Num(1)
        BY <3>1 DEF Unlimited
      <4>3. QED
        BY <4>1, <4>2
    <3>2. CASE s.rail # Unlimited
      <4>1. PICK p \in Nat \X Nat : s.rail = Whole(p[1], p[2])
        BY <1>2, <1>4, <3>2 DEF Rails
      <4>2. p[1] \in Nat /\ p[2] \in Nat
        OBVIOUS
      <4>3. s.rail[i].reads = Num(p[i]) /\ p[i] \in Nat
        BY <4>1, <4>2 DEF Whole, Limit
      <4>4. s.thumbs[i] = Num(p[i])
        BY <2>1, <3>2, <4>3 DEF End
      <4>5. QED
        BY <4>3, <4>4
    <3>3. QED
      BY <3>1, <3>2
  <2>3. Scaled(s, limits, i) = Over(Times(Num(e), limits[i].is), Num(d))
    BY <2>2 DEF Scaled
  <2>4. CASE limits = Unlimited
    <3>1. CASE i = 1
      <4>1. e = d /\ limits[i].is = Num(0)
        BY <2>2, <2>4, <3>1 DEF Unlimited
      <4>2. Scaled(s, limits, i) \in {NaN, Num(0)}
        BY <2>3, <4>1, Proportions
      <4>3. QED
        BY <2>4, <4>2, KeptWithin DEF End
    <3>2. CASE i = 2
      <4>1. limits[i].is = Infinite
        BY <2>4, <3>2 DEF Unlimited
      <4>2. Scaled(s, limits, i) \in {NaN, Infinite}
        BY <2>3, <4>1, Proportions
      <4>3. QED
        BY <2>4, <4>2, KeptWithin DEF End
    <3>3. QED
      BY <3>1, <3>2
  <2>5. CASE limits # Unlimited
    <3>1. PICK p \in Nat \X Nat : p[1] <= p[2] /\ limits = Whole(p[1], p[2])
      BY <2>5 DEF Rails
    <3>2. p[1] \in Nat /\ p[2] \in Nat /\ p[i] \in Nat
      OBVIOUS
    <3>3. limits[i].is = Num(p[i]) /\ limits[i].reads = Num(p[i])
      BY <3>1, <3>2 DEF Whole, Limit
    <3>4. End(limits, i) = Num(p[i])
      BY <2>5, <3>3 DEF End
    <3>5. \/ Scaled(s, limits, i) \in {NaN, Num(p[i])}
          \/ Scaled(s, limits, i) = Num(5 * p[i]) /\ i = 2
      <4>1. Scaled(s, limits, i) = Over(Times(Num(e), Num(p[i])), Num(d))
        BY <2>3, <3>3
      <4>2. e # 0 => Over(Times(Num(e), Num(p[i])), Num(e)) = Num(p[i])
        BY <3>2, Proportions
      <4>3. Over(Times(Num(0), Num(p[i])), Num(0)) = NaN
        BY <3>2, Proportions
      <4>4. Over(Times(Num(5), Num(p[i])), Num(1)) = Num(5 * p[i])
        BY <3>2, Proportions
      <4>5. QED
        BY <2>2, <4>1, <4>2, <4>3, <4>4
    <3>6. i = 2 => 5 * p[i] \in Nat /\ p[2] <= 5 * p[i] /\ p[2] <= p[i]
      BY <3>2
    <3>7. Within(limits, Num(p[i])) = Num(p[i])
      BY <3>1, <3>2, <3>6, KeptWithin
    <3>8. i = 2 => Within(limits, Num(5 * p[i])) = Num(p[i])
      BY <3>1, <3>2, <3>6, KeptWithin
    <3>9. QED
      BY <3>4, <3>5, <3>7, <3>8, KeptWithin
  <2>6. QED
    BY <2>4, <2>5
<1>5. QED
  BY <1>3, <1>4

\* The shown panel's slider is a slider.
LEMMA ResetAnyhow ==
    ASSUME NEW s \in Slides
    PROVE  Redraw(ResetSliders(s)) \in Slides /\ Redraw(ResetSliders(s)).rail = s.rail
<1> DEFINE u == MoveSliderTo(s, 1, s.rail[1].reads)
           v == MoveSliderTo(u, 2, u.rail[2].reads)
<1>1. s.rail \in Rails /\ 1 \in 1 .. 2 /\ 2 \in 1 .. 2
  BY DEF Slides
<1>2. s.rail[1].reads \in Number /\ s.rail[2].reads \in Number
  BY <1>1, LimitFacts
<1>3. u \in Slides /\ u.rail = s.rail
  BY <1>1, <1>2, MoveAnyhow
<1>4. ResetSliders(s) = v
  BY <1>3 DEF ResetSliders
<1> HIDE DEF u
<1>5. v \in Slides /\ v.rail = s.rail
  BY <1>1, <1>2, <1>3, MoveAnyhow
<1> HIDE DEF v
<1>6. QED
  BY <1>4, <1>5, RedrawAnyhow

\* The shown panel's thumbs are at their ends.
LEMMA ResetPutsAtEnds ==
    ASSUME engine = "later", NEW s \in Slides, Orderly(s)
    PROVE  LET r == Redraw(ResetSliders(s))
           IN  /\ r \in Slides /\ r.rail = s.rail /\ Orderly(r) /\ AtEnds(r)
               /\ s.rail # NoLimits => r.range = r.thumbs
<1> DEFINE u == MoveSliderTo(s, 1, s.rail[1].reads)
           v == MoveSliderTo(u, 2, u.rail[2].reads)
           r == Redraw(v)
<1>1. s.rail \in Rails /\ s.rail[1].reads \in Number /\ s.rail[2].reads \in Number
  <2>1. s.rail \in Rails
    BY DEF Slides
  <2>2. QED
    BY <2>1, LimitFacts
<1>2. u \in Slides /\ u.rail = s.rail
  <2>1. 1 \in 1 .. 2
    OBVIOUS
  <2>2. QED
    BY <1>1, <2>1, MoveAnyhow
<1> HIDE DEF u
<1>3. v \in Slides /\ v.rail = s.rail
  <2>1. 2 \in 1 .. 2 /\ u.rail[2].reads \in Number
    BY <1>1, <1>2
  <2>2. QED
    BY <1>2, <2>1, MoveAnyhow
<1>4. Redraw(ResetSliders(s)) = r
  BY <1>2 DEF ResetSliders, u
<1> HIDE DEF v
<1>5. r \in Slides /\ r.rail = s.rail
  BY <1>3, RedrawAnyhow
<1> HIDE DEF r
<1>6. CASE s.rail = NoLimits
  BY <1>4, <1>5, <1>6 DEF Orderly, AtEnds
<1>7. CASE s.rail # NoLimits
  <2>1. u.thumbs = [s.thumbs EXCEPT ![1] = Within(s.rail, s.rail[1].reads)] /\ u.thumbs[2][1] >= 0
    BY <1>1, <1>7, MoveInOrder DEF u, Orderly
  <2>2. v.thumbs = [u.thumbs EXCEPT ![2] = Within(s.rail, s.rail[2].reads)] /\ v.thumbs[2][1] >= 0
    BY <1>1, <1>2, <1>7, <2>1, MoveInOrder DEF v
  <2>3. s.thumbs \in Thumbs /\ u.thumbs \in Thumbs
    BY <1>2 DEF Slides
  <2>4. \A i \in 1 .. 2 : v.thumbs[i] = Within(s.rail, s.rail[i].reads)
    BY <2>1, <2>2, <2>3 DEF Thumbs
  <2>5. /\ r.range = r.thumbs /\ r.thumbs[2][1] >= 0
        /\ \A i \in 1 .. 2 : r.thumbs[i] = Within(s.rail, v.thumbs[i])
    BY <1>3, <1>7, <2>2, RedrawInOrder DEF r
  <2>6. \A i \in 1 .. 2 : Within(s.rail, Within(s.rail, s.rail[i].reads)) = End(s.rail, i)
    <3>1. CASE s.rail = Unlimited
      <4>1. Unlimited[1].reads = Num(5) /\ Unlimited[2].reads = Num(1)
        BY DEF Unlimited
      <4>2. \A i \in 1 .. 2 : Within(Unlimited, Unlimited[i].reads) = Num(5)
        BY <4>1, KeptWithin
      <4>3. Within(Unlimited, Num(5)) = Num(5)
        BY KeptWithin
      <4>4. QED
        BY <3>1, <4>2, <4>3 DEF End
    <3>2. CASE s.rail # Unlimited
      <4>1. PICK p \in Nat \X Nat : p[1] <= p[2] /\ s.rail = Whole(p[1], p[2])
        BY <1>1, <1>7, <3>2 DEF Rails
      <4>2. p[1] \in Nat /\ p[2] \in Nat /\ p[2] <= p[2]
        OBVIOUS
      <4>3. s.rail[1].reads = Num(p[1]) /\ s.rail[2].reads = Num(p[2])
        BY <4>1 DEF Whole, Limit
      <4>4. Within(s.rail, Num(p[1])) = Num(p[1]) /\ Within(s.rail, Num(p[2])) = Num(p[2])
        BY <4>1, <4>2, KeptWithin
      <4>5. QED
        BY <3>2, <4>3, <4>4 DEF End
    <3>3. QED
      BY <3>1, <3>2
  <2>7. \A i \in 1 .. 2 : r.thumbs[i] = End(s.rail, i)
    BY <2>4, <2>5, <2>6
  <2>8. QED
    BY <1>4, <1>5, <2>5, <2>7 DEF Orderly, AtEnds
<1>8. QED
  BY <1>6, <1>7


------------------------------------------------------------------------------
(* The invariant *)

Houses == Nat \X Nat

Pages == {p \in Seq(SUBSET Nat) : \A k \in DOMAIN p : IsFiniteSet(p[k])}

Sidebars ==
    [listed : BOOLEAN, list : SUBSET Houses, error : BOOLEAN, count : SUBSET Houses, size : Nat,
     share : Shares, total : (SUBSET Houses) \cup {"failed"},
     density : ((SUBSET Houses) \X Nat) \cup {"failed"},
     leads : ((SUBSET Houses) \X Shares) \cup {"failed"}, button : BOOLEAN, open : BOOLEAN]

FilterTyped ==
    /\ engine \in {"later", "earlier"} /\ touched \in BOOLEAN
    /\ chosen \in [number : Nat, pages : Pages, sent : Nat, sized : BOOLEAN]
    /\ outlines \in SUBSET Houses /\ IsFiniteSet(outlines)
    /\ slide \in Slides /\ stats \in Sidebars

\* Where the sort leaves thumbs in place: there is order, thumbs that nobody moved are at
\* their ends, and what was told of the thumbs is where they are.
SliderInv == engine = "later" =>
    /\ Orderly(slide)
    /\ ~ touched => AtEnds(slide)
    /\ chosen.sent > 0 /\ slide.rail # NoLimits => slide.range = slide.thumbs

Come(n, pages, sent) == {n} \X UNION {pages[k] : k \in {j \in DOMAIN pages : j <= sent}}

PageOf(pages, k) == IF k > Len(pages) THEN {} ELSE pages[k]

OneMore(n, pages, k) == Come(n, pages, k) \cup ({n} \X PageOf(pages, k + 1))

HousesSent == Come(chosen.number, chosen.pages, chosen.sent)

\* The sidebar and the renderer have the pages that have come, and show what passes.
ListedInv == chosen.number > 0 /\ chosen.sent > 0 /\ ~ stats.error =>
    /\ stats.listed /\ stats.list = HousesSent /\ outlines = HousesSent
    /\ painted = Passing(outlines, slide.range)
    /\ stats.count = Passing(stats.list, slide.range) /\ stats.total = stats.count
    /\ slide.rail = LimitsOf(outlines)

FiguresInv ==
    /\ stats.size = IF chosen.sized THEN chosen.number ELSE 0
    /\ ~ stats.error => /\ stats.density = <<stats.count, stats.size>>
                        /\ stats.leads = <<stats.count, stats.share>>

FilterInv == FilterTyped /\ SliderInv /\ ListedInv /\ FiguresInv

\* The limits of some buildings are whole numbers with all of them between.
LEMMA LimitsOfHouses ==
    ASSUME NEW B \in SUBSET Houses, IsFiniteSet(B)
    PROVE  /\ LimitsOf(B) \in Rails
           /\ B = {} => LimitsOf(B) = NoLimits
           /\ B # {} => \E a, b \in Nat : /\ a <= b /\ LimitsOf(B) = Whole(a, b)
                                          /\ \A h \in B : 2 * a <= h[2] /\ h[2] <= 2 * b
<1>1. CASE B = {}
  BY <1>1 DEF LimitsOf, NoLimits, Rails
<1>2. CASE B # {}
  <2> DEFINE F == {T \in SUBSET B : \E m \in Nat : \A h \in T : h[2] <= m}
  <2>1. {} \in F
    <3>1. \A h \in {} : h[2] <= 0
      OBVIOUS
    <3>2. QED
      BY <3>1
  <2>2. ASSUME NEW T \in SUBSET B, NEW x \in B \ T, T \in F PROVE T \cup {x} \in F
    <3>1. PICK m \in Nat : \A h \in T : h[2] <= m
      BY <2>2
    <3>2. \A h \in B : h[2] \in Nat
      BY DEF Houses
    <3>3. m + x[2] \in Nat /\ \A h \in T \cup {x} : h[2] <= m + x[2]
      BY <3>1, <3>2
    <3>4. QED
      BY <3>3
  <2> HIDE DEF F
  <2>3. B \in F
    BY <2>1, <2>2, Growing
  <2>4. PICK m \in Nat : \A h \in B : h[2] <= m
    BY <2>3 DEF F
  <2> DEFINE sizes == {h[2] : h \in B}
             least == CHOOSE s \in sizes : \A r \in sizes : s <= r
             most == CHOOSE s \in sizes : \A r \in sizes : r <= s
  <2>5. sizes \in SUBSET (0 .. m) /\ sizes # {}
    BY <1>2, <2>4 DEF Houses
  <2>6. LimitsOf(B) = <<Limit(least \div 2), Limit((most + 1) \div 2)>>
    BY <1>2 DEF LimitsOf
  <2>7. \A h \in B : h[2] \in sizes
    OBVIOUS
  <2> HIDE DEF sizes
  <2>8. /\ least \in sizes /\ \A r \in sizes : least <= r
        /\ most \in sizes /\ \A r \in sizes : r <= most
    BY <2>5, MinAndMax
  <2> HIDE DEF least, most
  <2> DEFINE a == least \div 2
             b == (most + 1) \div 2
  <2>9. least \in Nat /\ most \in Nat /\ least <= most
    BY <2>5, <2>8
  <2>10. a \in Nat /\ b \in Nat /\ a <= b /\ 2 * a <= least /\ most <= 2 * b
    BY <2>9
  <2> HIDE DEF a, b
  <2>11. \A h \in B : 2 * a <= h[2] /\ h[2] <= 2 * b
    <3> TAKE h \in B
    <3>1. h[2] \in sizes
      BY <2>7
    <3>2. h[2] \in Nat
      BY DEF Houses
    <3>3. least <= h[2] /\ h[2] <= most
      BY <2>8, <3>1
    <3>4. QED
      BY <2>9, <2>10, <3>2, <3>3
  <2>12. LimitsOf(B) = Whole(a, b)
    BY <2>6 DEF Whole, a, b
  <2>13. Whole(a, b) \in Rails
    <3>1. <<a, b>> \in {q \in Nat \X Nat : q[1] <= q[2]} /\ <<a, b>>[1] = a /\ <<a, b>>[2] = b
      BY <2>10
    <3>2. QED
      BY <3>1 DEF Rails
  <2>14. QED
    BY <1>2, <2>10, <2>11, <2>12, <2>13
<1>3. QED
  BY <1>1, <1>2

\* A new count and all that is derived from it.
LEMMA RecountFacts ==
    ASSUME NEW s \in Sidebars, NEW range
    PROVE  LET r == Recount(s, range)
           IN  /\ r \in Sidebars
               /\ r.listed = s.listed /\ r.list = s.list /\ r.error = s.error /\ r.size = s.size
               /\ r.share = s.share
               /\ ~ s.error /\ s.listed =>
                     /\ r.count = Passing(s.list, range) /\ r.total = r.count
                     /\ r.density = <<r.count, r.size>> /\ r.leads = <<r.count, r.share>>
               /\ ~ s.error /\ ~ s.listed => r = s
<1> DEFINE r == Recount(s, range)
           passing == Passing(s.list, range)
<1>1. CASE s.error
  <2>1. r = [s EXCEPT !.total = "failed", !.density = "failed", !.leads = "failed"]
    BY <1>1 DEF Recount, Leads, Density, Sidebars
  <2>2. QED
    BY <1>1, <2>1 DEF Sidebars
<1>2. CASE ~ s.error /\ s.listed
  <2>1. passing \in SUBSET Houses
    <3>1. s.list \in SUBSET Houses
      BY DEF Sidebars
    <3>2. QED
      BY <3>1 DEF Passing
  <2>2. r = [s EXCEPT !.count = passing, !.total = passing,
                      !.density = <<passing, s.size>>, !.leads = <<passing, s.share>>]
    BY <1>2 DEF Recount, Leads, Density, Sidebars
  <2> HIDE DEF passing, r
  <2>3. s.size \in Nat /\ s.share \in Shares
    BY DEF Sidebars
  <2>4. <<passing, s.size>> \in (SUBSET Houses) \X Nat /\ <<passing, s.share>> \in (SUBSET Houses) \X Shares
    BY <2>1, <2>3
  <2>5. r \in Sidebars
    BY <2>1, <2>2, <2>4 DEF Sidebars
  <2>6. /\ r.listed = s.listed /\ r.list = s.list /\ r.error = s.error /\ r.size = s.size /\ r.share = s.share
        /\ r.count = passing /\ r.total = passing
        /\ r.density = <<passing, s.size>> /\ r.leads = <<passing, s.share>>
    BY <2>2 DEF Sidebars
  <2>7. QED
    BY <1>2, <2>5, <2>6 DEF r, passing
<1>3. CASE ~ s.error /\ ~ s.listed
  <2>1. r = s
    BY <1>3 DEF Recount
  <2> HIDE DEF r
  <2>2. /\ r \in Sidebars /\ r.listed = s.listed /\ r.list = s.list /\ r.error = s.error
        /\ r.size = s.size /\ r.share = s.share
    BY <2>1
  <2>3. QED
    BY <1>3, <2>1, <2>2 DEF r
<1>4. QED
  BY <1>1, <1>2, <1>3 DEF Sidebars

\* Nothing is filtered at first.
LEMMA FilterStart == FilterAssumption /\ FilterInit => FilterInv
<1> SUFFICES ASSUME FilterAssumption, FilterInit PROVE FilterInv
  OBVIOUS
<1>1. engine \in {"later", "earlier"} /\ touched = FALSE
  BY DEF FilterInit, FilterAssumption, NothingFiltered
<1>2. chosen = [number |-> 0, pages |-> <<>>, sent |-> 0, sized |-> TRUE] /\ outlines = {}
  BY DEF FilterInit, NothingFiltered
<1>3. PICK p \in Shares : stats = EmptySidebar(p)
  BY DEF FilterInit
<1>4. slide = [rail |-> <<Limit(2), Limit(22)>>, thumbs |-> <<Num(2), Num(22)>>,
               range |-> <<Num(0), Infinite>>]
  BY DEF FilterInit, NothingFiltered
<1>5. FilterTyped
  <2>1. <<>> \in Pages
    BY DEF Pages
  <2>2. chosen \in [number : Nat, pages : Pages, sent : Nat, sized : BOOLEAN]
    BY <1>2, <2>1
  <2>3. <<{}, 0>> \in (SUBSET Houses) \X Nat /\ <<{}, p>> \in (SUBSET Houses) \X Shares
    OBVIOUS
  <2>4. stats \in Sidebars
    BY <1>3, <2>3 DEF EmptySidebar, Sidebars
  <2>5. Whole(2, 22) \in Rails
    <3>1. <<2, 22>> \in {q \in Nat \X Nat : q[1] <= q[2]}
      OBVIOUS
    <3>2. QED
      BY <3>1 DEF Rails
  <2>6. slide \in Slides
    BY <1>4, <2>5 DEF Slides, Thumbs, Num, Infinite, Number, Whole
  <2>7. QED
    BY <1>1, <1>2, <2>2, <2>4, <2>6, FS_EmptySet DEF FilterTyped
<1>6. SliderInv
  <2>1. slide.rail = Whole(2, 22) /\ slide.thumbs = <<Num(2), Num(22)>> /\ slide.range = <<Num(0), Infinite>>
    BY <1>4 DEF Whole
  <2>4. Orderly(slide)
    BY <2>1 DEF Orderly, Num
  <2>5. AtEnds(slide)
    <3>1. Whole(2, 22) # Unlimited
      <4>1. \A a, b \in Nat : a <= b => Whole(a, b) # Unlimited
        BY KeptWithin
      <4>2. QED
        BY <4>1
    <3>2. End(Whole(2, 22), 1) = Num(2) /\ End(Whole(2, 22), 2) = Num(22)
      BY <3>1 DEF End, Whole, Limit
    <3>3. QED
      BY <2>1, <3>2 DEF AtEnds
  <2>6. ~ (chosen.sent > 0)
    BY <1>2
  <2>7. QED
    BY <2>4, <2>5, <2>6 DEF SliderInv
<1>7. ListedInv /\ FiguresInv
  BY <1>2, <1>3 DEF ListedInv, FiguresInv, EmptySidebar
<1>8. QED
  BY <1>5, <1>6, <1>7 DEF FilterInv


\* A page more.
LEMMA PageComes ==
    ASSUME NEW n \in Nat, NEW p \in Pages, NEW k \in Nat
    PROVE  Come(n, p, k + 1) = OneMore(n, p, k)
<1> DEFINE m == k + 1
           I == {j \in DOMAIN p : j <= k}
           J == {j \in DOMAIN p : j <= m}
<1>1. Len(p) \in Nat /\ DOMAIN p = 1 .. Len(p)
  BY DEF Pages
<1>2. J = IF m > Len(p) THEN I ELSE I \cup {m}
  BY <1>1
<1> HIDE DEF I, J
<1>3. UNION {p[j] : j \in J} = (UNION {p[j] : j \in I}) \cup PageOf(p, m)
  BY <1>2 DEF PageOf
<1>4. Come(n, p, m) = {n} \X UNION {p[j] : j \in J} /\ Come(n, p, k) = {n} \X UNION {p[j] : j \in I}
  BY DEF Come, I, J
<1>5. QED
  BY <1>3, <1>4 DEF OneMore

\* The pages that have come: none at first, all in the end, of buildings that can be counted.
LEMMA AllCome ==
    ASSUME NEW n \in Nat, NEW p \in Pages, NEW k \in Nat
    PROVE  /\ Come(n, p, 0) = {}
           /\ k > 0 => {n} \X PageOf(p, k) \in SUBSET Houses /\ IsFiniteSet({n} \X PageOf(p, k))
           /\ k > Len(p) => Come(n, p, k) = {n} \X UNION {p[j] : j \in DOMAIN p}
<1> DEFINE page == PageOf(p, k)
<1>1. /\ Len(p) \in Nat /\ DOMAIN p = 1 .. Len(p)
      /\ \A j \in 1 .. Len(p) : p[j] \in SUBSET Nat /\ IsFiniteSet(p[j])
  BY DEF Pages
<1>2. k > 0 => page \in SUBSET Nat /\ IsFiniteSet(page)
  BY <1>1, FS_EmptySet DEF PageOf
<1>3. Come(n, p, 0) = {}
  <2>1. {j \in DOMAIN p : j <= 0} = {}
    BY <1>1
  <2>2. QED
    BY <2>1 DEF Come
<1>4. k > 0 => {n} \X page \in SUBSET Houses
  BY <1>2 DEF Houses
<1>5. k > 0 => IsFiniteSet({n} \X page)
  BY <1>2, FS_Singleton, FS_Product
<1>6. ASSUME k > Len(p) PROVE Come(n, p, k) = {n} \X UNION {p[j] : j \in DOMAIN p}
  <2>1. {j \in DOMAIN p : j <= k} = DOMAIN p
    BY <1>1, <1>6
  <2>2. QED
    BY <2>1 DEF Come
<1>7. QED
  BY <1>3, <1>4, <1>5, <1>6

\* A new area has nothing to filter yet.
LEMMA ChoosingKeeps == FilterAssumption /\ FilterInv /\ ChooseArea => FilterInv'
<1> SUFFICES ASSUME FilterAssumption, FilterInv, ChooseArea PROVE FilterInv'
  OBVIOUS
<1>1. FilterTyped /\ SliderInv
  BY DEF FilterInv
<1>2. PICK p \in Plots :
         chosen' = [number |-> chosen.number + 1, pages |-> p, sent |-> 0, sized |-> FALSE]
  BY DEF ChooseArea
<1>3. /\ outlines' = {} /\ engine' = engine /\ slide' = slide /\ touched' = touched
      /\ stats' = [stats EXCEPT !.error = FALSE, !.count = {}, !.size = 0, !.total = {},
                                !.density = <<{}, 0>>, !.leads = <<{}, stats.share>>,
                                !.button = FALSE, !.open = FALSE]
  BY DEF ChooseArea, Move
<1>4. chosen'.sent = 0 /\ chosen'.sized = FALSE
  BY <1>2
<1>5. stats \in Sidebars
  BY <1>1 DEF FilterTyped
<1>6. /\ stats' \in Sidebars /\ stats'.size = 0 /\ stats'.count = {} /\ stats'.share = stats.share
      /\ stats'.density = <<{}, 0>> /\ stats'.leads = <<{}, stats.share>>
  <2>1. stats.share \in Shares
    BY <1>5 DEF Sidebars
  <2>2. <<{}, 0>> \in (SUBSET Houses) \X Nat /\ <<{}, stats.share>> \in (SUBSET Houses) \X Shares
    BY <2>1
  <2> DEFINE density == <<{}, 0>>
             leads == <<{}, stats.share>>
  <2>3. stats' = [stats EXCEPT !.error = FALSE, !.count = {}, !.size = 0, !.total = {},
                               !.density = density, !.leads = leads, !.button = FALSE, !.open = FALSE]
    BY <1>3
  <2> HIDE DEF density, leads
  <2>4. /\ stats'.size = 0 /\ stats'.count = {} /\ stats'.share = stats.share
        /\ stats'.density = density /\ stats'.leads = leads
    BY <1>5, <2>3 DEF Sidebars
  <2>5. stats' \in Sidebars
    <3>1. /\ density \in ((SUBSET Houses) \X Nat) \cup {"failed"}
          /\ leads \in ((SUBSET Houses) \X Shares) \cup {"failed"}
      BY <2>2 DEF density, leads
    <3>2. QED
      BY <1>5, <2>3, <3>1 DEF Sidebars
  <2>6. QED
    BY <2>4, <2>5 DEF density, leads
<1>7. FilterTyped'
  <2>1. p \in Pages
    BY DEF FilterAssumption, Pages
  <2>2. chosen.number + 1 \in Nat
    BY <1>1 DEF FilterTyped
  <2>3. chosen' \in [number : Nat, pages : Pages, sent : Nat, sized : BOOLEAN]
    BY <1>2, <2>1, <2>2
  <2>4. QED
    BY <1>1, <1>3, <1>6, <2>3, FS_EmptySet DEF FilterTyped
<1>8. SliderInv'
  BY <1>1, <1>3, <1>4 DEF SliderInv
<1>9. ListedInv' /\ FiguresInv'
  BY <1>4, <1>6 DEF ListedInv, FiguresInv
<1>10. QED
  BY <1>7, <1>8, <1>9 DEF FilterInv

\* Steps that leave the slider and the pages alone.
LEMMA FiguresKeep ==
    ASSUME FilterInv, UNCHANGED <<engine, outlines, painted, slide, touched>>,
           chosen' \in [number : Nat, pages : Pages, sent : Nat, sized : BOOLEAN],
           chosen'.number = chosen.number, chosen'.pages = chosen.pages, chosen'.sent = chosen.sent,
           stats' \in Sidebars, stats'.listed = stats.listed, stats'.list = stats.list,
           stats'.error = stats.error, stats'.count = stats.count, stats'.total = stats.total,
           FiguresInv'
    PROVE  FilterInv'
<1>1. FilterTyped /\ SliderInv /\ ListedInv
  BY DEF FilterInv
<1>2. FilterTyped'
  BY <1>1 DEF FilterTyped
<1>3. SliderInv'
  BY <1>1 DEF SliderInv
<1>4. HousesSent' = HousesSent
  BY DEF HousesSent
<1>5. ListedInv'
  BY <1>1, <1>4 DEF ListedInv
<1>6. QED
  BY <1>2, <1>3, <1>5 DEF FilterInv

\* Another share of the market: the leads are counted again.
LEMMA SharesKeep ==
    ASSUME FilterInv, NEW p \in Shares, EnterShare(p)
    PROVE  FilterInv'
<1>1. FilterTyped /\ FiguresInv
  BY DEF FilterInv
<1>2. /\ UNCHANGED <<engine, outlines, painted, slide, touched, chosen>>
      /\ stats' = Leads([stats EXCEPT !.share = p]) /\ ~ stats.error
  BY DEF EnterShare, Move
<1>3. stats \in Sidebars
  BY <1>1 DEF FilterTyped
<1>4. stats' = [stats EXCEPT !.share = p, !.leads = <<stats.count, p>>]
  BY <1>2, <1>3 DEF Leads, Sidebars
<1>5. <<stats.count, p>> \in (SUBSET Houses) \X Shares
  BY <1>3 DEF Sidebars
<1>6. /\ stats' \in Sidebars /\ stats'.listed = stats.listed /\ stats'.list = stats.list
      /\ stats'.error = stats.error /\ stats'.count = stats.count /\ stats'.total = stats.total
      /\ stats'.size = stats.size /\ stats'.density = stats.density /\ stats'.share = p
      /\ stats'.leads = <<stats.count, p>>
  BY <1>3, <1>4, <1>5 DEF Sidebars
<1>7. FiguresInv'
  BY <1>1, <1>2, <1>6 DEF FiguresInv
<1>8. QED
  BY <1>1, <1>2, <1>6, <1>7, FiguresKeep DEF FilterTyped

\* The area's size is told: the density is of it.
LEMMA SizeKeeps == FilterInv /\ TellSize => FilterInv'
<1> SUFFICES ASSUME FilterInv, TellSize PROVE FilterInv'
  OBVIOUS
<1>1. FilterTyped /\ FiguresInv
  BY DEF FilterInv
<1>2. /\ UNCHANGED <<engine, outlines, painted, slide, touched>>
      /\ chosen' = [chosen EXCEPT !.sized = TRUE]
      /\ stats' = Density([stats EXCEPT !.size = chosen.number])
  BY DEF TellSize
<1>3. /\ stats \in Sidebars
      /\ chosen \in [number : Nat, pages : Pages, sent : Nat, sized : BOOLEAN]
  BY <1>1 DEF FilterTyped
<1>4. /\ chosen' \in [number : Nat, pages : Pages, sent : Nat, sized : BOOLEAN]
      /\ chosen'.number = chosen.number /\ chosen'.pages = chosen.pages
      /\ chosen'.sent = chosen.sent /\ chosen'.sized = TRUE
  BY <1>2, <1>3
<1> DEFINE d == IF stats.error THEN "failed" ELSE <<stats.count, chosen.number>>
<1>5. stats' = [stats EXCEPT !.size = chosen.number, !.density = d]
  BY <1>2, <1>3 DEF Density, Sidebars
<1>6. d \in ((SUBSET Houses) \X Nat) \cup {"failed"} /\ chosen.number \in Nat
  <2>1. stats.count \in SUBSET Houses /\ chosen.number \in Nat
    BY <1>3 DEF Sidebars
  <2>2. <<stats.count, chosen.number>> \in (SUBSET Houses) \X Nat
    BY <2>1
  <2>3. QED
    BY <2>1, <2>2
<1>7. ~ stats.error => d = <<stats.count, chosen.number>>
  OBVIOUS
<1> HIDE DEF d
<1>8. /\ stats' \in Sidebars /\ stats'.listed = stats.listed /\ stats'.list = stats.list
      /\ stats'.error = stats.error /\ stats'.count = stats.count /\ stats'.total = stats.total
      /\ stats'.size = chosen.number /\ stats'.density = d /\ stats'.share = stats.share
      /\ stats'.leads = stats.leads
  BY <1>3, <1>5, <1>6 DEF Sidebars
<1>9. FiguresInv'
  BY <1>1, <1>4, <1>7, <1>8 DEF FiguresInv
<1>10. QED
  BY <1>2, <1>4, <1>8, <1>9, FiguresKeep


\* The thumbs are told to the renderer and the sidebar, which show what passes now.
LEMMA FilteringKeeps ==
    ASSUME FilterInv, UNCHANGED <<engine, chosen, outlines>>, touched' \in BOOLEAN,
           slide' \in Slides, slide'.rail = slide.rail, SliderInv',
           painted' = Passing(outlines, slide'.range),
           \E S \in Sidebars : /\ \E o \in BOOLEAN : S = [stats EXCEPT !.open = o]
                               /\ stats' = Recount(S, slide'.range)
    PROVE  FilterInv'
<1>1. FilterTyped /\ ListedInv /\ FiguresInv
  BY DEF FilterInv
<1>2. PICK S \in Sidebars : /\ \E o \in BOOLEAN : S = [stats EXCEPT !.open = o]
                            /\ stats' = Recount(S, slide'.range)
  OBVIOUS
<1>3. stats \in Sidebars
  BY <1>1 DEF FilterTyped
<1>4. /\ S.listed = stats.listed /\ S.list = stats.list /\ S.error = stats.error
      /\ S.count = stats.count /\ S.total = stats.total /\ S.size = stats.size
      /\ S.density = stats.density /\ S.leads = stats.leads /\ S.share = stats.share
  BY <1>2, <1>3 DEF Sidebars
<1>5. PICK range : range = slide'.range
  OBVIOUS
<1>6. stats' = Recount(S, range)
  BY <1>2, <1>5
<1>7. /\ stats' \in Sidebars
      /\ stats'.listed = S.listed /\ stats'.list = S.list /\ stats'.error = S.error
      /\ stats'.size = S.size /\ stats'.share = S.share
      /\ ~ S.error /\ S.listed =>
            /\ stats'.count = Passing(S.list, range) /\ stats'.total = stats'.count
            /\ stats'.density = <<stats'.count, stats'.size>>
            /\ stats'.leads = <<stats'.count, stats'.share>>
      /\ ~ S.error /\ ~ S.listed => stats' = S
  BY <1>6, RecountFacts
<1>8. FilterTyped'
  BY <1>1, <1>7 DEF FilterTyped
<1>9. FiguresInv'
  <2>1. S.listed \in BOOLEAN
    BY DEF Sidebars
  <2>2. QED
    BY <1>1, <1>4, <1>7, <2>1 DEF FiguresInv
<1>10. ListedInv'
  <2>1. HousesSent' = HousesSent
    BY DEF HousesSent
  <2>2. QED
    BY <1>1, <1>4, <1>5, <1>7, <2>1 DEF ListedInv
<1>11. QED
  BY <1>8, <1>9, <1>10 DEF FilterInv

\* The panel is shown with its thumbs at their ends, or hidden.
LEMMA PanelsKeep == FilterInv /\ TogglePanel => FilterInv'
<1> SUFFICES ASSUME FilterInv, TogglePanel PROVE FilterInv'
  OBVIOUS
<1>1. FilterTyped /\ SliderInv /\ FiguresInv
  BY DEF FilterInv
<1>2. /\ UNCHANGED <<engine, chosen, outlines>> /\ touched' = (stats.open /\ touched)
      /\ slide' = IF stats.open THEN slide ELSE Redraw(ResetSliders(slide))
      /\ painted' = IF stats.open THEN painted ELSE Passing(outlines, slide'.range)
      /\ stats' = IF stats.open THEN [stats EXCEPT !.open = FALSE]
                  ELSE Recount([stats EXCEPT !.open = TRUE], slide'.range)
  BY DEF TogglePanel, Move
<1>3. stats \in Sidebars /\ slide \in Slides
  BY <1>1 DEF FilterTyped
<1>4. CASE stats.open
  <2>1. stats' = [stats EXCEPT !.open = FALSE] /\ slide' = slide /\ painted' = painted
    BY <1>2, <1>4
  <2>2. touched' = touched
    <3>1. touched \in BOOLEAN
      BY <1>1 DEF FilterTyped
    <3>2. QED
      BY <1>2, <1>4, <3>1
  <2>3. /\ stats' \in Sidebars /\ stats'.listed = stats.listed /\ stats'.list = stats.list
        /\ stats'.error = stats.error /\ stats'.count = stats.count /\ stats'.total = stats.total
        /\ stats'.size = stats.size /\ stats'.density = stats.density /\ stats'.share = stats.share
        /\ stats'.leads = stats.leads
    BY <1>3, <2>1 DEF Sidebars
  <2>4. FiguresInv'
    BY <1>1, <1>2, <2>3 DEF FiguresInv
  <2>5. chosen' \in [number : Nat, pages : Pages, sent : Nat, sized : BOOLEAN] /\ chosen' = chosen
    BY <1>1, <1>2 DEF FilterTyped
  <2>6. QED
    BY <1>2, <2>1, <2>2, <2>3, <2>4, <2>5, FiguresKeep
<1>5. CASE ~ stats.open
  <2>1. /\ slide' = Redraw(ResetSliders(slide)) /\ painted' = Passing(outlines, slide'.range)
        /\ stats' = Recount([stats EXCEPT !.open = TRUE], slide'.range)
    BY <1>2, <1>5
  <2>2. slide' \in Slides /\ slide'.rail = slide.rail
    BY <1>3, <2>1, ResetAnyhow
  <2>3. touched' = FALSE
    BY <1>2, <1>5
  <2>4. SliderInv'
    <3> SUFFICES ASSUME engine = "later"
                 PROVE  /\ Orderly(slide') /\ AtEnds(slide')
                        /\ slide'.rail # NoLimits => slide'.range = slide'.thumbs
      BY <1>2 DEF SliderInv
    <3>1. Orderly(slide)
      BY <1>1 DEF SliderInv
    <3>2. QED
      BY <1>3, <2>1, <3>1, ResetPutsAtEnds
  <2>5. [stats EXCEPT !.open = TRUE] \in Sidebars
    BY <1>3 DEF Sidebars
  <2>6. QED
    BY <1>2, <2>1, <2>2, <2>3, <2>4, <2>5, FilteringKeeps
<1>6. QED
  BY <1>4, <1>5

\* A thumb goes to some number, or to none.
LEMMA ThumbsKeep ==
    ASSUME FilterInv, NEW i \in 1 .. 2, NEW value \in Number, MoveThumb(i, value)
    PROVE  FilterInv'
<1>1. FilterTyped /\ SliderInv
  BY DEF FilterInv
<1>2. /\ UNCHANGED <<engine, chosen, outlines>> /\ touched' = TRUE
      /\ slide' = MoveSliderTo(slide, i, value)
      /\ painted' = Passing(outlines, slide'.range)
      /\ stats' = Recount(stats, slide'.range)
  BY DEF MoveThumb, Move
<1>3. stats \in Sidebars /\ slide \in Slides /\ stats.open \in BOOLEAN
  BY <1>1 DEF FilterTyped, Sidebars
<1>4. slide' \in Slides /\ slide'.rail = slide.rail
  BY <1>2, <1>3, MoveAnyhow
<1>5. SliderInv'
  <2> SUFFICES ASSUME engine = "later", slide.rail # NoLimits
               PROVE  slide'.thumbs[2][1] >= 0 /\ slide'.range = slide'.thumbs
    BY <1>2, <1>4 DEF SliderInv, Orderly
  <2>1. slide.thumbs[2][1] >= 0
    BY <1>1 DEF SliderInv, Orderly
  <2>2. QED
    BY <1>2, <1>3, <2>1, MoveInOrder
<1>6. stats = [stats EXCEPT !.open = stats.open]
  BY <1>3 DEF Sidebars
<1>7. QED
  BY <1>2, <1>3, <1>4, <1>5, <1>6, FilteringKeeps

\* By the pointer or the keys.
LEMMA MovesKeep ==
    ASSUME FilterAssumption, FilterInv, NEW i \in 1 .. 2,
           PressKey(i) \/ \E v \in Spots : Drag(i, v)
    PROVE  FilterInv'
<1>1. slide \in Slides /\ slide.rail \in Rails /\ slide.thumbs \in Thumbs
  BY DEF FilterInv, FilterTyped, Slides
<1>2. slide.rail[1].reads \in Number /\ slide.rail[2].reads \in Number /\ slide.thumbs[i] \in Number
  <2>1. 1 \in 1 .. 2 /\ 2 \in 1 .. 2
    OBVIOUS
  <2>2. QED
    BY <1>1, <2>1, LimitFacts DEF Thumbs
<1>3. \E value \in Number : MoveThumb(i, value)
  <2>1. CASE PressKey(i)
    <3> DEFINE x == slide.thumbs[i]
    <3>1. \A step \in {-10, -1, 1, 10} : <<x[1] + step * x[2], x[2]>> \in Number
      BY <1>2 DEF Number
    <3>2. QED
      BY <1>2, <2>1, <3>1 DEF PressKey
  <2>2. CASE \E v \in Spots : Drag(i, v)
    <3>1. Spots \subseteq Number
      <4>1. Spots \subseteq Nat \X (Nat \ {0})
        BY DEF FilterAssumption
      <4>2. QED
        BY <4>1 DEF Number
    <3>2. Num(0) \in Number /\ NaN \in Number
      BY DEF Num, NaN, Number
    <3>3. QED
      BY <2>2, <3>1, <3>2 DEF Drag
  <2>3. QED
    BY <2>1, <2>2
<1>4. QED
  BY <1>3, ThumbsKeep


\* New limits move the thumbs; the sidebar counts before and after.
LEMMA LimitsKeep ==
    ASSUME FilterInv, NEW L \in Sidebars, NEW B \in SUBSET Houses, IsFiniteSet(B),
           NEW limits \in Rails, TakePage(L, B, limits),
           chosen' \in [number : Nat, pages : Pages, sent : Nat, sized : BOOLEAN],
           chosen'.number = chosen.number, chosen'.sized = chosen.sized,
           L.size = stats.size, ~ L.error => L.listed,
           ~ L.error => L.list = B /\ B = HousesSent' /\ limits = LimitsOf(B)
    PROVE  FilterInv'
<1>1. FilterTyped /\ SliderInv /\ FiguresInv
  BY DEF FilterInv
<1>2. /\ outlines' = B /\ slide' = SetLimits(slide, limits) /\ painted' = Passing(B, slide'.range)
      /\ stats' = Recount(Recount(L, slide.range), slide'.range)
      /\ engine' = engine /\ touched' = touched
  BY DEF TakePage
<1>3. slide \in Slides
  BY <1>1 DEF FilterTyped
<1>4. slide' \in Slides /\ slide'.rail = limits
  BY <1>2, <1>3, LimitsAnyhow
<1>5. PICK old, new : old = slide.range /\ new = slide'.range
  OBVIOUS
<1>6. PICK M : M = Recount(L, old)
  OBVIOUS
<1>7. M \in Sidebars /\ M.listed = L.listed /\ M.list = L.list /\ M.error = L.error /\ M.size = L.size
  BY <1>6, RecountFacts
<1>8. stats' = Recount(M, new)
  BY <1>2, <1>5, <1>6
<1>9. /\ stats' \in Sidebars /\ stats'.listed = M.listed /\ stats'.list = M.list
      /\ stats'.error = M.error /\ stats'.size = M.size
      /\ ~ M.error /\ M.listed =>
            /\ stats'.count = Passing(M.list, new) /\ stats'.total = stats'.count
            /\ stats'.density = <<stats'.count, stats'.size>>
            /\ stats'.leads = <<stats'.count, stats'.share>>
  BY <1>7, <1>8, RecountFacts
<1>10. FilterTyped'
  BY <1>1, <1>2, <1>4, <1>9 DEF FilterTyped
<1>11. SliderInv'
  <2> SUFFICES ASSUME engine = "later"
               PROVE  /\ Orderly(slide') /\ (~ touched => AtEnds(slide'))
                      /\ slide'.rail # NoLimits => slide'.range = slide'.thumbs
    BY <1>2 DEF SliderInv
  <2>1. Orderly(slide) /\ (~ touched => AtEnds(slide))
    BY <1>1 DEF SliderInv
  <2>2. Orderly(slide') /\ (limits # NoLimits => slide'.range = slide'.thumbs)
    BY <1>2, <1>3, <2>1, LimitsInOrder
  <2>3. ~ touched => AtEnds(slide')
    BY <1>2, <1>3, <2>1, EndsStayEnds
  <2>4. QED
    BY <1>4, <2>2, <2>3
<1>12. FiguresInv'
  BY <1>1, <1>7, <1>9 DEF FiguresInv
<1>13. ListedInv'
  <2> SUFFICES ASSUME ~ stats'.error
               PROVE  /\ stats'.listed /\ stats'.list = HousesSent' /\ outlines' = HousesSent'
                      /\ painted' = Passing(outlines', slide'.range)
                      /\ stats'.count = Passing(stats'.list, slide'.range)
                      /\ stats'.total = stats'.count
                      /\ slide'.rail = LimitsOf(outlines')
    BY DEF ListedInv
  <2>1. ~ L.error /\ ~ M.error
    BY <1>7, <1>9
  <2>2. QED
    BY <1>2, <1>4, <1>5, <1>7, <1>9, <2>1
<1>14. QED
  BY <1>10, <1>11, <1>12, <1>13 DEF FilterInv

\* The next page is listed, drawn and between the limits.
LEMMA PagesKeep == FilterInv /\ NextPage => FilterInv'
<1> SUFFICES ASSUME FilterInv, NextPage PROVE FilterInv'
  OBVIOUS
<1>1. FilterTyped /\ ListedInv
  BY DEF FilterInv
<1>2. PICK k : k = chosen.sent
  OBVIOUS
<1>3. PICK n, p : n = chosen.number /\ p = chosen.pages
  OBVIOUS
<1>4. n \in Nat /\ p \in Pages /\ k \in Nat /\ stats \in Sidebars
  BY <1>1, <1>2, <1>3 DEF FilterTyped
<1> DEFINE houses == {n} \X PageOf(p, k + 1)
           After(B) == IF k + 1 = 1 THEN houses ELSE B \cup houses
<1>5. PICK L, C : L = [stats EXCEPT !.listed = TRUE, !.list = After(@), !.button = TRUE]
                  /\ C = After(outlines)
  OBVIOUS
<1>6. PICK limits : limits = LimitsOf(C)
  OBVIOUS
<1>7. /\ chosen.number > 0 /\ chosen' = [chosen EXCEPT !.sent = k + 1]
      /\ TakePage(L, C, limits)
  BY <1>2, <1>3, <1>5, <1>6 DEF NextPage, PageOf
<1>8. houses \in SUBSET Houses /\ IsFiniteSet(houses)
  <2>1. PICK m : m = k + 1
    OBVIOUS
  <2>2. m \in Nat /\ m > 0
    BY <1>4, <2>1
  <2>3. QED
    BY <1>4, <2>1, <2>2, AllCome
<1>9. Come(n, p, k + 1) = Come(n, p, k) \cup houses /\ Come(n, p, 0) = {}
  <2>1. Come(n, p, 0) = {}
    BY <1>4, AllCome
  <2>2. Come(n, p, k + 1) = OneMore(n, p, k)
    BY <1>4, PageComes
  <2>3. QED
    BY <2>1, <2>2 DEF OneMore
<1> HIDE DEF houses
<1>10. stats.list \in SUBSET Houses /\ outlines \in SUBSET Houses /\ IsFiniteSet(outlines)
  BY <1>1 DEF FilterTyped, Sidebars
<1>11. C \in SUBSET Houses /\ IsFiniteSet(C) /\ After(stats.list) \in SUBSET Houses
  BY <1>5, <1>8, <1>10, FS_Union
<1>12. /\ L \in Sidebars /\ L.listed = TRUE /\ L.list = After(stats.list) /\ L.error = stats.error
       /\ L.size = stats.size
  BY <1>4, <1>5, <1>11 DEF Sidebars
<1>13. /\ chosen' \in [number : Nat, pages : Pages, sent : Nat, sized : BOOLEAN]
       /\ chosen'.number = n /\ chosen'.pages = p /\ chosen'.sent = k + 1
       /\ chosen'.sized = chosen.sized
  BY <1>1, <1>3, <1>4, <1>7 DEF FilterTyped
<1>14. HousesSent' = Come(n, p, k + 1)
  BY <1>13 DEF HousesSent
<1>15. ~ L.error => L.list = C /\ C = HousesSent'
  <2> SUFFICES ASSUME ~ stats.error
               PROVE  L.list = C /\ C = Come(n, p, k + 1)
    BY <1>12, <1>14
  <2>1. CASE k = 0
    BY <1>5, <1>9, <1>12, <2>1
  <2>2. CASE k # 0
    <3>1. stats.list = Come(n, p, k) /\ outlines = Come(n, p, k)
      BY <1>1, <1>2, <1>3, <1>4, <1>7, <2>2 DEF ListedInv, HousesSent
    <3>2. QED
      BY <1>4, <1>5, <1>9, <1>12, <2>2, <3>1
  <2>3. QED
    BY <2>1, <2>2
<1>16. limits \in Rails
  BY <1>6, <1>11, LimitsOfHouses
<1>17. QED
  BY <1>3, <1>6, <1>7, <1>11, <1>12, <1>13, <1>15, <1>16, LimitsKeep

\* The task times out: the sidebar shows an error, the slider has no limits.
LEMMA TimeoutsKeep == FilterInv /\ PagesTimeOut => FilterInv'
<1> SUFFICES ASSUME FilterInv, PagesTimeOut PROVE FilterInv'
  OBVIOUS
<1>1. FilterTyped
  BY DEF FilterInv
<1>2. PICK L, B : L = [stats EXCEPT !.error = TRUE] /\ B = outlines
  OBVIOUS
<1>3. TakePage(L, B, Unlimited) /\ chosen' = [chosen EXCEPT !.sent = Len(chosen.pages) + 1]
  BY <1>2 DEF PagesTimeOut
<1>4. L \in Sidebars /\ L.error = TRUE /\ L.size = stats.size
  BY <1>1, <1>2 DEF FilterTyped, Sidebars
<1>5. /\ chosen' \in [number : Nat, pages : Pages, sent : Nat, sized : BOOLEAN]
      /\ chosen'.number = chosen.number /\ chosen'.sized = chosen.sized
  <2>1. Len(chosen.pages) + 1 \in Nat
    BY <1>1 DEF FilterTyped, Pages
  <2>2. QED
    BY <1>1, <1>3, <2>1 DEF FilterTyped
<1>6. B \in SUBSET Houses /\ IsFiniteSet(B) /\ Unlimited \in Rails
  BY <1>1, <1>2 DEF FilterTyped, Rails
<1>7. QED
  BY <1>3, <1>4, <1>5, <1>6, LimitsKeep

\* The invariant holds always.
LEMMA FilterInvariant == FilterSpec => []FilterInv
<1>1. FilterInit => FilterInv
  BY FilterAssumption, FilterStart
<1>2. FilterInv /\ [FilterNext]_filterVars => FilterInv'
  <2> SUFFICES ASSUME FilterInv, [FilterNext]_filterVars PROVE FilterInv'
    OBVIOUS
  <2>1. CASE ChooseArea
    BY FilterAssumption, <2>1, ChoosingKeeps
  <2>2. CASE TogglePanel
    BY <2>2, PanelsKeep
  <2>3. ASSUME NEW i \in 1 .. 2, PressKey(i) \/ \E v \in Spots : Drag(i, v) PROVE FilterInv'
    BY FilterAssumption, <2>3, MovesKeep
  <2>4. ASSUME NEW p \in Shares, EnterShare(p) PROVE FilterInv'
    BY <2>4, SharesKeep
  <2>5. CASE NextPage
    BY <2>5, PagesKeep
  <2>6. CASE PagesTimeOut
    BY <2>6, TimeoutsKeep
  <2>7. CASE TellSize
    BY <2>7, SizeKeeps
  <2>8. CASE UNCHANGED filterVars
    <3>1. UNCHANGED <<engine, outlines, painted, slide, touched, chosen, stats>>
      BY <2>8 DEF filterVars
    <3>2. FilterTyped' /\ SliderInv' /\ FiguresInv'
      BY <3>1 DEF FilterInv, FilterTyped, SliderInv, FiguresInv
    <3>3. ListedInv'
      BY <3>1 DEF FilterInv, ListedInv, HousesSent
    <3>4. QED
      BY <3>2, <3>3 DEF FilterInv
  <2>9. QED
    BY <2>1, <2>2, <2>3, <2>4, <2>5, <2>6, <2>7, <2>8 DEF FilterNext
<1>3. QED
  BY <1>1, <1>2, PTL DEF FilterSpec


\* Between thumbs at the ends of a slider with limits, or at no number: all or nothing.
LEMMA EndsPassAll ==
    ASSUME NEW B \in SUBSET Houses, IsFiniteSet(B), NEW s \in Slides, AtEnds(s),
           s.rail = LimitsOf(B), s.rail # NoLimits, NaN \notin {s.thumbs[1], s.thumbs[2]}
    PROVE  Passing(B, s.thumbs) = B
<1>1. B # {}
  BY LimitsOfHouses
<1>2. PICK a, b \in Nat : /\ a <= b /\ LimitsOf(B) = Whole(a, b)
                          /\ \A h \in B : 2 * a <= h[2] /\ h[2] <= 2 * b
  BY <1>1, LimitsOfHouses
<1>3. s.rail # Unlimited
  BY <1>2, KeptWithin
<1>4. s.thumbs[1] = Num(a) /\ s.thumbs[2] = Num(b)
  <2>1. \A i \in 1 .. 2 : s.thumbs[i] = s.rail[i].reads
    BY <1>3 DEF AtEnds, End
  <2>2. s.rail[1].reads = Num(a) /\ s.rail[2].reads = Num(b)
    BY <1>2 DEF Whole, Limit
  <2>3. QED
    BY <2>1, <2>2
<1>5. ASSUME NEW h \in B
      PROVE  AtMost(s.thumbs[1], <<h[2], 2>>) /\ AtMost(<<h[2], 2>>, s.thumbs[2])
  <2>1. h[2] \in Nat
    BY DEF Houses
  <2>2. 2 * a <= h[2] /\ h[2] <= 2 * b
    BY <1>2
  <2> DEFINE x == h[2]
  <2>3. NaN \notin {<<a, 1>>, <<x, 2>>, <<b, 1>>}
    BY DEF NaN
  <2> HIDE DEF x
  <2>4. a * 2 <= x * 1 /\ x * 1 <= b * 2
    BY <2>1, <2>2 DEF x
  <2>5. AtMost(<<a, 1>>, <<x, 2>>) /\ AtMost(<<x, 2>>, <<b, 1>>)
    BY <2>3, <2>4 DEF AtMost
  <2>6. QED
    BY <1>4, <2>5 DEF Num, x
<1>6. QED
  BY <1>5 DEF Passing

\* The sidebar's figures and the map tell the same filter, the one its thumbs show.
THEOREM FiguresTellTheFilter == FilterSpec => []FigureTellsTheFilter
<1>1. FilterInv => FigureTellsTheFilter
  <2> SUFFICES ASSUME FilterInv,
                      chosen.number > 0, chosen.sent > Len(chosen.pages), engine = "later",
                      ~ stats.error, ~ Ruined
               PROVE  LET all  == {chosen.number} \X UNION {chosen.pages[k] : k \in DOMAIN chosen.pages}
                          pass == IF touched THEN Passing(all, slide.thumbs) ELSE all
                      IN  /\ stats.total = pass /\ painted = pass
                          /\ stats.density = <<pass, IF chosen.sized THEN chosen.number ELSE 0>>
                          /\ stats.leads = <<pass, stats.share>>
    BY DEF FigureTellsTheFilter
  <2> DEFINE all == {chosen.number} \X UNION {chosen.pages[k] : k \in DOMAIN chosen.pages}
             pass == IF touched THEN Passing(all, slide.thumbs) ELSE all
  <2>1. FilterTyped /\ SliderInv /\ ListedInv /\ FiguresInv
    BY DEF FilterInv
  <2>2. chosen.number \in Nat /\ chosen.pages \in Pages /\ chosen.sent \in Nat /\ slide \in Slides
    BY <2>1 DEF FilterTyped
  <2>3. chosen.sent > 0
    BY <2>2 DEF Pages
  <2>4. HousesSent = all
    <3>1. \A n \in Nat : \A p \in Pages : \A k \in Nat :
             k > Len(p) => Come(n, p, k) = {n} \X UNION {p[j] : j \in DOMAIN p}
      BY AllCome
    <3>2. Come(chosen.number, chosen.pages, chosen.sent) = all
      BY <2>2, <3>1
    <3>3. QED
      BY <3>2 DEF HousesSent
  <2>5. slide.rail # NoLimits /\ NaN \notin {slide.thumbs[1], slide.thumbs[2]}
    BY DEF Ruined, NoLimits
  <2>6. slide.range = slide.thumbs
    BY <2>1, <2>3, <2>5 DEF SliderInv
  <2> HIDE DEF all
  <2>7. /\ stats.list = all /\ outlines = all /\ painted = Passing(all, slide.thumbs)
        /\ stats.count = Passing(all, slide.thumbs) /\ stats.total = stats.count
        /\ slide.rail = LimitsOf(all)
    BY <2>1, <2>3, <2>4, <2>6 DEF ListedInv
  <2>8. Passing(all, slide.thumbs) = pass
    <3>1. CASE touched
      BY <3>1
    <3>2. CASE ~ touched
      <4>1. AtEnds(slide)
        BY <2>1, <3>2 DEF SliderInv
      <4>2. all \in SUBSET Houses /\ IsFiniteSet(all)
        BY <2>1, <2>7 DEF FilterTyped
      <4>3. Passing(all, slide.thumbs) = all
        BY <2>2, <2>5, <2>7, <4>1, <4>2, EndsPassAll
      <4>4. QED
        BY <3>2, <4>3
    <3>3. QED
      BY <3>1, <3>2
  <2> HIDE DEF pass
  <2>9. QED
    BY <2>1, <2>7, <2>8 DEF FiguresInv, pass, all
<1>2. QED
  BY <1>1, FilterInvariant, PTL
=============================================================================
