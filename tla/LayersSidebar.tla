--------------------------- MODULE LayersSidebar ----------------------------
(***************************************************************************)
(* The list of towers, sectors and areas beside the map, a row each with a *)
(* switch that hides it.  A tower hides and shows its sectors; a sector    *)
(* that is shown shows its tower, and the last one hidden hides it.  What  *)
(* is hidden is not selected.                                              *)
(*                                                                         *)
(* Whether a feature is hidden is a property of the map's feature; what a  *)
(* sector asks of its tower and of its siblings is whether their switches  *)
(* are on.  Rows come with the reply that stores a feature, go when it is  *)
(* deleted on the map; a deletion that is reverted does not bring it back. *)
(***************************************************************************)
EXTENDS Integers, FiniteSets

CONSTANTS Towers, Areas,
          OldSectors, MoreSectors,  \* there when the page is loaded, and to be added
          Whims                     \* what may happen together, and a bound on the user's turns

\* Features are deleted; sectors and areas are added; a click on a tower shows what it
\* hides; the sector popup's list selects hidden sectors; rows are deleted elsewhere.
Whim == {"delete", "add", "click", "popup", "elsewhere"}

ASSUME WhimsAssumption == Whims \subseteq (SUBSET Whim) \X Nat

\* An id is of one feature, of one kind.
ASSUME FeaturesAssumption ==
    /\ Towers \cap Areas = {} /\ (Towers \cup Areas) \cap (OldSectors \cup MoreSectors) = {}
    /\ OldSectors \cap MoreSectors = {}

VARIABLES
    whim,
    turns,  \* that are left to the user
    under,  \* AccessPointSector.ap
    layers, \* the map and the rows, see LayersLoaded
    posts,  \* features whose creation is on its way
    dels    \* features whose deletion is on its way
layerVars == <<whim, turns, under, layers, posts, dels>>

SectorsThen == OldSectors \cup MoreSectors
Feats == Towers \cup Areas \cup SectorsThen

LayersLoaded ==
    /\ LET there == Towers \cup OldSectors
       IN  layers = [drawn |-> there, rows |-> there, checked |-> there, hidden |-> {},
                     members |-> OldSectors,   \* AccessPoint.sectors, of all towers
                     selected |-> {}]
    /\ posts = {} /\ dels = {}

LayersInit ==
    /\ \E x \in Whims : whim = x[1] /\ turns = x[2]
    /\ under \in [SectorsThen -> Towers]
    /\ LayersLoaded

------------------------------------------------------------------------------
(* Visibility *)

SetChecked(l, f, visible) ==   \* of its row, if there is one
    [l EXCEPT !.checked = IF visible /\ f \in l.rows THEN @ \cup {f} ELSE @ \ {f}]

\* setMapboxVisibility
SetVisible(l, f, visible) ==
    SetChecked([l EXCEPT !.hidden = IF visible THEN @ \ {f} ELSE @ \cup {f},
                         !.selected = IF visible THEN @ ELSE @ \ {f}], f, visible)

SectorsOf(l, t) == {s \in l.members : under[s] = t}

SetAll(l, S, visible) ==
    LET on == S \cap l.rows
    IN  [l EXCEPT !.hidden = IF visible THEN @ \ S ELSE @ \cup S,
                  !.selected = IF visible THEN @ ELSE @ \ S,
                  !.checked = IF visible THEN @ \cup on ELSE @ \ S]

\* setFeatureVisibility, of a sector
SetSector_TowerStays(l, s, visible) ==
    LET q == SetVisible(l, s, visible)
        t == under[s]
    IN  IF visible /\ t \notin q.checked THEN SetVisible(q, t, TRUE) ELSE q

SetSector(l, s, visible) ==
    LET q == SetVisible(l, s, visible)
        t == under[s]
    IN  IF visible /\ t \notin q.checked THEN SetVisible(q, t, TRUE)
        ELSE IF SectorsOf(q, t) \cap q.checked = {} THEN SetVisible(q, t, FALSE)
        ELSE q

SetTower(l, t, visible) == SetAll(SetVisible(l, t, visible), SectorsOf(l, t), visible)

SetFeatureVisibility(l, f, visible) ==
    CASE f \in Towers -> SetTower(l, f, visible)
      [] f \in SectorsThen -> SetSector(l, f, visible)
      [] f \in Areas -> SetVisible(l, f, visible)

------------------------------------------------------------------------------
(* The user *)

Turn == turns > 0 /\ turns' = turns - 1 /\ UNCHANGED <<whim, under>>

\* The browser toggles the switch first.  The row of a feature that a read removed
\* from the map is still there: its handler throws.
ToggleRow(f) ==
    /\ Turn
    /\ f \in layers.rows
    /\ layers' = IF f \in layers.drawn
                 THEN SetFeatureVisibility(layers, f, f \in layers.hidden)
                 ELSE [layers EXCEPT !.checked = IF f \in @ THEN @ \ {f} ELSE @ \cup {f}]
    /\ UNCHANGED <<posts, dels>>

SelectFeatures(S) ==
    /\ Turn
    /\ S \in SUBSET layers.drawn
    /\ S \cap layers.hidden = {} \/ "popup" \in whim
    /\ S # layers.selected
    /\ layers' = [layers EXCEPT !.selected = S]
    /\ UNCHANGED <<posts, dels>>

\* AP_LAYER_CLICKED
ClickTower(t) ==
    /\ Turn
    /\ "click" \in whim
    /\ t \in layers.drawn \ layers.hidden
    /\ layers' = SetTower([layers EXCEPT !.selected = {t}], t, TRUE)
    /\ UNCHANGED <<posts, dels>>

\* On the map at once, and selected if an area; stored later.
AddFeature(f) ==
    /\ Turn
    /\ "add" \in whim
    /\ f \in (MoreSectors \cup Areas) \ (layers.drawn \cup posts \cup dels)
    /\ f \in MoreSectors => under[f] \in layers.drawn
    /\ layers' = [layers EXCEPT !.drawn = @ \cup {f},
                                !.selected = IF f \in Areas THEN {f} ELSE @]
    /\ posts' = posts \cup {f}
    /\ UNCHANGED dels

\* draw.delete, and what a tower or a sector then does to the other.
Erased(l, S) ==
    [l EXCEPT !.drawn = @ \ S, !.rows = @ \ S, !.checked = @ \ S, !.selected = @ \ S,
              !.hidden = @ \ S, !.members = @ \ S]

\* A tower takes the sectors it knows along.
DeleteFeature(f) ==
    LET gone == {f} \cup (IF f \in Towers THEN SectorsOf(layers, f) ELSE {})
    IN  /\ Turn
        /\ "delete" \in whim
        /\ f \in layers.drawn \ posts
        /\ layers' = Erased(layers, gone)
        /\ dels' = dels \cup gone
        /\ UNCHANGED posts

------------------------------------------------------------------------------
(* Replies *)

\* draw.update with action "read": a row that is missing is made, switched on.  That
\* of a sector is put after its tower's, or nowhere.
RowComes_AfterRead(l, f) == [l EXCEPT !.rows = @ \cup {f}, !.checked = @ \ l.hidden]

RowComes(l, f) ==
    IF f \in l.rows \/ (f \in SectorsThen /\ under[f] \notin l.rows) THEN l
    ELSE [l EXCEPT !.rows = @ \cup {f}, !.checked = @ \cup {f}]

Stored(f) ==
    /\ f \in posts
    /\ posts' = posts \ {f}
    /\ layers' = [RowComes(layers, f) EXCEPT !.members = @ \cup ({f} \cap SectorsThen)]
    /\ UNCHANGED <<whim, turns, under, dels>>

NotStored(f) ==
    /\ f \in posts
    /\ posts' = posts \ {f}
    /\ layers' = [layers EXCEPT !.drawn = @ \ {f}, !.selected = @ \ {f}]
    /\ UNCHANGED <<whim, turns, under, dels>>

\* An area that was not there is drawn again as it was at some time.
Removed(f) ==
    /\ f \in dels
    /\ dels' = dels \ {f}
    /\ \/ UNCHANGED layers
       \/ /\ "elsewhere" \in whim /\ f \in Areas
          /\ \E H \in SUBSET {f} :
                layers' = [layers EXCEPT !.drawn = @ \cup {f}, !.hidden = @ \cup H]
    /\ UNCHANGED <<whim, turns, under, posts>>

\* A row another view deleted is read: the tower drops its sectors, a sector leaves its
\* tower, and they themselves stay.
ReadMissing(f) ==
    LET gone == IF f \in Towers THEN SectorsOf(layers, f) ELSE {}
    IN  /\ "elsewhere" \in whim
        /\ f \in layers.drawn \ posts
        /\ layers' = [Erased(layers, gone) EXCEPT !.members = @ \ {f}]
        /\ layers' # layers
        /\ dels' = dels \cup gone
        /\ UNCHANGED <<whim, turns, under, posts>>

LayersNext ==
    \/ \E f \in Feats : ToggleRow(f) \/ AddFeature(f) \/ DeleteFeature(f)
    \/ \E S \in SUBSET layers.drawn : SelectFeatures(S)
    \/ \E t \in Towers : ClickTower(t)
    \/ \E f \in posts : Stored(f) \/ NotStored(f)
    \/ \E f \in dels : Removed(f)
    \/ \E f \in layers.drawn : ReadMissing(f)

LayersSpec == LayersInit /\ [][LayersNext]_layerVars

------------------------------------------------------------------------------
(* Properties *)

\* Every stored feature has its row and nothing else has one, except a sector stored
\* after its tower was deleted, and a row's switch is on exactly when its feature is
\* not hidden.  Nothing hidden is selected, or counted in the statistics of a selection,
\* unless the sector popup's list selects it.
RowsTellTheMap ==
    /\ "elsewhere" \notin whim =>
          /\ layers.rows = {f \in layers.drawn \ posts :
                              f \in SectorsThen => under[f] \in layers.drawn}
          /\ layers.checked = layers.rows \ layers.hidden
    /\ "popup" \notin whim => layers.selected \cap layers.hidden = {}

\* A tower with sectors is hidden exactly when they all are.
TowerGoesWithItsSectors ==
    whim \cap {"delete", "add", "elsewhere"} = {} =>
        \A t \in Towers : SectorsOf(layers, t) # {} =>
            (t \in layers.hidden <=> SectorsOf(layers, t) \subseteq layers.hidden)
=============================================================================
