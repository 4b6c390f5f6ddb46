---------------------------- MODULE LosPage_proofs ----------------------------
(***************************************************************************)
(* Theorems about the modules of the line-of-sight page, which share no    *)
(* state: the coverage's union, the profiles a link is shown, and how one  *)
(* such profile is put together from point clouds.                         *)
(***************************************************************************)
EXTENDS CoverageUnion, LinkProfile, LidarEngine, Inductions, SequenceTheorems, TLAPS

------------------------------------------------------------------------------
(***************************************************************************)
(* The rules of BuildingCoverage.union hold for any number of coverages of *)
(* any buildings.  The rules are a loop invariant, inductive together with *)
(* the type invariant: what they say of the coverages joined so far and    *)
(* one call of updateCoverageStatus give what they say with one more.      *)
(***************************************************************************)

UnionInv == TypeOK /\ UnionFollowsRules

(* A response lists buildings, each with a property.                       *)
LEMMA ResponseFacts ==
    ASSUME NEW resp \in Responses
    PROVE  /\ DOMAIN resp \subseteq Buildings
           /\ \A b \in DOMAIN resp : resp[b] \in Property
    BY DEF Responses

(* The constructor keeps the buildings and gives each a status.            *)
LEMMA ConstructorFacts ==
    ASSUME NEW resp \in Responses, NEW c, c = BuildingCoverage(resp)
    PROVE  /\ DOMAIN c = DOMAIN resp
           /\ \A b \in DOMAIN c :
                 /\ c[b] \in [feature : Property, status : Status]
                 /\ c[b].status = IF resp[b] = "null" THEN "unknown" ELSE resp[b]
    BY ResponseFacts DEF BuildingCoverage, Property, Status

(* The type invariant and the rules hold before the loop.                  *)
LEMMA UnionInit == Init => UnionInv
<1> SUFFICES ASSUME Init PROVE UnionInv
    OBVIOUS
<1>1. responses \in Seq(Responses)
  <2>1. PICK n \in 0 .. MaxCoverages : responses \in [1 .. n -> Responses]
      BY DEF Init
  <2> QED
      BY <2>1, MaxCoveragesAssumption
<1>2. DOMAIN union = {}
    BY DEF Init, BuildingCoverage, NoBuildings
<1> QED
    BY <1>1, <1>2 DEF Init, UnionInv, TypeOK, UnionFollowsRules, Listing

(* One more coverage: what Join leaves of a building, and what the rules   *)
(* ask of it then.                                                         *)
LEMMA JoinStep == UnionInv /\ JoinNext => UnionInv'
<1> SUFFICES ASSUME UnionInv, JoinNext PROVE UnionInv'
    OBVIOUS
<1> USE DEF UnionInv
<1> DEFINE k == done + 1
           resp == responses[k]
           c == BuildingCoverage(resp)
<1>1. /\ done \in Nat /\ k \in 1 .. Len(responses) /\ done' = k
      /\ responses' = responses /\ union' = Join(union, c)
    BY DEF JoinNext, TypeOK
<1>2. resp \in Responses
    BY <1>1 DEF TypeOK
<1>3. /\ DOMAIN resp \subseteq Buildings
      /\ \A b \in DOMAIN resp : resp[b] \in Property
    BY <1>2, ResponseFacts
<1>4. /\ DOMAIN c = DOMAIN resp
      /\ \A b \in DOMAIN c :
            /\ c[b] \in [feature : Property, status : Status]
            /\ c[b].status = IF resp[b] = "null" THEN "unknown" ELSE resp[b]
  <2> HIDE DEF resp
  <2> QED
      BY <1>2, ConstructorFacts
<1> HIDE DEF c
<1>5. DOMAIN union' = DOMAIN union \cup DOMAIN c
    BY <1>1 DEF Join
<1>6. \A b \in DOMAIN union' :
         union'[b] = IF b \notin DOMAIN c THEN union[b]
                     ELSE IF b \notin DOMAIN union THEN c[b]
                     ELSE [feature |-> c[b].feature,
                           status |-> updateCoverageStatus(union[b].status, c[b].status)]
    BY <1>1, <1>5 DEF Join
<1>7. \A s, t \in Status : updateCoverageStatus(s, t) \in Status
    BY DEF updateCoverageStatus, Status
<1>8. TypeOK'
  <2>1. responses' \in Seq(Responses) /\ done' \in 0 .. Len(responses')
      BY <1>1 DEF TypeOK
  <2>2. DOMAIN union' \subseteq Buildings
      BY <1>3, <1>4, <1>5 DEF TypeOK
  <2>3. ASSUME NEW b \in DOMAIN union'
        PROVE  union'[b] \in [feature : Property, status : Status]
    <3>1. CASE b \notin DOMAIN c
        BY <3>1, <1>5, <1>6 DEF TypeOK
    <3>2. CASE b \in DOMAIN c /\ b \notin DOMAIN union
        BY <3>2, <1>4, <1>6
    <3>3. CASE b \in DOMAIN c /\ b \in DOMAIN union
      <4>1. c[b].feature \in Property /\ c[b].status \in Status
          BY <3>3, <1>4
      <4>2. union[b].status \in Status
          BY <3>3 DEF TypeOK
      <4> QED
          BY <3>3, <4>1, <4>2, <1>6, <1>7
    <3> QED
        BY <3>1, <3>2, <3>3
  <2> QED
      BY <2>1, <2>2, <2>3 DEF TypeOK
<1>9. \A b : Listing(b)' = IF b \in DOMAIN c THEN Listing(b) \cup {k} ELSE Listing(b)
  <2>1. 1 .. k = (1 .. done) \cup {k}
      BY <1>1
  <2> QED
      BY <1>1, <1>4, <2>1 DEF Listing
<1>10. DOMAIN union' = {b \in Buildings : Listing(b)' # {}}
    BY <1>3, <1>4, <1>5, <1>9 DEF UnionFollowsRules
<1>11. ASSUME NEW b \in DOMAIN union'
       PROVE  union'[b].status = RuledStatus(b)'
  <2>1. CASE b \notin DOMAIN c
    <3>1. b \in DOMAIN union /\ union'[b] = union[b] /\ Listing(b)' = Listing(b)
        BY <2>1, <1>5, <1>6, <1>9
    <3>2. RuledStatus(b)' = RuledStatus(b)
        BY <3>1, <1>1 DEF RuledStatus
    <3> QED
        BY <3>1, <3>2 DEF UnionFollowsRules
  <2>2. CASE b \in DOMAIN c
    <3>1. Listing(b)' = Listing(b) \cup {k}
        BY <2>2, <1>9
    <3>2. /\ resp[b] \in Property
          /\ c[b].status = IF resp[b] = "null" THEN "unknown" ELSE resp[b]
        BY <2>2, <1>3, <1>4
    <3>3. CASE b \notin DOMAIN union
      <4>1. Listing(b) = {}
          BY <3>3, <2>2, <1>3, <1>4 DEF UnionFollowsRules
      <4>2. RuledStatus(b)' = IF resp[b] = "serviceable" THEN "serviceable"
                              ELSE IF resp[b] = "unserviceable" THEN "unserviceable"
                              ELSE "unknown"
          BY <4>1, <3>1, <1>1 DEF RuledStatus
      <4>3. union'[b].status = c[b].status
          BY <3>3, <2>2, <1>6
      <4> QED
          BY <4>2, <4>3, <3>2 DEF Property, Status
    <3>4. CASE b \in DOMAIN union
      <4>1. /\ union[b].status = RuledStatus(b)
            /\ Listing(b) # {}
            /\ union'[b].status = updateCoverageStatus(RuledStatus(b), c[b].status)
          BY <3>4, <2>2, <1>6 DEF UnionFollowsRules
      <4>2. RuledStatus(b)' =
              IF RuledStatus(b) = "serviceable" \/ resp[b] = "serviceable" THEN "serviceable"
              ELSE IF RuledStatus(b) = "unserviceable" /\ resp[b] = "unserviceable"
                   THEN "unserviceable"
              ELSE "unknown"
          BY <3>1, <1>1 DEF RuledStatus
      <4>3. RuledStatus(b) \in Status
          BY DEF RuledStatus, Status
      <4> QED
          BY <4>1, <4>2, <4>3, <3>2 DEF updateCoverageStatus, Property, Status
    <3> QED
        BY <3>3, <3>4
  <2> QED
      BY <2>1, <2>2
<1> QED
    BY <1>8, <1>10, <1>11, <1>1 DEF UnionFollowsRules

(* BuildingCoverage.union follows its rules on any coverages of any        *)
(* buildings, whatever their order and number.                             *)
THEOREM UnionCorrect == Spec => []UnionFollowsRules
<1>1. UnionInv /\ UNCHANGED vars => UnionInv'
    BY DEF UnionInv, TypeOK, UnionFollowsRules, Listing, RuledStatus, vars
<1>2. UnionInv /\ [Next]_vars => UnionInv'
    BY <1>1, JoinStep DEF Next
<1>3. UnionInv => UnionFollowsRules
    BY DEF UnionInv
<1> QED
    BY UnionInit, <1>2, <1>3, PTL DEF Spec

------------------------------------------------------------------------------
(***************************************************************************)
(* A link's profiles, for any links, lengths and number of requests.  The  *)
(* LiDAR tasks of a request are one chain, each finer than those before:   *)
(* a request is received once, in the order of their numbers, and a task   *)
(* that found a profile starts the next one and nothing else.              *)
(*                                                                         *)
(* A user who waits has one request under way at a time, always of the     *)
(* link selected, so that the callbacks, which compare no hashes, put      *)
(* together profiles of one link.  What they compute again and when is     *)
(* part of the invariant, since a chart may be shown before the last       *)
(* profile has come, again after a drawing was deleted, or without its     *)
(* terrain when an elevation service failed a zoom.                        *)
(***************************************************************************)

Request  == [n : 1 .. MaxLinkAsks, link : Links, zoom : BOOLEAN]
WorkTask == [kind : {"info", "terrain", "lidar"}, req : Request, asked : 0 .. ULTRA,
             res : 0 .. ULTRA, pc : {"start", "compute", "answer"}]
MaybeLink == Links \cup {NoLink}
Lidar     == [link : MaybeLink, res : 0 .. ULTRA]
Page      == [selected : MaybeLink, drawn : BOOLEAN,
              view : {"instructions", "loading", "chart", "error"}, elevation : MaybeLink,
              lidar : Lidar, verdict : MaybeLink \X Lidar, render : MaybeLink,
              dragging : BOOLEAN, asks : 0 .. MaxLinkAsks]

LinkTypeOK ==
    /\ patient \in BOOLEAN
    /\ page \in Page /\ (page.view = "chart" => page.selected # NoLink)
    /\ wire \in [open : BOOLEAN, pending : Request \cup {NoRequest}, up : Seq(Request)]
    /\ linkWork \subseteq WorkTask
    /\ cache \in [Links \X BOOLEAN -> 0 .. ULTRA]

\* Requests the consumer has not received.
Waiting == (IF wire.pending = NoRequest THEN {} ELSE {wire.pending})
             \cup {wire.up[i] : i \in 1 .. Len(wire.up)}

\* Requests are received in the order of their numbers, each once.
InOrder ==
    /\ wire.open => wire.pending = NoRequest
    /\ ~ wire.open => wire.up = <<>>
    /\ \A i, j \in 1 .. Len(wire.up) : i < j => wire.up[i].n < wire.up[j].n
    /\ \A r \in Waiting : r.n <= page.asks /\ \A t \in linkWork : t.req.n < r.n
    /\ \A t \in linkWork : t.req.n <= page.asks

\* The tasks of a request are of one request, and begin with one task.
OneStart ==
    /\ \A t, u \in linkWork : t.req.n = u.req.n => t.req = u.req
    /\ \A t, u \in linkWork : t.kind = "info" /\ t.req.n = u.req.n => t = u

\* What tasks carry.
Shaped(t) == IF t.kind = "lidar"
             THEN t.asked \in 1 .. Finest[Area(t)] /\ t.res \in 0 .. Finest[Area(t)]
             ELSE t = LinkTask(t.kind, t.req, 0)

\* Of two tasks of one request, the coarser one has its profile.
Finer(u) == IF u.pc = "answer" THEN u.res ELSE u.asked

Chained(t, u) == \/ t.pc = "answer" /\ t.res < Finer(u)
                 \/ u.pc = "answer" /\ u.res < Finer(t)

Chain == \A t, u \in linkWork :
            t.kind = "lidar" /\ u.kind = "lidar" /\ t # u /\ t.req.n = u.req.n => Chained(t, u)

CacheFits == \A a \in Links \X BOOLEAN : cache[a] <= Finest[a]

ChainInv ==
    /\ LinkTypeOK /\ InOrder /\ OneStart
    /\ \A t \in linkWork : Shaped(t)
    /\ Chain /\ CacheFits

\* A user who waits has one request under way, of the link that is selected.
OneAtATime ==
    \A r \in Waiting \cup {t.req : t \in linkWork} :
        r.n = page.asks /\ r.link = page.selected /\ ~ page.dragging

\* What was computed from the profiles is computed again with each.
VerdictIsOfBoth ==
    page.elevation # NoLink /\ page.lidar # NoLidar => page.verdict = <<page.elevation, page.lidar>>

\* The profiles the page has are of the link selected ...
OfTheSelected ==
    page.drawn /\ ~ page.dragging /\ page.selected # NoLink =>
        /\ page.elevation \in {NoLink, page.selected}
        /\ page.lidar # NoLidar => page.lidar.link = page.selected /\ page.render = page.selected

\* ... and when they are shown both are there, or were until a zoom found no terrain:
\* what was computed from them before is of the link selected too.
ShownIsThere ==
    page.view = "chart" =>
        /\ page.drawn /\ ~ page.dragging /\ page.asks > 0 /\ page.lidar # NoLidar
        /\ page.elevation = NoLink => unanswered # {}
        /\ page.verdict[1] = page.selected /\ page.verdict[2].link = page.selected

PatientInv == ChainInv /\ VerdictIsOfBoth
                /\ (patient => OneAtATime /\ OfTheSelected /\ ShownIsThere)

------------------------------------------------------------------------------
(* Requests and answers *)

\* A request is not the empty one, and a profile not none.
LEMMA RequestsAreThere ==
    /\ \A r \in Request : r # NoRequest /\ r.link # NoLink /\ r.link \in Links
    /\ NoLidar \in Lidar /\ \A p \in Lidar : p.link # NoLink => p # NoLidar
    /\ NoLink \notin Links
  BY LinksAssumption DEF Request, NoRequest, NoLidar, Lidar, MaybeLink, ULTRA

\* What is computed from both profiles, and shown when both are there.
LEMMA RefreshedIs ==
    ASSUME NEW p \in Page, NEW q, q = Shown(Judged(p))
    PROVE  /\ q \in Page
           /\ q.selected = p.selected /\ q.drawn = p.drawn /\ q.elevation = p.elevation
           /\ q.lidar = p.lidar /\ q.render = p.render /\ q.dragging = p.dragging /\ q.asks = p.asks
           /\ q.verdict = IF p.elevation # NoLink /\ p.lidar # NoLidar THEN <<p.elevation, p.lidar>>
                                                                       ELSE p.verdict
           /\ q.view = IF p.elevation # NoLink /\ p.lidar # NoLidar /\ p.selected # NoLink /\ p.drawn
                       THEN "chart" ELSE p.view
<1> DEFINE j == Judged(p)
<1>1. /\ j \in Page
      /\ j.selected = p.selected /\ j.drawn = p.drawn /\ j.elevation = p.elevation
      /\ j.lidar = p.lidar /\ j.render = p.render /\ j.dragging = p.dragging /\ j.asks = p.asks
      /\ j.view = p.view
      /\ j.verdict = IF p.elevation # NoLink /\ p.lidar # NoLidar THEN <<p.elevation, p.lidar>>
                                                                  ELSE p.verdict
  <2>1. CASE p.elevation # NoLink /\ p.lidar # NoLidar
    <3>1. j = [p EXCEPT !.verdict = <<p.elevation, p.lidar>>]
      BY <2>1 DEF Judged
    <3>2. <<p.elevation, p.lidar>> \in MaybeLink \X Lidar
      BY DEF Page
    <3>3. QED
      BY <2>1, <3>1, <3>2 DEF Page
  <2>2. CASE ~ (p.elevation # NoLink /\ p.lidar # NoLidar)
    <3>1. j = p
      BY <2>2 DEF Judged
    <3>2. QED
      BY <2>2, <3>1
  <2>3. QED
    BY <2>1, <2>2
<1>0. q = Shown(j)
  OBVIOUS
<1> HIDE DEF j
<1>2. /\ q \in Page
      /\ q.selected = j.selected /\ q.drawn = j.drawn /\ q.elevation = j.elevation
      /\ q.lidar = j.lidar /\ q.render = j.render /\ q.dragging = j.dragging /\ q.asks = j.asks
      /\ q.verdict = j.verdict
      /\ q.view = IF j.elevation # NoLink /\ j.lidar # NoLidar /\ j.selected # NoLink /\ j.drawn
                  THEN "chart" ELSE j.view
  <2>1. CASE j.lidar # NoLidar /\ j.elevation # NoLink /\ j.selected # NoLink /\ j.drawn
    <3>1. q = [j EXCEPT !.view = "chart"]
      BY <1>0, <2>1 DEF Shown
    <3>2. QED
      BY <1>1, <2>1, <3>1 DEF Page
  <2>2. CASE ~ (j.lidar # NoLidar /\ j.elevation # NoLink /\ j.selected # NoLink /\ j.drawn)
    <3>1. q = j
      BY <1>0, <2>2 DEF Shown
    <3>2. QED
      BY <1>1, <2>2, <3>1
  <2>3. QED
    BY <2>1, <2>2
<1>3. QED
  BY <1>1, <1>2

\* The terrain profile comes, or an error in its place.
LEMMA TerrainIs ==
    ASSUME page \in Page, NEW r \in Request, NEW res, NEW error \in BOOLEAN,
           page' = PageAfter([handler |-> "terrain", req |-> r, res |-> res, error |-> error])
    PROVE  /\ page' \in Page
           /\ page'.selected = page.selected /\ page'.drawn = page.drawn
           /\ page'.lidar = page.lidar /\ page'.render = page.render
           /\ page'.dragging = page.dragging /\ page'.asks = page.asks
           /\ page'.elevation \in {r.link, page.elevation} \/ (error /\ page'.elevation = NoLink)
           /\ page'.verdict = IF page'.elevation # NoLink /\ page'.lidar # NoLidar
                              THEN <<page'.elevation, page'.lidar>> ELSE page.verdict
           /\ page'.view = IF page'.elevation # NoLink /\ page'.lidar # NoLidar
                                /\ page'.selected # NoLink /\ page'.drawn
                           THEN "chart" ELSE page.view
<1> DEFINE e == IF error THEN NoLink ELSE IF r.zoom THEN page.elevation ELSE r.link
           p == [page EXCEPT !.elevation = e]
<1>1. e \in MaybeLink /\ (e \in {r.link, page.elevation} \/ (error /\ e = NoLink))
  BY RequestsAreThere DEF Page, MaybeLink
<1>2. page' = Shown(Judged(p))
  <2>1. (IF error THEN [page EXCEPT !.elevation = NoLink]
         ELSE IF r.zoom THEN page ELSE [page EXCEPT !.elevation = r.link]) = p
    BY DEF Page
  <2>2. page' = TerrainCallback([handler |-> "terrain", req |-> r, res |-> res, error |-> error])
    BY DEF PageAfter
  <2>3. QED
    BY <2>1, <2>2 DEF TerrainCallback
<1> HIDE DEF e
<1>3. /\ p \in Page /\ p.elevation = e
      /\ p.selected = page.selected /\ p.drawn = page.drawn /\ p.lidar = page.lidar
      /\ p.render = page.render /\ p.dragging = page.dragging /\ p.asks = page.asks
      /\ p.verdict = page.verdict /\ p.view = page.view
  BY <1>1 DEF Page
<1> HIDE DEF p
<1>4. /\ page' \in Page
      /\ page'.selected = p.selected /\ page'.drawn = p.drawn /\ page'.elevation = p.elevation
      /\ page'.lidar = p.lidar /\ page'.render = p.render
      /\ page'.dragging = p.dragging /\ page'.asks = p.asks
      /\ page'.verdict = IF p.elevation # NoLink /\ p.lidar # NoLidar THEN <<p.elevation, p.lidar>>
                                                                      ELSE p.verdict
      /\ page'.view = IF p.elevation # NoLink /\ p.lidar # NoLidar /\ p.selected # NoLink /\ p.drawn
                      THEN "chart" ELSE p.view
  BY <1>2, <1>3, RefreshedIs
<1>5. QED
  BY <1>1, <1>3, <1>4

\* A profile from the point clouds comes ...
LEMMA LidarIs ==
    ASSUME page \in Page, NEW r \in Request, NEW res \in 0 .. ULTRA,
           page' = PageAfter([handler |-> "lidar", req |-> r, res |-> res, error |-> FALSE])
    PROVE  /\ page' \in Page
           /\ page'.selected = page.selected /\ page'.drawn = page.drawn
           /\ page'.elevation = page.elevation
           /\ page'.dragging = page.dragging /\ page'.asks = page.asks
           /\ \/ page'.lidar = page.lidar /\ page'.render = page.render
              \/ /\ page'.lidar = [link |-> r.link, res |-> res]
                 /\ page'.render = IF page.drawn THEN r.link ELSE page.render
           /\ page'.verdict = IF page'.elevation # NoLink /\ page'.lidar # NoLidar
                              THEN <<page'.elevation, page'.lidar>> ELSE page.verdict
           /\ page'.view = IF page'.elevation # NoLink /\ page'.lidar # NoLidar
                                /\ page'.selected # NoLink /\ page'.drawn
                           THEN "chart" ELSE page.view
<1> DEFINE p == IF r.zoom THEN page
                ELSE [page EXCEPT !.lidar = [link |-> r.link, res |-> res],
                                  !.render = IF page.drawn THEN r.link ELSE @]
<1>1. page' = Shown(Judged(p))
  <2>1. page' = LidarCallback([handler |-> "lidar", req |-> r, res |-> res, error |-> FALSE])
    BY DEF PageAfter
  <2>2. QED
    BY <2>1 DEF LidarCallback
<1>2. /\ p \in Page
      /\ p.selected = page.selected /\ p.drawn = page.drawn /\ p.elevation = page.elevation
      /\ p.dragging = page.dragging /\ p.asks = page.asks
      /\ p.verdict = page.verdict /\ p.view = page.view
      /\ \/ p.lidar = page.lidar /\ p.render = page.render
         \/ /\ p.lidar = [link |-> r.link, res |-> res]
            /\ p.render = IF page.drawn THEN r.link ELSE page.render
  <2>1. CASE r.zoom
    BY <2>1
  <2>2. CASE ~ r.zoom
    <3>1. [link |-> r.link, res |-> res] \in Lidar /\ r.link \in MaybeLink
      BY RequestsAreThere DEF Lidar, MaybeLink
    <3>2. p = [page EXCEPT !.lidar = [link |-> r.link, res |-> res],
                           !.render = IF page.drawn THEN r.link ELSE page.render]
      BY <2>2 DEF Page
    <3>3. QED
      BY <3>1, <3>2 DEF Page
  <2>3. QED
    BY <2>1, <2>2
<1> HIDE DEF p
<1>3. /\ page' \in Page
      /\ page'.selected = p.selected /\ page'.drawn = p.drawn /\ page'.elevation = p.elevation
      /\ page'.lidar = p.lidar /\ page'.render = p.render
      /\ page'.dragging = p.dragging /\ page'.asks = p.asks
      /\ page'.verdict = IF p.elevation # NoLink /\ p.lidar # NoLidar THEN <<p.elevation, p.lidar>>
                                                                      ELSE p.verdict
      /\ page'.view = IF p.elevation # NoLink /\ p.lidar # NoLidar /\ p.selected # NoLink /\ p.drawn
                      THEN "chart" ELSE p.view
  BY <1>1, <1>2, RefreshedIs
<1>4. QED
  BY <1>2, <1>3

\* ... or none, or a refusal.
LEMMA ErrorIs ==
    ASSUME page \in Page, NEW r \in Request, NEW res, NEW kind \in {"lidar", "link"},
           page' = PageAfter([handler |-> kind, req |-> r, res |-> res, error |-> TRUE])
    PROVE  /\ page' \in Page
           /\ page'.drawn = page.drawn /\ page'.elevation = page.elevation
           /\ page'.lidar = page.lidar /\ page'.render = page.render
           /\ page'.dragging = page.dragging /\ page'.asks = page.asks
           /\ page'.verdict = page.verdict /\ page'.view = "error"
           /\ page'.selected = IF kind = "link" THEN NoLink ELSE page.selected
<1>1. CASE kind = "lidar"
  <2>1. page' = LidarCallback([handler |-> kind, req |-> r, res |-> res, error |-> TRUE])
    BY <1>1 DEF PageAfter
  <2>2. page' = [page EXCEPT !.view = "error"]
    BY <2>1 DEF LidarCallback
  <2>3. QED
    BY <1>1, <2>2 DEF Page
<1>2. CASE kind = "link"
  <2>1. page' = LinkCallback([handler |-> kind, req |-> r, res |-> res, error |-> TRUE])
    BY <1>2 DEF PageAfter
  <2>2. page' = [page EXCEPT !.selected = NoLink, !.view = "error"]
    BY <2>1 DEF LinkCallback
  <2>3. QED
    BY <1>2, <2>2 DEF Page, MaybeLink
<1>3. QED
  BY <1>1, <1>2

------------------------------------------------------------------------------
(* The tasks *)

\* A task leaves others of its request behind, finer than what was there.
LEMMA WorkKeeps ==
    ASSUME ChainInv, NEW t \in linkWork, NEW more \in SUBSET WorkTask,
           linkWork' = (linkWork \ {t}) \cup more,
           \A u \in more : u.req = t.req /\ Shaped(u) /\ u.kind # "info",
           \A u, v \in more : u.kind = "lidar" /\ v.kind = "lidar" /\ u # v => Chained(u, v),
           \A u \in more, v \in linkWork \ {t} :
               u.kind = "lidar" /\ v.kind = "lidar" /\ v.req.n = t.req.n => u = v \/ Chained(u, v),
           UNCHANGED <<patient, wire>>,
           page' \in Page, page'.view = "chart" => page'.selected # NoLink,
           page'.asks = page.asks,
           cache' \in [Links \X BOOLEAN -> 0 .. ULTRA],
           \A a \in Links \X BOOLEAN : cache'[a] <= Finest[a]
    PROVE  ChainInv'
<1>1. LinkTypeOK'
  BY DEF ChainInv, LinkTypeOK
<1>2. Waiting' = Waiting
  BY DEF Waiting
<1>3. InOrder'
  <2>1. InOrder
    BY DEF ChainInv
  <2>2. \A u \in linkWork' : \E v \in linkWork : u.req = v.req
    OBVIOUS
  <2>3. QED
    BY <1>2, <2>1, <2>2 DEF InOrder
<1>4. OneStart'
  <2>1. OneStart
    BY DEF ChainInv
  <2>2. \A u \in linkWork' : \E v \in linkWork : u.req = v.req
    OBVIOUS
  <2>3. \A u, v \in linkWork' : u.req.n = v.req.n => u.req = v.req
    BY <2>1, <2>2 DEF OneStart
  <2>4. ASSUME NEW u \in linkWork', NEW v \in linkWork', u.kind = "info", u.req.n = v.req.n
        PROVE  u = v
    BY <2>1, <2>4 DEF OneStart
  <2>5. QED
    BY <2>3, <2>4 DEF OneStart
<1>5. \A u \in linkWork' : Shaped(u)'
  <2>1. \A u \in linkWork' : Shaped(u)
    BY DEF ChainInv
  <2>2. QED
    BY <2>1 DEF Shaped
<1>6. Chain'
  <2>1. SUFFICES ASSUME NEW u \in linkWork', NEW v \in linkWork', u.kind = "lidar", v.kind = "lidar",
                        u # v, u.req.n = v.req.n
                 PROVE  Chained(u, v)
    BY DEF Chain, Chained
  <2>2. Chain
    BY DEF ChainInv
  <2>3. CASE u \in more /\ v \in more
    BY <2>1, <2>3
  <2>4. CASE u \in more /\ v \notin more
    BY <2>1, <2>4
  <2>5. CASE u \notin more /\ v \in more
    <3>1. Chained(v, u)
      BY <2>1, <2>5
    <3>2. QED
      BY <3>1 DEF Chained
  <2>6. CASE u \notin more /\ v \notin more
    BY <2>1, <2>2, <2>6 DEF Chain
  <2>7. QED
    BY <2>3, <2>4, <2>5, <2>6
<1>7. CacheFits'
  BY DEF CacheFits
<1>8. QED
  BY <1>1, <1>3, <1>4, <1>5, <1>6, <1>7 DEF ChainInv

\* What is known of a task.
LEMMA WorkIs ==
    ASSUME ChainInv, NEW t \in linkWork
    PROVE  /\ t \in WorkTask /\ Shaped(t) /\ t.req \in Request /\ Area(t) \in Links \X BOOLEAN
           /\ page \in Page /\ (page.view = "chart" => page.selected # NoLink)
           /\ linkWork \subseteq WorkTask /\ cache \in [Links \X BOOLEAN -> 0 .. ULTRA] /\ CacheFits
           /\ \A a \in Links \X BOOLEAN : Finest[a] \in 0 .. ULTRA
  BY LinksAssumption DEF ChainInv, LinkTypeOK, WorkTask, Request, Area

\* A user who waits has nothing under way but the tasks of one request.
LEMMA OnlyThese ==
    ASSUME ChainInv, OneAtATime, NEW t \in linkWork
    PROVE  Waiting = {} /\ \A u \in linkWork : u.req = t.req
<1>1. ASSUME NEW r \in Waiting PROVE FALSE
  <2>1. t.req.n < r.n /\ r.n = page.asks /\ t.req.n = page.asks
    BY DEF ChainInv, InOrder, OneAtATime
  <2>2. page.asks \in Nat
    BY DEF ChainInv, LinkTypeOK, Page
  <2>3. QED
    BY <2>1, <2>2
<1>2. QED
  BY <1>1 DEF ChainInv, OneStart, OneAtATime

\* Answers keep what a user who waits is shown.
LEMMA AnswersKeep ==
    ASSUME ChainInv, VerdictIsOfBoth, patient => OneAtATime /\ OfTheSelected /\ ShownIsThere,
           NEW t \in linkWork, NEW more, linkWork' = (linkWork \ {t}) \cup more,
           \A u \in more : u.req = t.req, UNCHANGED <<patient, wire>>,
           page' \in Page, page'.asks = page.asks, page'.dragging = page.dragging,
           patient /\ page'.selected # page.selected => linkWork' = {},
           VerdictIsOfBoth',
           patient /\ ~ page.dragging /\ t.req.link = page.selected /\ OneAtATime /\ OfTheSelected
              => OfTheSelected' /\ (ShownIsThere => ShownIsThere'),
           ChainInv'
    PROVE  PatientInv'
<1> SUFFICES ASSUME patient PROVE OneAtATime' /\ OfTheSelected' /\ ShownIsThere'
  BY DEF PatientInv
<1>1. Waiting = {} /\ Waiting' = Waiting /\ \A u \in linkWork : u.req = t.req
  BY OnlyThese DEF Waiting
<1>2. t.req.n = page.asks /\ t.req.link = page.selected /\ ~ page.dragging
  BY DEF OneAtATime
<1>3. OneAtATime'
  <2>1. \A u \in linkWork' : u.req = t.req
    BY <1>1
  <2>2. QED
    BY <1>1, <1>2, <2>1 DEF OneAtATime
<1>4. QED
  BY <1>2, <1>3

\* A task that leaves nothing behind.
LEMMA WorkEnds ==
    ASSUME ChainInv, NEW t \in linkWork, linkWork' = linkWork \ {t},
           UNCHANGED <<patient, wire, cache>>,
           page' \in Page, page'.view = "chart" => page'.selected # NoLink,
           page'.asks = page.asks
    PROVE  ChainInv'
<1> DEFINE more == {}
<1>1. more \in SUBSET WorkTask /\ linkWork' = (linkWork \ {t}) \cup more
  OBVIOUS
<1>2. \A u \in more : FALSE
  OBVIOUS
<1>3. cache' \in [Links \X BOOLEAN -> 0 .. ULTRA] /\ \A a \in Links \X BOOLEAN : cache'[a] <= Finest[a]
  BY WorkIs DEF CacheFits
<1>4. UNCHANGED <<patient, wire>>
  OBVIOUS
<1> HIDE DEF more
<1>5. QED
  BY <1>1, <1>2, <1>3, <1>4, WorkKeeps

\* An answer of a task that leaves nothing behind.
LEMMA LastAnswersKeep ==
    ASSUME ChainInv, VerdictIsOfBoth, patient => OneAtATime /\ OfTheSelected /\ ShownIsThere,
           NEW t \in linkWork, linkWork' = linkWork \ {t}, UNCHANGED <<patient, wire, cache>>,
           page' \in Page, page'.view = "chart" => page'.selected # NoLink,
           page'.asks = page.asks, page'.dragging = page.dragging,
           patient /\ page'.selected # page.selected => linkWork' = {},
           VerdictIsOfBoth',
           patient /\ ~ page.dragging /\ t.req.link = page.selected /\ OneAtATime /\ OfTheSelected
              => OfTheSelected' /\ (ShownIsThere => ShownIsThere')
    PROVE  PatientInv'
<1> DEFINE more == {}
<1>1. linkWork' = (linkWork \ {t}) \cup more /\ \A u \in more : FALSE
  OBVIOUS
<1>2. ChainInv'
  BY WorkEnds
<1>3. UNCHANGED <<patient, wire>>
  OBVIOUS
<1> HIDE DEF more
<1>4. QED
  BY <1>1, <1>2, <1>3, AnswersKeep

\* A profile that comes, or is lost, while the chart is shown or makes it shown.
LEMMA ShownKeeps ==
    ASSUME page \in Page, page' \in Page, page.asks > 0, OfTheSelected', ShownIsThere,
           page'.selected = page.selected, page'.drawn = page.drawn,
           page'.dragging = page.dragging, page'.asks = page.asks,
           page'.drawn /\ page'.selected # NoLink => ~ page.dragging,
           page.lidar # NoLidar => page'.lidar # NoLidar,
           page'.elevation = NoLink =>
              unanswered' # {} \/ (page.elevation = NoLink /\ unanswered' = unanswered),
           page'.verdict = IF page'.elevation # NoLink /\ page'.lidar # NoLidar
                           THEN <<page'.elevation, page'.lidar>> ELSE page.verdict,
           page'.view = IF page'.elevation # NoLink /\ page'.lidar # NoLidar
                             /\ page'.selected # NoLink /\ page'.drawn
                        THEN "chart" ELSE page.view,
           page.view = "chart" => page.selected # NoLink
    PROVE  ShownIsThere'
<1> SUFFICES ASSUME page'.view = "chart" PROVE ShownIsThere'
  BY DEF ShownIsThere
<1>1. page'.drawn /\ page'.selected # NoLink /\ ~ page'.dragging /\ page'.lidar # NoLidar
  BY DEF ShownIsThere
<1>2. CASE page'.elevation # NoLink
  <2>1. page'.verdict = <<page'.elevation, page'.lidar>>
    BY <1>1, <1>2
  <2>2. page'.elevation = page'.selected /\ page'.lidar.link = page'.selected
    BY <1>1, <1>2 DEF OfTheSelected
  <2>3. QED
    BY <1>1, <1>2, <2>1, <2>2 DEF ShownIsThere
<1>3. CASE page'.elevation = NoLink
  <2>1. page.view = "chart" /\ page'.verdict = page.verdict
    BY <1>3
  <2>2. QED
    BY <1>1, <1>3, <2>1 DEF ShownIsThere
<1>4. QED
  BY <1>2, <1>3

\* getLinkInfo starts both, or refuses the link.
LEMMA GetLinkInfoKeeps ==
    ASSUME PatientInv, NEW t \in linkWork, GetLinkInfo(t)
    PROVE  PatientInv'
<1>1. /\ ChainInv /\ VerdictIsOfBoth /\ t.kind = "info"
      /\ UNCHANGED <<patient, wire, cache, unanswered>>
      /\ patient => OneAtATime /\ OfTheSelected /\ ShownIsThere
  BY DEF PatientInv, GetLinkInfo
<1>2. /\ t \in WorkTask /\ t.req \in Request /\ Area(t) \in Links \X BOOLEAN
      /\ page \in Page /\ (page.view = "chart" => page.selected # NoLink)
      /\ cache \in [Links \X BOOLEAN -> 0 .. ULTRA] /\ CacheFits
      /\ \A a \in Links \X BOOLEAN : Finest[a] \in 0 .. ULTRA
  BY <1>1, WorkIs
<1>3. \A v \in linkWork : v.req.n = t.req.n => v = t
  BY <1>1 DEF ChainInv, OneStart
<1>4. \A a \in Links \X BOOLEAN : cache'[a] <= Finest[a]
  BY <1>1, <1>2 DEF CacheFits
<1>5. CASE /\ Finest[<<t.req.link, FALSE>>] > 0 /\ UNCHANGED page
           /\ linkWork' = (linkWork \ {t}) \cup {LinkTask("terrain", t.req, 0),
                                                 LinkTask("lidar", t.req, LOW)}
  <2> DEFINE more == {LinkTask("terrain", t.req, 0), LinkTask("lidar", t.req, LOW)}
  <2>1. more \in SUBSET WorkTask /\ \A u \in more : u.req = t.req /\ u.kind # "info"
    BY <1>2 DEF LinkTask, WorkTask, LOW, ULTRA
  <2>2. LOW \in 1 .. Finest[Area(t)] /\ 0 \in 0 .. Finest[Area(t)]
    <3>1. t.req.link \in Links /\ t.req.zoom \in BOOLEAN
      BY <1>2 DEF Request
    <3>2. Finest[<<t.req.link, FALSE>>] <= Finest[<<t.req.link, TRUE>>]
      BY <3>1, LinksAssumption
    <3>3. /\ Finest[<<t.req.link, FALSE>>] \in 0 .. ULTRA /\ Finest[<<t.req.link, TRUE>>] \in 0 .. ULTRA
          /\ Area(t) \in {<<t.req.link, FALSE>>, <<t.req.link, TRUE>>}
      BY <1>2, <3>1 DEF Area
    <3>4. Finest[<<t.req.link, FALSE>>] >= 1 /\ Finest[<<t.req.link, TRUE>>] >= 1
      BY <1>5, <3>2, <3>3 DEF ULTRA
    <3>5. Finest[Area(t)] \in 0 .. ULTRA /\ Finest[Area(t)] >= 1
      BY <3>3, <3>4
    <3>6. QED
      BY <3>5 DEF LOW, ULTRA
  <2>3. \A u \in more : Shaped(u)
    BY <2>2 DEF Shaped, LinkTask, Area
  <2>4. \A u, v \in more : u.kind = "lidar" /\ v.kind = "lidar" => u = v
    BY DEF LinkTask
  <2> HIDE DEF more
  <2>5. linkWork' = (linkWork \ {t}) \cup more
    BY <1>5 DEF more
  <2>6. ChainInv'
    <3>1. \A u \in more, v \in linkWork \ {t} :
             u.kind = "lidar" /\ v.kind = "lidar" /\ v.req.n = t.req.n => u = v \/ Chained(u, v)
      BY <1>3
    <3>2. /\ page' \in Page /\ (page'.view = "chart" => page'.selected # NoLink)
          /\ page'.asks = page.asks /\ cache' \in [Links \X BOOLEAN -> 0 .. ULTRA]
          /\ UNCHANGED <<patient, wire>>
      BY <1>1, <1>2, <1>5
    <3>3. \A u, v \in more : u.kind = "lidar" /\ v.kind = "lidar" /\ u # v => Chained(u, v)
      BY <2>4
    <3>4. QED
      BY <1>1, <1>4, <2>1, <2>3, <2>5, <3>1, <3>2, <3>3, WorkKeeps
  <2>7. /\ VerdictIsOfBoth'
        /\ OfTheSelected => OfTheSelected'
        /\ ShownIsThere => ShownIsThere'
    BY <1>1, <1>5 DEF VerdictIsOfBoth, OfTheSelected, ShownIsThere
  <2>8. QED
    BY <1>1, <1>2, <1>5, <2>1, <2>5, <2>6, <2>7, AnswersKeep
<1>6. CASE linkWork' = linkWork \ {t} /\ GroupSend(t, "link", 0, TRUE)
  <2>1. /\ page' \in Page /\ page'.asks = page.asks /\ page'.dragging = page.dragging
        /\ page'.drawn = page.drawn /\ page'.elevation = page.elevation
        /\ page'.lidar = page.lidar /\ page'.render = page.render /\ page'.verdict = page.verdict
        /\ \/ page'.selected = page.selected /\ page'.view = page.view
           \/ page'.selected = NoLink /\ page'.view = "error"
    BY <1>2, <1>6, ErrorIs DEF GroupSend
  <2>2. page'.view = "chart" => page'.selected # NoLink
    BY <1>2, <2>1
  <2>4. /\ VerdictIsOfBoth'
        /\ OfTheSelected => OfTheSelected'
        /\ ShownIsThere => ShownIsThere'
    BY <1>1, <2>1 DEF VerdictIsOfBoth, OfTheSelected, ShownIsThere
  <2>5. patient => linkWork' = {}
    BY <1>1, <1>3, <1>6, OnlyThese
  <2>6. QED
    BY <1>1, <1>6, <2>1, <2>2, <2>4, <2>5, LastAnswersKeep
<1>7. QED
  BY <1>5, <1>6 DEF GetLinkInfo

\* The terrain, or nothing in its place.
LEMMA GetTerrainProfileKeeps ==
    ASSUME PatientInv, NEW t \in linkWork, GetTerrainProfile(t)
    PROVE  PatientInv'
<1>1. /\ ChainInv /\ VerdictIsOfBoth /\ t.kind = "terrain" /\ UNCHANGED <<patient, wire, cache>>
      /\ patient => OneAtATime /\ OfTheSelected /\ ShownIsThere
      /\ linkWork' = linkWork \ {t}
  BY DEF PatientInv, GetTerrainProfile
<1>2. /\ t \in WorkTask /\ Shaped(t) /\ t.req \in Request
      /\ page \in Page /\ (page.view = "chart" => page.selected # NoLink)
      /\ cache \in [Links \X BOOLEAN -> 0 .. ULTRA] /\ CacheFits
      /\ linkWork \subseteq WorkTask
  BY <1>1, WorkIs
<1>3. 1 .. page.asks # {} /\ page.asks > 0
  BY <1>1, <1>2 DEF ChainInv, InOrder, Request, Page
<1>4. PICK error \in BOOLEAN : /\ GroupSend(t, "terrain", 0, error)
                              /\ unanswered' = IF error THEN 1 .. page.asks ELSE unanswered
  BY DEF GetTerrainProfile
<1>5. CASE ~ wire.open
  <2>1. page' = page
    BY <1>4, <1>5 DEF GroupSend
  <2>3. /\ VerdictIsOfBoth'
        /\ OfTheSelected => OfTheSelected'
        /\ ShownIsThere => ShownIsThere'
    BY <1>1, <1>3, <1>4, <2>1 DEF VerdictIsOfBoth, OfTheSelected, ShownIsThere
  <2>4. QED
    BY <1>1, <1>2, <2>1, <2>3, LastAnswersKeep
<1>6. CASE wire.open
  <2>1. /\ page' \in Page
        /\ page'.selected = page.selected /\ page'.drawn = page.drawn
        /\ page'.lidar = page.lidar /\ page'.render = page.render
        /\ page'.dragging = page.dragging /\ page'.asks = page.asks
        /\ page'.elevation \in {t.req.link, page.elevation} \/ (error /\ page'.elevation = NoLink)
        /\ page'.verdict = IF page'.elevation # NoLink /\ page'.lidar # NoLidar
                           THEN <<page'.elevation, page'.lidar>> ELSE page.verdict
        /\ page'.view = IF page'.elevation # NoLink /\ page'.lidar # NoLidar
                             /\ page'.selected # NoLink /\ page'.drawn
                        THEN "chart" ELSE page.view
    BY <1>2, <1>4, <1>6, TerrainIs DEF GroupSend
  <2>3. VerdictIsOfBoth'
    BY <2>1 DEF VerdictIsOfBoth
  <2>4. ASSUME ~ page.dragging, t.req.link = page.selected, OneAtATime, OfTheSelected
        PROVE  OfTheSelected' /\ (ShownIsThere => ShownIsThere')
    <3>1. OfTheSelected'
      BY <2>1, <2>4 DEF OfTheSelected
    <3>2. ShownIsThere => ShownIsThere'
      <4>1. page'.elevation = NoLink =>
               unanswered' # {} \/ (page.elevation = NoLink /\ unanswered' = unanswered)
        <5>1. CASE error
          BY <1>3, <1>4, <5>1
        <5>2. CASE ~ error
          <6>1. t.req.link # NoLink
            BY <1>2, RequestsAreThere
          <6>2. QED
            BY <1>4, <2>1, <5>2, <6>1
        <5>3. QED
          BY <5>1, <5>2
      <4>2. QED
        BY <1>2, <1>3, <2>1, <2>4, <3>1, <4>1, ShownKeeps
    <3>3. QED
      BY <3>1, <3>2
  <2>6. QED
    BY <1>1, <1>2, <2>1, <2>3, <2>4, LastAnswersKeep
<1>7. QED
  BY <1>5, <1>6

\* A profile that is found, and the finer one that is asked for, are finer than those found.
LEMMA FoundProfileKeeps ==
    ASSUME PatientInv, NEW t \in linkWork, t.kind = "lidar", t.pc # "answer",
           NEW res \in t.asked .. Finest[Area(t)], FoundProfile(t, res),
           UNCHANGED <<patient, wire, page, unanswered>>,
           cache' \in [Links \X BOOLEAN -> 0 .. ULTRA],
           \A a \in Links \X BOOLEAN : cache'[a] <= Finest[a]
    PROVE  PatientInv'
<1> DEFINE found == [t EXCEPT !.res = res, !.pc = "answer"]
           more  == NextLidar(t, res) \cup {found}
<1>1. /\ ChainInv /\ VerdictIsOfBoth /\ (patient => OneAtATime /\ OfTheSelected /\ ShownIsThere)
  BY DEF PatientInv
<1>2. /\ t \in WorkTask /\ Shaped(t) /\ t.req \in Request /\ Area(t) \in Links \X BOOLEAN
      /\ page \in Page /\ (page.view = "chart" => page.selected # NoLink)
      /\ linkWork \subseteq WorkTask
      /\ \A a \in Links \X BOOLEAN : Finest[a] \in 0 .. ULTRA
  BY <1>1, WorkIs
<1>3. /\ Finest[Area(t)] \in 0 .. ULTRA /\ t.asked \in 1 .. Finest[Area(t)]
      /\ res \in 1 .. Finest[Area(t)] /\ t.asked <= res /\ res \in 0 .. ULTRA
  BY <1>2 DEF Shaped, ULTRA
<1>4. /\ found \in WorkTask /\ found.kind = "lidar" /\ found.req = t.req /\ found.pc = "answer"
      /\ found.res = res /\ found.asked = t.asked
  BY <1>2, <1>3 DEF WorkTask
<1>5. Shaped(found)
  BY <1>3, <1>4 DEF Shaped, Area
<1>6. ASSUME NEW u \in NextLidar(t, res)
      PROVE  /\ u \in WorkTask /\ u.kind = "lidar" /\ u.req = t.req /\ u.pc = "start"
             /\ u.asked = res + 1 /\ Shaped(u) /\ u = LinkTask("lidar", t.req, res + 1)
  <2>1. u = LinkTask("lidar", t.req, res + 1) /\ res + 1 \in 1 .. Finest[Area(t)]
    BY <1>3 DEF NextLidar
  <2>2. /\ u.kind = "lidar" /\ u.req = t.req /\ u.pc = "start" /\ u.asked = res + 1 /\ u.res = 0
        /\ u \in WorkTask
    <3>1. res + 1 \in 0 .. ULTRA /\ 0 \in 0 .. ULTRA
      BY <1>3, <2>1 DEF ULTRA
    <3>2. u = [kind |-> "lidar", req |-> t.req, asked |-> res + 1, res |-> 0, pc |-> "start"]
      BY <2>1 DEF LinkTask
    <3>3. QED
      BY <1>2, <3>1, <3>2 DEF WorkTask
  <2>3. Shaped(u)
    BY <1>3, <2>1, <2>2 DEF Shaped, Area
  <2>4. QED
    BY <2>1, <2>2, <2>3
<1> HIDE DEF found
<1>7. linkWork' = (linkWork \ {t}) \cup more
  BY DEF FoundProfile, found
<1>8. /\ more \in SUBSET WorkTask
      /\ \A u \in more : u.req = t.req /\ Shaped(u) /\ u.kind = "lidar"
      /\ \A u \in more : Finer(u) >= res /\ Finer(u) \in Nat
  BY <1>3, <1>4, <1>5, <1>6 DEF Finer
<1>9. ASSUME NEW u \in more, NEW v \in more, u # v PROVE Chained(u, v)
  <2>1. CASE u = found
    <3>1. v \in NextLidar(t, res)
      BY <1>9, <2>1
    <3>2. Finer(v) = res + 1
      BY <1>6, <3>1 DEF Finer
    <3>3. QED
      BY <1>3, <1>4, <2>1, <3>2 DEF Chained
  <2>2. CASE u # found
    <3>1. u \in NextLidar(t, res) /\ v = found
      BY <1>6, <1>9, <2>2
    <3>2. Finer(u) = res + 1
      BY <1>6, <3>1 DEF Finer
    <3>3. QED
      BY <1>3, <1>4, <3>1, <3>2 DEF Chained
  <2>3. QED
    BY <2>1, <2>2
<1>10. ASSUME NEW u \in more, NEW v \in linkWork \ {t}, v.kind = "lidar", v.req.n = t.req.n
       PROVE  Chained(u, v)
  <2>1. Chained(t, v)
    BY <1>1, <1>10 DEF ChainInv, Chain
  <2>2. v.pc = "answer" /\ v.res < t.asked /\ v.res \in Nat
    BY <1>2, <1>10, <2>1 DEF Chained, Finer, WorkTask
  <2>3. QED
    BY <1>3, <1>8, <2>2 DEF Chained
<1> HIDE DEF more
<1>11. ChainInv'
  <2>1. /\ page' \in Page /\ (page'.view = "chart" => page'.selected # NoLink)
        /\ page'.asks = page.asks /\ UNCHANGED <<patient, wire>>
    BY <1>2
  <2>2. \A u \in more : u.req = t.req /\ Shaped(u) /\ u.kind # "info"
    BY <1>8
  <2>3. \A u, v \in more : u.kind = "lidar" /\ v.kind = "lidar" /\ u # v => Chained(u, v)
    BY <1>9
  <2>4. \A u \in more, v \in linkWork \ {t} :
           u.kind = "lidar" /\ v.kind = "lidar" /\ v.req.n = t.req.n => u = v \/ Chained(u, v)
    BY <1>10
  <2>5. QED
    BY <1>1, <1>7, <1>8, <2>1, <2>2, <2>3, <2>4, WorkKeeps
<1>12. /\ VerdictIsOfBoth'
       /\ OfTheSelected => OfTheSelected'
       /\ ShownIsThere => ShownIsThere'
  BY <1>1 DEF VerdictIsOfBoth, OfTheSelected, ShownIsThere
<1>13. /\ page' \in Page /\ page'.asks = page.asks /\ page'.dragging = page.dragging
       /\ page'.selected = page.selected /\ page'.elevation = page.elevation
       /\ UNCHANGED <<patient, wire>>
  BY <1>2
<1>14. \A u \in more : u.req = t.req
  BY <1>8
<1>15. QED
  BY <1>1, <1>7, <1>11, <1>12, <1>13, <1>14, AnswersKeep

\* What is in the cache is no finer than the link allows.
LEMMA LookUpProfileKeeps ==
    ASSUME PatientInv, NEW t \in linkWork, LookUpProfile(t)
    PROVE  PatientInv'
<1>1. /\ ChainInv /\ VerdictIsOfBoth /\ (patient => OneAtATime /\ OfTheSelected /\ ShownIsThere)
      /\ t.kind = "lidar" /\ t.pc = "start" /\ UNCHANGED <<patient, page, wire, cache, unanswered>>
  BY DEF PatientInv, LookUpProfile
<1>2. /\ t \in WorkTask /\ Shaped(t) /\ t.req \in Request /\ Area(t) \in Links \X BOOLEAN
      /\ page \in Page /\ (page.view = "chart" => page.selected # NoLink)
      /\ linkWork \subseteq WorkTask
      /\ cache \in [Links \X BOOLEAN -> 0 .. ULTRA] /\ CacheFits
      /\ \A a \in Links \X BOOLEAN : Finest[a] \in 0 .. ULTRA
  BY <1>1, WorkIs
<1>3. /\ cache' \in [Links \X BOOLEAN -> 0 .. ULTRA]
      /\ \A a \in Links \X BOOLEAN : cache'[a] <= Finest[a]
  BY <1>1, <1>2 DEF CacheFits
<1>4. CASE cache[Area(t)] >= t.asked
  <2>1. cache[Area(t)] \in t.asked .. Finest[Area(t)]
    BY <1>2, <1>4 DEF CacheFits, WorkTask, ULTRA
  <2>2. FoundProfile(t, cache[Area(t)])
    BY <1>4 DEF LookUpProfile
  <2>3. QED
    BY <1>1, <1>3, <2>1, <2>2, FoundProfileKeeps
<1>5. CASE ~ (cache[Area(t)] >= t.asked)
  <2> DEFINE c == [t EXCEPT !.pc = "compute"]
             more == {c}
  <2>1. linkWork' = (linkWork \ {t}) \cup more
    BY <1>5 DEF LookUpProfile
  <2>2. /\ c \in WorkTask /\ c.kind = "lidar" /\ c.req = t.req /\ c.pc = "compute"
        /\ c.asked = t.asked /\ c.res = t.res
    BY <1>1, <1>2 DEF WorkTask
  <2> HIDE DEF c
  <2>3. Shaped(c)
    BY <1>1, <1>2, <2>2 DEF Shaped, Area
  <2>4. ASSUME NEW v \in linkWork \ {t}, v.kind = "lidar", v.req.n = t.req.n PROVE Chained(c, v)
    <3>1. Chained(t, v)
      BY <1>1, <2>4 DEF ChainInv, Chain
    <3>2. QED
      BY <1>1, <2>2, <3>1 DEF Chained, Finer
  <2>5. /\ more \in SUBSET WorkTask
        /\ \A u \in more : u.req = t.req /\ Shaped(u) /\ u.kind # "info"
        /\ \A u, v \in more : u.kind = "lidar" /\ v.kind = "lidar" /\ u # v => Chained(u, v)
        /\ \A u \in more, v \in linkWork \ {t} :
              u.kind = "lidar" /\ v.kind = "lidar" /\ v.req.n = t.req.n => u = v \/ Chained(u, v)
    BY <2>2, <2>3, <2>4
  <2> HIDE DEF more
  <2>6. /\ page' \in Page /\ (page'.view = "chart" => page'.selected # NoLink)
        /\ page'.asks = page.asks /\ page'.dragging = page.dragging
        /\ page'.selected = page.selected /\ page'.elevation = page.elevation
        /\ UNCHANGED <<patient, wire>>
    BY <1>1, <1>2
  <2>7. ChainInv'
    BY <1>1, <1>3, <2>1, <2>5, <2>6, WorkKeeps
  <2>8. /\ VerdictIsOfBoth'
        /\ OfTheSelected => OfTheSelected'
        /\ ShownIsThere => ShownIsThere'
    BY <1>1 DEF VerdictIsOfBoth, OfTheSelected, ShownIsThere
  <2>9. QED
    BY <1>1, <2>1, <2>5, <2>6, <2>7, <2>8, AnswersKeep
<1>6. QED
  BY <1>4, <1>5

\* What is computed is as fine as was asked.
LEMMA ComputeProfileKeeps ==
    ASSUME PatientInv, NEW t \in linkWork, ComputeProfile(t)
    PROVE  PatientInv'
<1>1. /\ ChainInv /\ t.kind = "lidar" /\ t.pc = "compute"
      /\ UNCHANGED <<patient, wire, page, unanswered>>
      /\ cache' = [cache EXCEPT ![Area(t)] = t.asked] /\ FoundProfile(t, t.asked)
  BY DEF PatientInv, ComputeProfile
<1>2. /\ t \in WorkTask /\ Shaped(t) /\ Area(t) \in Links \X BOOLEAN
      /\ cache \in [Links \X BOOLEAN -> 0 .. ULTRA] /\ CacheFits
      /\ \A a \in Links \X BOOLEAN : Finest[a] \in 0 .. ULTRA
  BY <1>1, WorkIs
<1>3. t.asked \in 0 .. ULTRA /\ t.asked \in 1 .. Finest[Area(t)] /\ Finest[Area(t)] \in 0 .. ULTRA
  BY <1>1, <1>2 DEF Shaped, WorkTask
<1>4. /\ cache' \in [Links \X BOOLEAN -> 0 .. ULTRA]
      /\ \A a \in Links \X BOOLEAN : cache'[a] <= Finest[a]
  BY <1>1, <1>2, <1>3 DEF CacheFits
<1>5. t.asked \in t.asked .. Finest[Area(t)]
  BY <1>3 DEF ULTRA
<1>6. QED
  BY <1>1, <1>4, <1>5, FoundProfileKeeps

\* A profile arrives, or none.
LEMMA ProfileAnswersKeep ==
    ASSUME PatientInv, NEW t \in linkWork, NoProfile(t) \/ AnswerProfile(t)
    PROVE  PatientInv'
<1>1. /\ ChainInv /\ VerdictIsOfBoth /\ (patient => OneAtATime /\ OfTheSelected /\ ShownIsThere)
      /\ UNCHANGED <<patient, wire, cache, unanswered>> /\ linkWork' = linkWork \ {t}
      /\ GroupSend(t, "lidar", 0, TRUE) \/ GroupSend(t, "lidar", t.res, FALSE)
  BY DEF PatientInv, NoProfile, AnswerProfile
<1>2. /\ t \in WorkTask /\ t.req \in Request /\ t.res \in 0 .. ULTRA
      /\ page \in Page /\ (page.view = "chart" => page.selected # NoLink)
  BY <1>1, WorkIs DEF WorkTask
<1>3. CASE page' = page
  <2>1. /\ VerdictIsOfBoth'
        /\ OfTheSelected => OfTheSelected'
        /\ ShownIsThere => ShownIsThere'
    BY <1>1, <1>3 DEF VerdictIsOfBoth, OfTheSelected, ShownIsThere
  <2>2. QED
    BY <1>1, <1>2, <1>3, <2>1, LastAnswersKeep
<1>4. CASE page' = PageAfter([handler |-> "lidar", req |-> t.req, res |-> 0, error |-> TRUE])
  <2>1. /\ page' \in Page
        /\ page'.drawn = page.drawn /\ page'.elevation = page.elevation
        /\ page'.lidar = page.lidar /\ page'.render = page.render
        /\ page'.dragging = page.dragging /\ page'.asks = page.asks
        /\ page'.verdict = page.verdict /\ page'.view = "error" /\ page'.selected = page.selected
    BY <1>2, <1>4, ErrorIs
  <2>2. /\ VerdictIsOfBoth'
        /\ OfTheSelected => OfTheSelected'
        /\ ShownIsThere => ShownIsThere'
    BY <1>1, <2>1 DEF VerdictIsOfBoth, OfTheSelected, ShownIsThere
  <2>3. QED
    BY <1>1, <1>2, <2>1, <2>2, LastAnswersKeep
<1>5. CASE page' = PageAfter([handler |-> "lidar", req |-> t.req, res |-> t.res, error |-> FALSE])
  <2>1. /\ page' \in Page
        /\ page'.selected = page.selected /\ page'.drawn = page.drawn
        /\ page'.elevation = page.elevation
        /\ page'.dragging = page.dragging /\ page'.asks = page.asks
        /\ \/ page'.lidar = page.lidar /\ page'.render = page.render
           \/ /\ page'.lidar = [link |-> t.req.link, res |-> t.res]
              /\ page'.render = IF page.drawn THEN t.req.link ELSE page.render
        /\ page'.verdict = IF page'.elevation # NoLink /\ page'.lidar # NoLidar
                           THEN <<page'.elevation, page'.lidar>> ELSE page.verdict
        /\ page'.view = IF page'.elevation # NoLink /\ page'.lidar # NoLidar
                             /\ page'.selected # NoLink /\ page'.drawn
                        THEN "chart" ELSE page.view
    BY <1>2, <1>5, LidarIs
  <2>2. [link |-> t.req.link, res |-> t.res] # NoLidar
    BY <1>2, RequestsAreThere DEF NoLidar
  <2>3. VerdictIsOfBoth'
    BY <2>1 DEF VerdictIsOfBoth
  <2>4. ASSUME ~ page.dragging, t.req.link = page.selected, OfTheSelected
        PROVE  OfTheSelected' /\ (ShownIsThere => ShownIsThere')
    <3>1. OfTheSelected'
      BY <2>1, <2>4 DEF OfTheSelected
    <3>2. ShownIsThere => ShownIsThere'
      <4>1. page.asks > 0
        BY <1>1, <1>2 DEF ChainInv, InOrder, Request, Page
      <4>2. page.lidar # NoLidar => page'.lidar # NoLidar
        BY <2>1, <2>2
      <4>3. QED
        BY <1>1, <1>2, <2>1, <2>4, <3>1, <4>1, <4>2, ShownKeeps
    <3>3. QED
      BY <3>1, <3>2
  <2>5. QED
    BY <1>1, <1>2, <2>1, <2>3, <2>4, LastAnswersKeep
<1>6. QED
  BY <1>1, <1>3, <1>4, <1>5 DEF GroupSend

------------------------------------------------------------------------------
(* The user and the socket *)

\* A request that is sent is the last one.
LEMMA SendKeeps ==
    ASSUME ChainInv, NEW r \in Request, r.n = page.asks + 1, SendRequest(r),
           page' \in Page, page'.view = "chart" => page'.selected # NoLink,
           page'.asks = page.asks + 1,
           UNCHANGED <<patient, linkWork, cache>>
    PROVE  ChainInv' /\ Waiting' \subseteq Waiting \cup {r}
<1>1. /\ wire \in [open : BOOLEAN, pending : Request \cup {NoRequest}, up : Seq(Request)]
      /\ InOrder /\ page \in Page /\ page.asks \in Nat /\ linkWork \subseteq WorkTask
  BY DEF ChainInv, LinkTypeOK, Page
<1>2. CASE wire.open
  <2> DEFINE s == Append(wire.up, r)
  <2>1. wire' = [wire EXCEPT !.up = s]
    BY <1>2 DEF SendRequest
  <2>2. /\ s \in Seq(Request) /\ Len(s) = Len(wire.up) + 1 /\ s[Len(s)] = r
        /\ \A i \in 1 .. Len(wire.up) : s[i] = wire.up[i]
        /\ Len(wire.up) \in Nat /\ \A i \in 1 .. Len(wire.up) : wire.up[i] \in Request
    BY <1>1
  <2> HIDE DEF s
  <2>3. wire'.open = wire.open /\ wire'.pending = wire.pending /\ wire'.up = s
    BY <1>1, <2>1
  <2>4. wire' \in [open : BOOLEAN, pending : Request \cup {NoRequest}, up : Seq(Request)]
    BY <1>1, <2>1, <2>2
  <2>5. \A i \in 1 .. Len(s) : IF i = Len(s) THEN s[i] = r ELSE i \in 1 .. Len(wire.up) /\ s[i] = wire.up[i]
    BY <2>2
  <2>6. Waiting' \subseteq Waiting \cup {r}
    BY <2>3, <2>5 DEF Waiting
  <2>7. \A i \in 1 .. Len(wire.up) : wire.up[i] \in Waiting
    BY DEF Waiting
  <2>8. InOrder'
    <3>1. \A w \in Waiting \cup {r} : w.n <= page'.asks /\ \A t \in linkWork' : t.req.n < w.n
      <4>1. \A t \in linkWork : t.req.n \in Nat /\ t.req.n <= page.asks
        BY <1>1 DEF InOrder, WorkTask, Request
      <4>2. \A w \in Waiting : w.n \in Nat
        BY <1>1, <2>2 DEF Waiting, Request
      <4>3. QED
        BY <1>1, <4>1, <4>2 DEF InOrder
    <3>2. ASSUME NEW i \in 1 .. Len(s), NEW j \in 1 .. Len(s), i < j PROVE s[i].n < s[j].n
      <4>1. CASE j = Len(s)
        <5>1. i \in 1 .. Len(wire.up) /\ s[i] = wire.up[i] /\ s[j] = r
          BY <2>2, <2>5, <3>2, <4>1
        <5>2. s[i].n <= page.asks /\ s[i].n \in Nat
          <6>1. wire.up[i] \in Waiting
            BY <2>7, <5>1
          <6>2. \A w \in Waiting : w.n <= page.asks
            BY <1>1 DEF InOrder
          <6>3. wire.up[i] \in Request
            BY <1>1, <2>2, <5>1
          <6>4. QED
            BY <5>1, <6>1, <6>2, <6>3 DEF Request
        <5>3. QED
          BY <1>1, <5>1, <5>2
      <4>2. CASE j # Len(s)
        BY <1>1, <2>2, <2>5, <3>2, <4>2 DEF InOrder
      <4>3. QED
        BY <4>1, <4>2
    <3>3. \A t \in linkWork' : t.req.n <= page'.asks
      BY <1>1 DEF InOrder, WorkTask, Request
    <3>4. QED
      BY <1>1, <1>2, <2>3, <2>6, <3>1, <3>2, <3>3 DEF InOrder
  <2>9. QED
    BY <2>4, <2>6, <2>8 DEF ChainInv, LinkTypeOK, OneStart, Chain, Chained, Finer, CacheFits, Shaped, Area
<1>3. CASE ~ wire.open
  <2>1. wire' = [wire EXCEPT !.pending = r] /\ wire.up = <<>>
    BY <1>1, <1>3 DEF SendRequest, InOrder
  <2>2. /\ wire'.open = wire.open /\ wire'.pending = r /\ wire'.up = <<>>
        /\ wire' \in [open : BOOLEAN, pending : Request \cup {NoRequest}, up : Seq(Request)]
    BY <1>1, <2>1
  <2>3. Waiting' = {r}
    <3>1. r # NoRequest /\ Len(wire'.up) = 0
      BY <2>2, RequestsAreThere
    <3>2. QED
      BY <2>2, <3>1 DEF Waiting
  <2>4. InOrder'
    <3>1. \A t \in linkWork : t.req.n \in Nat /\ t.req.n <= page.asks
      BY <1>1 DEF InOrder, WorkTask, Request
    <3>2. QED
      BY <1>1, <1>3, <2>2, <2>3, <3>1 DEF InOrder
  <2>5. QED
    BY <2>2, <2>3, <2>4 DEF ChainInv, LinkTypeOK, OneStart, Chain, Chained, Finer, CacheFits, Shaped, Area
<1>4. QED
  BY <1>2, <1>3

\* Who may ask, and what a user who waits has under way then: nothing.
LEMMA MayAskIs ==
    ASSUME PatientInv, MayAsk
    PROVE  /\ ChainInv /\ VerdictIsOfBoth /\ (patient => OneAtATime /\ OfTheSelected /\ ShownIsThere)
           /\ page \in Page /\ (page.view = "chart" => page.selected # NoLink)
           /\ page.asks \in Nat /\ page.asks + 1 \in 1 .. MaxLinkAsks
           /\ page.asks + 1 \in 0 .. MaxLinkAsks
           /\ patient => Waiting = {} /\ linkWork = {}
<1>1. /\ ChainInv /\ VerdictIsOfBoth /\ (patient => OneAtATime /\ OfTheSelected /\ ShownIsThere)
      /\ page \in Page /\ (page.view = "chart" => page.selected # NoLink)
  BY DEF PatientInv, ChainInv, LinkTypeOK
<1>2. page.asks \in 0 .. MaxLinkAsks /\ page.asks < MaxLinkAsks
  BY <1>1 DEF Page, MayAsk
<1>3. page.asks \in Nat /\ page.asks + 1 \in 1 .. MaxLinkAsks /\ page.asks + 1 \in 0 .. MaxLinkAsks
  BY <1>2, MaxLinkAsksAssumption
<1>4. patient => Waiting = {} /\ linkWork = {}
  <2>1. wire.up = <<>> => Len(wire.up) = 0
    OBVIOUS
  <2>2. QED
    BY <2>1 DEF MayAsk, Settled, Waiting
<1>5. QED
  BY <1>1, <1>3, <1>4

\* A link is asked for anew: the profiles the page has are forgotten.
LEMMA AsksAnew ==
    ASSUME PatientInv, MayAsk, UNCHANGED <<patient, linkWork, cache>>,
           NEW r \in Request, r.n = page.asks + 1, SendRequest(r),
           page' \in Page, page'.asks = page.asks + 1, page'.selected = r.link,
           page'.dragging = FALSE, page'.elevation = NoLink, page'.lidar = NoLidar,
           page'.view = "loading"
    PROVE  PatientInv'
<1>1. ChainInv' /\ Waiting' \subseteq Waiting \cup {r}
  BY MayAskIs, SendKeeps
<1>2. VerdictIsOfBoth' /\ OfTheSelected' /\ ShownIsThere'
  BY DEF VerdictIsOfBoth, OfTheSelected, ShownIsThere
<1>3. patient => OneAtATime'
  <2>1. patient => Waiting' \subseteq {r} /\ linkWork' = {}
    BY <1>1, MayAskIs
  <2>2. QED
    BY <2>1 DEF OneAtATime
<1>4. QED
  BY <1>1, <1>2, <1>3 DEF PatientInv

\* A link is drawn, moved or selected, or dropped.
LEMMA SelectLinkKeeps ==
    ASSUME PatientInv, NEW l \in Links, SelectLink(l)
    PROVE  PatientInv'
<1> DEFINE r == [n |-> page.asks + 1, link |-> l, zoom |-> FALSE]
<1>1. MayAsk /\ UNCHANGED <<patient, linkWork, cache>> /\ SendRequest(r)
  BY DEF SelectLink
<1>2. page \in Page /\ page.asks + 1 \in 1 .. MaxLinkAsks /\ page.asks + 1 \in 0 .. MaxLinkAsks
  BY <1>1, MayAskIs
<1>3. r \in Request /\ r.n = page.asks + 1 /\ r.link = l
  BY <1>2 DEF Request
<1>4. page' = [page EXCEPT !.elevation = NoLink, !.lidar = NoLidar, !.selected = l, !.drawn = TRUE,
                           !.dragging = FALSE, !.view = "loading", !.asks = page.asks + 1]
  BY <1>2 DEF SelectLink, Emptied, Page
<1>5. /\ page' \in Page /\ page'.asks = page.asks + 1 /\ page'.selected = l
      /\ page'.dragging = FALSE /\ page'.elevation = NoLink /\ page'.lidar = NoLidar
      /\ page'.view = "loading"
  BY <1>2, <1>4, RequestsAreThere DEF Page, MaybeLink
<1> HIDE DEF r
<1>6. QED
  BY <1>1, <1>3, <1>5, AsksAnew

\* The same for the link that was dragged.
LEMMA DropLinkKeeps ==
    ASSUME PatientInv, DropLink
    PROVE  PatientInv'
<1> DEFINE r == [n |-> page.asks + 1, link |-> page.selected, zoom |-> FALSE]
<1>1. /\ MayAsk /\ UNCHANGED <<patient, linkWork, cache>> /\ SendRequest(r)
      /\ page.selected # NoLink
  BY DEF DropLink
<1>2. page \in Page /\ page.asks + 1 \in 1 .. MaxLinkAsks /\ page.asks + 1 \in 0 .. MaxLinkAsks
  BY <1>1, MayAskIs
<1>3. r \in Request /\ r.n = page.asks + 1 /\ r.link = page.selected
  <2>1. page.selected \in Links
    BY <1>1, <1>2 DEF Page, MaybeLink
  <2>2. QED
    BY <1>2, <2>1 DEF Request
<1>4. page' = [page EXCEPT !.elevation = NoLink, !.lidar = NoLidar, !.dragging = FALSE,
                           !.view = "loading", !.asks = page.asks + 1]
  BY <1>2 DEF DropLink, Emptied, Page
<1>5. /\ page' \in Page /\ page'.asks = page.asks + 1 /\ page'.selected = page.selected
      /\ page'.dragging = FALSE /\ page'.elevation = NoLink /\ page'.lidar = NoLidar
      /\ page'.view = "loading"
  BY <1>2, <1>4, RequestsAreThere DEF Page, MaybeLink
<1> HIDE DEF r
<1>6. QED
  BY <1>1, <1>3, <1>5, AsksAnew

\* A part of the link, or all of it again: what the page has of it stays.
LEMMA ZoomKeeps ==
    ASSUME PatientInv, NEW in \in BOOLEAN, Zoom(in)
    PROVE  PatientInv'
<1> DEFINE r == [n |-> page.asks + 1, link |-> page.selected, zoom |-> in]
<1>1. /\ MayAsk /\ UNCHANGED <<patient, linkWork, cache, unanswered>> /\ SendRequest(r)
      /\ page.view = "chart"
  BY DEF Zoom
<1>2. /\ ChainInv /\ VerdictIsOfBoth /\ (patient => OneAtATime /\ OfTheSelected /\ ShownIsThere)
      /\ page \in Page /\ page.selected # NoLink
      /\ page.asks + 1 \in 1 .. MaxLinkAsks /\ page.asks + 1 \in 0 .. MaxLinkAsks
      /\ patient => Waiting = {} /\ linkWork = {}
  BY <1>1, MayAskIs
<1>3. r \in Request /\ r.n = page.asks + 1 /\ r.link = page.selected
  <2>1. page.selected \in Links
    BY <1>2 DEF Page, MaybeLink
  <2>2. QED
    BY <1>2, <2>1 DEF Request
<1>4. page' = [page EXCEPT !.asks = page.asks + 1]
  BY <1>2 DEF Zoom, Page
<1>5. /\ page' \in Page /\ page'.asks = page.asks + 1 /\ page'.selected = page.selected
      /\ page'.dragging = page.dragging /\ page'.elevation = page.elevation
      /\ page'.lidar = page.lidar /\ page'.verdict = page.verdict
      /\ page'.view = page.view /\ page'.drawn = page.drawn /\ page'.render = page.render
  BY <1>2, <1>4 DEF Page
<1> HIDE DEF r
<1>6. ChainInv' /\ Waiting' \subseteq Waiting \cup {r}
  BY <1>1, <1>2, <1>3, <1>5, SendKeeps
<1>7. /\ VerdictIsOfBoth'
      /\ OfTheSelected => OfTheSelected'
      /\ ShownIsThere => ShownIsThere'
  BY <1>1, <1>2, <1>5, MayAskIs DEF VerdictIsOfBoth, OfTheSelected, ShownIsThere
<1>8. patient => OneAtATime'
  <2>1. patient => Waiting' \subseteq {r} /\ linkWork' = {} /\ ~ page'.dragging
    BY <1>1, <1>2, <1>5, <1>6 DEF ShownIsThere
  <2>2. QED
    BY <1>3, <1>5, <2>1 DEF OneAtATime
<1>9. QED
  BY <1>1, <1>2, <1>6, <1>7, <1>8 DEF PatientInv

\* A link that is dragged is asked for when it is dropped; one that is deleted is not shown.
LEMMA MovesKeep ==
    ASSUME PatientInv, (\E l \in Links : DragLink(l)) \/ DeleteDrawing
    PROVE  PatientInv'
<1>1. /\ ChainInv /\ VerdictIsOfBoth /\ (patient => OneAtATime /\ OfTheSelected /\ ShownIsThere)
      /\ page \in Page /\ UNCHANGED <<patient, wire, linkWork, cache>>
  BY DEF PatientInv, ChainInv, LinkTypeOK, DragLink, DeleteDrawing
<1>2. /\ page' \in Page /\ page'.asks = page.asks /\ page'.elevation = page.elevation
      /\ page'.lidar = page.lidar /\ page'.verdict = page.verdict /\ page'.view # "chart"
      /\ \/ page'.dragging /\ (patient => Settled)
         \/ ~ page'.dragging /\ ~ page'.drawn /\ page'.selected = page.selected
  <2>1. ASSUME NEW l \in Links, DragLink(l)
        PROVE  /\ page' = [page EXCEPT !.selected = l, !.dragging = TRUE, !.view = "loading"]
               /\ patient => Settled
    BY <2>1 DEF DragLink
  <2>2. ASSUME DeleteDrawing
        PROVE  page' = [page EXCEPT !.drawn = FALSE, !.dragging = FALSE, !.view = "instructions"]
    BY <2>2 DEF DeleteDrawing
  <2>3. CASE \E l \in Links : DragLink(l)
    <3>1. PICK l \in Links : DragLink(l)
      BY <2>3
    <3>2. /\ page' = [page EXCEPT !.selected = l, !.dragging = TRUE, !.view = "loading"]
          /\ patient => Settled
      BY <2>1, <3>1
    <3>3. /\ page' \in Page /\ page'.dragging /\ page'.asks = page.asks
          /\ page'.elevation = page.elevation /\ page'.lidar = page.lidar
          /\ page'.verdict = page.verdict /\ page'.view = "loading"
      BY <1>1, <3>2 DEF Page, MaybeLink
    <3>4. QED
      BY <3>2, <3>3
  <2>4. CASE DeleteDrawing
    BY <1>1, <2>2, <2>4 DEF Page
  <2>5. QED
    BY <2>3, <2>4
<1>3. Waiting' = Waiting
  BY <1>1 DEF Waiting
<1>4. ChainInv'
  <2>1. LinkTypeOK'
    BY <1>1, <1>2 DEF ChainInv, LinkTypeOK
  <2>2. InOrder'
    BY <1>1, <1>2, <1>3 DEF ChainInv, InOrder
  <2>3. QED
    BY <1>1, <2>1, <2>2 DEF ChainInv, OneStart, Chain, Chained, Finer, CacheFits, Shaped, Area
<1>5. VerdictIsOfBoth' /\ OfTheSelected' /\ ShownIsThere'
  BY <1>1, <1>2 DEF VerdictIsOfBoth, OfTheSelected, ShownIsThere
<1>6. ASSUME patient PROVE OneAtATime'
  <2>1. CASE page'.dragging
    <3>1. Waiting = {} /\ linkWork = {}
      <4>1. wire.up = <<>> => Len(wire.up) = 0
        OBVIOUS
      <4>2. QED
        BY <1>2, <1>6, <2>1, <4>1 DEF Settled, Waiting
    <3>2. QED
      BY <1>1, <1>3, <3>1 DEF OneAtATime
  <2>2. CASE ~ page'.dragging
    BY <1>1, <1>2, <1>3, <1>6, <2>2 DEF OneAtATime
  <2>3. QED
    BY <2>1, <2>2
<1>7. QED
  BY <1>1, <1>4, <1>5, <1>6 DEF PatientInv

\* The page as it is, with fewer requests or tasks, or the same in another place.
LEMMA FewerKeep ==
    ASSUME PatientInv, UNCHANGED <<patient, page, cache>>,
           page.asks > 0 /\ unanswered # {} => unanswered' # {},
           wire' \in [open : BOOLEAN, pending : Request \cup {NoRequest}, up : Seq(Request)],
           linkWork' \subseteq linkWork, Waiting' \subseteq Waiting,
           wire'.open => wire'.pending = NoRequest,
           ~ wire'.open => wire'.up = <<>>,
           \A i, j \in 1 .. Len(wire'.up) : i < j => wire'.up[i].n < wire'.up[j].n
    PROVE  PatientInv'
<1>1. /\ ChainInv /\ VerdictIsOfBoth /\ (patient => OneAtATime /\ OfTheSelected /\ ShownIsThere)
  BY DEF PatientInv
<1>2. LinkTypeOK'
  BY <1>1 DEF ChainInv, LinkTypeOK
<1>3. InOrder'
  BY <1>1 DEF ChainInv, InOrder
<1>4. ChainInv'
  BY <1>1, <1>2, <1>3 DEF ChainInv, OneStart, Chain, Chained, Finer, CacheFits, Shaped, Area
<1>5. /\ VerdictIsOfBoth'
      /\ OfTheSelected => OfTheSelected'
      /\ ShownIsThere => ShownIsThere'
  BY <1>1 DEF VerdictIsOfBoth, OfTheSelected, ShownIsThere
<1>6. OneAtATime => OneAtATime'
  BY DEF OneAtATime
<1>7. QED
  BY <1>1, <1>4, <1>5, <1>6 DEF PatientInv

\* A socket opens with the request that waits, and closes with those that were sent.
LEMMA SocketKeeps ==
    ASSUME PatientInv, OpenSocket \/ CloseSocket
    PROVE  PatientInv'
<1>1. /\ ChainInv /\ InOrder /\ UNCHANGED <<patient, page, cache>>
      /\ wire \in [open : BOOLEAN, pending : Request \cup {NoRequest}, up : Seq(Request)]
  BY DEF PatientInv, ChainInv, LinkTypeOK, OpenSocket, CloseSocket
<1>2. CASE OpenSocket
  <2> DEFINE s == IF wire.pending = NoRequest THEN <<>> ELSE <<wire.pending>>
  <2>1. /\ wire' = [wire EXCEPT !.open = TRUE, !.pending = NoRequest, !.up = s]
        /\ linkWork' = linkWork /\ unanswered' = unanswered
    BY <1>2 DEF OpenSocket
  <2>2. /\ s \in Seq(Request) /\ Len(s) \in {0, 1}
        /\ \A i \in 1 .. Len(s) : i = 1 /\ s[i] = wire.pending /\ wire.pending # NoRequest
    BY <1>1
  <2> HIDE DEF s
  <2>3. /\ wire' \in [open : BOOLEAN, pending : Request \cup {NoRequest}, up : Seq(Request)]
        /\ wire'.open /\ wire'.pending = NoRequest /\ wire'.up = s
    BY <1>1, <2>1, <2>2
  <2>4. Waiting' \subseteq Waiting
    BY <2>2, <2>3 DEF Waiting
  <2>5. QED
    BY <1>1, <2>1, <2>2, <2>3, <2>4, FewerKeep
<1>3. CASE CloseSocket
  <2>1. /\ wire' = [wire EXCEPT !.open = FALSE, !.up = <<>>] /\ linkWork' \subseteq linkWork
        /\ wire.open /\ unanswered' = 1 .. page.asks
    BY <1>3 DEF CloseSocket, Revoke
  <2>2. /\ wire' \in [open : BOOLEAN, pending : Request \cup {NoRequest}, up : Seq(Request)]
        /\ ~ wire'.open /\ wire'.pending = NoRequest /\ wire'.up = <<>> /\ Len(wire'.up) = 0
    <3>1. <<>> \in Seq(Request) /\ Len(<<>>) = 0 /\ wire.pending = NoRequest
      BY <1>1, <2>1 DEF InOrder
    <3>2. wire.pending \in Request \cup {NoRequest}
      BY <1>1
    <3>3. wire' = [open |-> FALSE, pending |-> wire.pending, up |-> <<>>]
      BY <1>1, <2>1
    <3>4. QED
      BY <3>1, <3>2, <3>3
  <2>3. Waiting' \subseteq Waiting
    BY <2>2 DEF Waiting
  <2>4. page.asks > 0 => 1 \in unanswered'
    <3>1. page.asks \in Nat
      BY DEF PatientInv, ChainInv, LinkTypeOK, Page
    <3>2. QED
      BY <2>1, <3>1
  <2>5. QED
    BY <1>1, <2>1, <2>2, <2>3, <2>4, FewerKeep
<1>4. QED
  BY <1>2, <1>3

\* receive_json: the request that is received has no task yet.
LEMMA ReceiveLinkKeeps ==
    ASSUME PatientInv, ReceiveLink
    PROVE  PatientInv'
<1> DEFINE r == Head(wire.up)
           s == Tail(wire.up)
           t == LinkTask("info", r, 0)
<1>1. /\ ChainInv /\ VerdictIsOfBoth /\ (patient => OneAtATime /\ OfTheSelected /\ ShownIsThere)
      /\ wire.open /\ wire.up # <<>> /\ wire' = [wire EXCEPT !.up = s]
      /\ UNCHANGED <<patient, page, cache, unanswered>>
      /\ InOrder /\ page \in Page /\ linkWork \subseteq WorkTask
      /\ wire \in [open : BOOLEAN, pending : Request \cup {NoRequest}, up : Seq(Request)]
  BY DEF PatientInv, ChainInv, LinkTypeOK, ReceiveLink
<1>2. \A u \in linkWork' : u = t \/ u \in linkWork
  BY DEF ReceiveLink
<1>3. /\ r \in Request /\ s \in Seq(Request) /\ r = wire.up[1] /\ Len(wire.up) \in Nat
      /\ 1 \in 1 .. Len(wire.up) /\ Len(s) = Len(wire.up) - 1
      /\ \A i \in 1 .. Len(s) : /\ s[i] = wire.up[i + 1] /\ i + 1 \in 1 .. Len(wire.up)
                                /\ 1 < i + 1
      /\ \A i \in 1 .. Len(wire.up) : wire.up[i] \in Request
  BY <1>1
<1> HIDE DEF r, s
<1>4. /\ t.kind = "info" /\ t.req = r /\ t \in WorkTask /\ t.asked = 0
  BY <1>3 DEF LinkTask, WorkTask, ULTRA
<1>5. /\ wire' \in [open : BOOLEAN, pending : Request \cup {NoRequest}, up : Seq(Request)]
      /\ wire'.open = wire.open /\ wire'.pending = wire.pending /\ wire'.up = s
  BY <1>1, <1>3
<1>6. /\ Waiting' \subseteq Waiting /\ r \in Waiting
      /\ \A w \in Waiting' : r.n < w.n
  <2>1. wire.pending = NoRequest
    BY <1>1 DEF InOrder
  <2>2. r \in Waiting
    BY <1>3 DEF Waiting
  <2>3. ASSUME NEW w \in Waiting' PROVE w \in Waiting /\ r.n < w.n
    <3>1. PICK i \in 1 .. Len(s) : w = s[i]
      BY <1>5, <2>1 DEF Waiting
    <3>2. w = wire.up[i + 1] /\ i + 1 \in 1 .. Len(wire.up) /\ 1 < i + 1
      BY <1>3, <3>1
    <3>3. wire.up[1].n < wire.up[i + 1].n
      BY <1>1, <1>3, <3>2 DEF InOrder
    <3>4. QED
      BY <1>3, <3>2, <3>3 DEF Waiting
  <2>4. QED
    BY <2>2, <2>3
<1>7. \A u \in linkWork : u.req.n < r.n /\ u.req.n \in Nat /\ r.n \in Nat
  BY <1>1, <1>3, <1>6 DEF InOrder, WorkTask, Request
<1> HIDE DEF t
<1>8. LinkTypeOK'
  BY <1>1, <1>2, <1>4, <1>5 DEF ChainInv, LinkTypeOK
<1>9. InOrder'
  <2>1. \A i, j \in 1 .. Len(s) : i < j => s[i].n < s[j].n
    <3>1. SUFFICES ASSUME NEW i \in 1 .. Len(s), NEW j \in 1 .. Len(s), i < j
                   PROVE  s[i].n < s[j].n
      OBVIOUS
    <3>2. /\ s[i] = wire.up[i + 1] /\ i + 1 \in 1 .. Len(wire.up)
          /\ s[j] = wire.up[j + 1] /\ j + 1 \in 1 .. Len(wire.up) /\ i + 1 < j + 1
      BY <1>3, <3>1
    <3>3. \A h, k \in 1 .. Len(wire.up) : h < k => wire.up[h].n < wire.up[k].n
      BY <1>1 DEF InOrder
    <3>4. wire.up[i + 1].n < wire.up[j + 1].n
      BY <3>2, <3>3
    <3>5. QED
      BY <3>2, <3>4
  <2>2. \A w \in Waiting' : w.n <= page.asks /\ \A u \in linkWork' : u.req.n < w.n
    BY <1>1, <1>2, <1>4, <1>6 DEF InOrder
  <2>3. \A u \in linkWork' : u.req.n <= page.asks
    BY <1>1, <1>2, <1>4, <1>6 DEF InOrder
  <2>4. QED
    BY <1>1, <1>5, <2>1, <2>2, <2>3 DEF InOrder
<1>10. OneStart'
  <2>1. ASSUME NEW u \in linkWork', NEW v \in linkWork', u.req.n = v.req.n
        PROVE  u = v \/ (u \in linkWork /\ v \in linkWork)
    BY <1>2, <1>4, <1>7, <2>1
  <2>2. QED
    BY <1>1, <2>1 DEF ChainInv, OneStart
<1>11. \A u \in linkWork' : Shaped(u)'
  <2>1. Shaped(t)
    BY <1>4 DEF Shaped, t
  <2>2. \A u \in linkWork' : Shaped(u)
    BY <1>1, <1>2, <2>1 DEF ChainInv
  <2>3. QED
    BY <2>2 DEF Shaped
<1>12. Chain' /\ CacheFits'
  <2>1. Chain'
    BY <1>1, <1>2, <1>4 DEF ChainInv, Chain, Chained, Finer
  <2>2. QED
    BY <1>1, <2>1 DEF ChainInv, CacheFits
<1>13. /\ VerdictIsOfBoth'
       /\ OfTheSelected => OfTheSelected'
       /\ ShownIsThere => ShownIsThere'
  BY <1>1 DEF VerdictIsOfBoth, OfTheSelected, ShownIsThere
<1>14. OneAtATime => OneAtATime'
  BY <1>1, <1>2, <1>4, <1>6 DEF OneAtATime
<1>15. QED
  BY <1>1, <1>8, <1>9, <1>10, <1>11, <1>12, <1>13, <1>14 DEF PatientInv, ChainInv

------------------------------------------------------------------------------
(* The theorems *)

\* A page that has not asked.
LEMMA PatientInvInit == LinkInit => PatientInv
<1> SUFFICES ASSUME LinkInit PROVE PatientInv
  OBVIOUS
<1>1. /\ patient \in BOOLEAN /\ page = PageInit /\ linkWork = {}
      /\ wire = [open |-> FALSE, pending |-> NoRequest, up |-> <<>>]
      /\ cache = [a \in Links \X BOOLEAN |-> 0]
  BY DEF LinkInit
<1>2. page \in Page /\ page.view = "instructions" /\ page.elevation = NoLink /\ ~ page.drawn
  BY <1>1, RequestsAreThere, MaxLinkAsksAssumption DEF PageInit, Page, MaybeLink
<1>3. /\ wire \in [open : BOOLEAN, pending : Request \cup {NoRequest}, up : Seq(Request)]
      /\ ~ wire.open /\ wire.up = <<>> /\ Len(wire.up) = 0 /\ wire.pending = NoRequest
  BY <1>1
<1>4. Waiting = {}
  BY <1>3 DEF Waiting
<1>5. LinkTypeOK /\ InOrder
  BY <1>1, <1>2, <1>3, <1>4 DEF LinkTypeOK, InOrder, ULTRA
<1>6. OneStart /\ Chain /\ CacheFits /\ \A t \in linkWork : Shaped(t)
  BY <1>1, LinksAssumption DEF OneStart, Chain, CacheFits, ULTRA
<1>7. VerdictIsOfBoth /\ OneAtATime /\ OfTheSelected /\ ShownIsThere
  BY <1>1, <1>2, <1>4 DEF VerdictIsOfBoth, OneAtATime, OfTheSelected, ShownIsThere
<1>8. QED
  BY <1>5, <1>6, <1>7 DEF PatientInv, ChainInv

\* Every step keeps the invariant.
LEMMA PatientInvStep == PatientInv /\ [LinkNext]_linkVars => PatientInv'
<1> SUFFICES ASSUME PatientInv, [LinkNext]_linkVars PROVE PatientInv'
  OBVIOUS
<1>1. CASE LinkUser
  BY <1>1, SelectLinkKeeps, DropLinkKeeps, ZoomKeeps, MovesKeep, SocketKeeps DEF LinkUser
<1>2. CASE OpenSocket \/ ReceiveLink
  BY <1>2, SocketKeeps, ReceiveLinkKeeps
<1>3. ASSUME NEW t \in linkWork, TaskStep(t) PROVE PatientInv'
  BY <1>3, GetLinkInfoKeeps, GetTerrainProfileKeeps, LookUpProfileKeeps, ComputeProfileKeeps,
     ProfileAnswersKeep DEF TaskStep
<1>4. CASE UNCHANGED linkVars
  <2>1. UNCHANGED <<patient, page, wire, linkWork, cache, unanswered>>
    BY <1>4 DEF linkVars
  <2>2. Waiting' = Waiting
    BY <2>1 DEF Waiting
  <2>3. /\ wire \in [open : BOOLEAN, pending : Request \cup {NoRequest}, up : Seq(Request)]
        /\ InOrder
    BY DEF PatientInv, ChainInv, LinkTypeOK
  <2>4. QED
    BY <2>1, <2>2, <2>3, FewerKeep DEF InOrder
<1>5. QED
  BY <1>1, <1>2, <1>3, <1>4 DEF LinkNext, LinkSystem

\* The tasks of a request are one chain, ever finer, and none finer than the link allows
\* (getLiDARProfile, which starts its successor).
THEOREM RefinementsAreChains == LinkSpec => []RefinementIsAChain
<1>1. PatientInv => RefinementIsAChain
  BY DEF PatientInv, ChainInv, Chain, Chained, Finer, CacheFits, LinkTypeOK, RefinementIsAChain
<1>2. PatientInv /\ [LinkNext]_linkVars => PatientInv'
  BY PatientInvStep
<1>3. QED
  BY PatientInvInit, <1>1, <1>2, PTL DEF LinkSpec

\* A user who waits is shown the point cloud of the link he selected and the terrain below it,
\* or no terrain when a zoom found none, and the obstructions computed from that link's, whatever
\* links he drew, dragged, zoomed into and deleted before (the callbacks of LinkCheckPage).
THEOREM PatientUsersSeeTheLink == LinkSpec => []PatientSeesTheLink
<1>1. PatientInv => PatientSeesTheLink
  <2>1. SUFFICES ASSUME PatientInv, patient, page.view = "chart"
                 PROVE  /\ page.lidar.link = page.selected /\ page.render = page.selected
                        /\ \/ /\ page.elevation = page.selected
                              /\ page.verdict = <<page.elevation, page.lidar>>
                           \/ /\ page.elevation = NoLink /\ unanswered # {}
                              /\ page.verdict[1] = page.selected
                              /\ page.verdict[2].link = page.selected
    BY DEF PatientSeesTheLink
  <2>2. page.selected # NoLink
    BY <2>1 DEF PatientInv, ChainInv, LinkTypeOK
  <2>3. QED
    BY <2>1, <2>2 DEF PatientInv, VerdictIsOfBoth, OfTheSelected, ShownIsThere
<1>2. PatientInv /\ [LinkNext]_linkVars => PatientInv'
  BY PatientInvStep
<1>3. QED
  BY PatientInvInit, <1>1, <1>2, PTL DEF LinkSpec

(***************************************************************************)
(*                     The height profile along a link                     *)
(***************************************************************************)

------------------------------------------------------------------------------
(* Sets in order *)

\* A relation that puts any two elements of a set in order.
Orders(R, S) ==
    /\ \A x \in S : <<x, x>> \notin R
    /\ \A x, y, z \in S : <<x, y>> \in R /\ <<y, z>> \in R => <<x, z>> \in R
    /\ \A x, y \in S : x # y => <<x, y>> \in R \/ <<y, x>> \in R

\* A sequence, as long as the set, of elements of which each is before the later ones.
InLine(q, S, R) ==
    /\ q \in [1 .. Cardinality(S) -> S]
    /\ \A i, j \in 1 .. Cardinality(S) : i < j => <<q[i], q[j]>> \in R

\* An element more has its place in the line.
LEMMA OneMoreInLine ==
    ASSUME NEW S, IsFiniteSet(S), NEW R, Orders(R, S), NEW T \in SUBSET S, NEW x \in S \ T,
           NEW q, InLine(q, T, R)
    PROVE  \E p : InLine(p, T \cup {x}, R)
<1> DEFINE n == Cardinality(T)
           K == {i \in 1 .. n : <<q[i], x>> \in R}
<1>1. /\ n \in Nat /\ Cardinality(T \cup {x}) = n + 1
  <2>1. IsFiniteSet(T)
    BY FS_Subset
  <2>2. QED
    BY <2>1, FS_CardinalityType, FS_AddElement
<1>2. /\ \A i \in 1 .. n : q[i] \in T
      /\ \A i, j \in 1 .. n : i < j => <<q[i], q[j]>> \in R
  BY DEF InLine
<1>3. \A i \in 1 .. n : q[i] \in S /\ q[i] # x
  BY <1>2
<1>4. \A i \in 1 .. n : <<q[i], x>> \in R \/ <<x, q[i]>> \in R
  BY <1>3 DEF Orders
<1>5. \A i, j \in 1 .. n : i < j /\ j \in K => i \in K
  BY <1>2, <1>3 DEF Orders
<1>6. PICK k \in 0 .. n : \A i \in 1 .. n : i \in K <=> i <= k
  <2>1. CASE K = {}
    <3>1. \A i \in 1 .. n : i \in K <=> i <= 0
      BY <2>1
    <3>2. 0 \in 0 .. n
      BY <1>1
    <3> HIDE DEF K
    <3>3. QED
      BY <3>1, <3>2
  <2>2. CASE K # {}
    <3>1. K \in SUBSET (1 .. n)
      OBVIOUS
    <3> HIDE DEF K, n
    <3>2. Max(K) \in K /\ \A i \in K : i <= Max(K)
      BY <1>1, <2>2, <3>1, MaxOfSome
    <3>3. Max(K) \in 1 .. n /\ Max(K) \in 0 .. n
      <4>1. Max(K) \in 1 .. n
        BY <3>1, <3>2
      <4> HIDE DEF Max
      <4>2. QED
        BY <1>1, <4>1
    <3>4. ASSUME NEW i \in 1 .. n PROVE i \in K <=> i <= Max(K)
      <4>1. i < Max(K) => i \in K
        BY <1>5, <3>2, <3>3
      <4>2. i <= Max(K) => i < Max(K) \/ i = Max(K)
        BY <1>1, <3>3
      <4>3. QED
        BY <3>2, <4>1, <4>2
    <3>5. QED
      BY <3>3, <3>4
  <2>3. QED
    BY <2>1, <2>2
<1> DEFINE p == [i \in 1 .. n + 1 |-> IF i <= k THEN q[i] ELSE IF i = k + 1 THEN x ELSE q[i - 1]]
<1>7. \A i \in 1 .. n : i <= k => <<q[i], x>> \in R
  BY <1>6
<1>8. \A i \in 1 .. n : i > k => <<x, q[i]>> \in R
  <2>1. \A i \in 1 .. n : i > k => ~ (i <= k)
    BY <1>1
  <2>2. \A i \in 1 .. n : i > k => <<q[i], x>> \notin R
    BY <1>6, <2>1
  <2>3. QED
    BY <1>4, <2>2
<1>9. /\ \A i \in 1 .. n + 1 : i <= k => i \in 1 .. n /\ p[i] = q[i]
      /\ k + 1 \in 1 .. n + 1 /\ p[k + 1] = x
      /\ \A i \in 1 .. n + 1 : i > k + 1 => i - 1 \in 1 .. n /\ i - 1 > k /\ p[i] = q[i - 1]
  BY <1>1
<1>10. \A i \in 1 .. n + 1 : i <= k \/ i = k + 1 \/ i > k + 1
  BY <1>1
<1>11. p \in [1 .. n + 1 -> T \cup {x}]
  <2>1. \A i \in 1 .. n + 1 : p[i] \in T \cup {x}
    <3> HIDE DEF p, n
    <3>1. QED
      BY <1>2, <1>9, <1>10
  <2>2. QED
    BY <2>1
<1>12. ASSUME NEW i \in 1 .. n + 1, NEW j \in 1 .. n + 1, i < j PROVE <<p[i], p[j]>> \in R
  <2> HIDE DEF p, n, K
  <2>1. CASE i <= k /\ j <= k
    BY <1>2, <1>9, <1>12, <2>1
  <2>2. CASE i <= k /\ j = k + 1
    BY <1>7, <1>9, <2>2
  <2>3. CASE i <= k /\ j > k + 1
    <3>1. p[i] = q[i] /\ p[j] = q[j - 1] /\ i \in 1 .. n /\ j - 1 \in 1 .. n /\ j - 1 > k
      BY <1>9, <2>3
    <3>2. i < j - 1
      BY <1>1, <2>3, <3>1
    <3>3. QED
      BY <1>2, <3>1, <3>2
  <2>4. CASE i = k + 1 /\ j > k + 1
    BY <1>8, <1>9, <2>4
  <2>5. CASE i > k + 1
    <3>1. j > k + 1
      BY <1>1, <1>12, <2>5
    <3>2. p[i] = q[i - 1] /\ p[j] = q[j - 1] /\ i - 1 \in 1 .. n /\ j - 1 \in 1 .. n
      BY <1>9, <2>5, <3>1
    <3>3. i - 1 < j - 1
      BY <1>1, <1>12
    <3>4. QED
      BY <1>2, <3>2, <3>3
  <2>6. i = k + 1 => j > k + 1
    BY <1>1, <1>12
  <2>7. QED
    BY <1>10, <2>1, <2>2, <2>3, <2>4, <2>5, <2>6
<1> HIDE DEF p, n
<1>13. InLine(p, T \cup {x}, R)
  BY <1>1, <1>11, <1>12 DEF InLine, n
<1>14. QED
  BY <1>13

\* A finite set can be lined up in any order.
LEMMA LineUp ==
    ASSUME NEW S, IsFiniteSet(S), NEW R, Orders(R, S)
    PROVE  \E q : InLine(q, S, R)
<1> DEFINE F == {T \in SUBSET S : \E q : InLine(q, T, R)}
<1>1. {} \in F
  <2>1. Cardinality({}) = 0
    BY FS_EmptySet
  <2>2. InLine(<<>>, {}, R)
    BY <2>1 DEF InLine
  <2>3. QED
    BY <2>2
<1>2. ASSUME NEW T \in SUBSET S, NEW x \in S \ T, T \in F PROVE T \cup {x} \in F
  <2>1. \E p : InLine(p, T \cup {x}, R)
    BY <1>2, OneMoreInLine
  <2>2. QED
    BY <2>1
<1> HIDE DEF F
<1>3. S \in F
  BY <1>1, <1>2, Growing
<1>4. QED
  BY <1>3 DEF F

\* The line has every element.
LEMMA AllInLine ==
    ASSUME NEW S, IsFiniteSet(S), NEW R, Orders(R, S), NEW q, InLine(q, S, R)
    PROVE  \A x \in S : \E i \in 1 .. Cardinality(S) : q[i] = x
<1> DEFINE n == Cardinality(S)
<1>1. n \in Nat /\ IsFiniteSet(1 .. n) /\ Cardinality(1 .. n) = n
  BY FS_CardinalityType, FS_Interval
<1>2. q \in [1 .. n -> S]
  BY DEF InLine
<1>3. \A i, j \in 1 .. n : i # j => q[i] # q[j]
  <2>1. \A i, j \in 1 .. n : i # j => i < j \/ j < i
    BY <1>1
  <2>2. \A i, j \in 1 .. n : i < j => q[i] # q[j]
    BY <1>2 DEF InLine, Orders
  <2> HIDE DEF n
  <2>3. QED
    BY <2>1, <2>2
<1>4. q \in Injection(1 .. n, S)
  <2> HIDE DEF n
  <2>1. IsInjective(q)
    BY <1>2, <1>3 DEF IsInjective
  <2>2. QED
    BY <1>2, <2>1 DEF Injection
<1>5. q \in Surjection(1 .. n, S)
  BY <1>1, <1>4, FS_Injection
<1>6. QED
  BY <1>5 DEF Surjection

------------------------------------------------------------------------------
(* Runs *)

Link == 0 .. Cells - 1

\* Stretches of the link, and their cells.
Piece == {r \in Link \X (1 .. Cells) : r[1] < r[2]}

CellsOf(r) == r[1] .. r[2] - 1

\* The runs of a set of cells part it.
LEMMA RunsPart ==
    ASSUME SurveysAssumption, NEW S \in SUBSET Link
    PROVE  /\ IsFiniteSet(Runs(S)) /\ Runs(S) \subseteq Piece
           /\ \A r \in Runs(S) : CellsOf(r) \subseteq S
           /\ \A c \in S : \E r \in Runs(S) : c \in CellsOf(r)
           /\ \A r, s \in Runs(S) : CellsOf(r) \cap CellsOf(s) # {} => r = s
<1>1. Cells \in Nat \ {0}
  BY DEF SurveysAssumption
<1>2. Runs(S) \subseteq Piece
  BY DEF Runs, Piece, Link
<1>3. IsFiniteSet(Runs(S))
  <2>1. IsFiniteSet(0 .. Cells - 1) /\ IsFiniteSet(1 .. Cells)
    BY <1>1, FS_Interval
  <2>2. IsFiniteSet((0 .. Cells - 1) \X (1 .. Cells))
    BY <2>1, FS_Product
  <2>3. Runs(S) \subseteq (0 .. Cells - 1) \X (1 .. Cells)
    BY DEF Runs
  <2>4. QED
    BY <2>2, <2>3, FS_Subset
<1>4. \A r \in Runs(S) : CellsOf(r) \subseteq S
  BY DEF Runs, CellsOf
<1>5. ASSUME NEW c \in S PROVE \E r \in Runs(S) : c \in CellsOf(r)
  <2>1. c \in 0 .. Cells - 1
    BY DEF Link
  <2> DEFINE B == {b \in 0 .. c : b .. c \subseteq S}
             E == {e \in c + 1 .. Cells : e \notin S}
  <2>2. PICK b \in B : \A m \in B : b <= m
    <3>1. c \in B /\ B \subseteq Nat
      BY <1>1, <1>3, <2>1
    <3> HIDE DEF B
    <3>2. QED
      BY <3>1, LeastNumber
  <2>3. PICK e \in E : \A m \in E : e <= m
    <3>1. Cells \in E /\ E \subseteq Nat
      BY <1>1, <2>1 DEF Link
    <3> HIDE DEF E
    <3>2. QED
      BY <3>1, LeastNumber
  <2>4. b - 1 \notin S
    <3>1. SUFFICES ASSUME b - 1 \in S PROVE FALSE
      OBVIOUS
    <3>2. b - 1 \in 0 .. c
      BY <1>1, <2>1, <3>1 DEF Link
    <3>3. (b - 1) .. c \subseteq S
      <4>1. \A x \in (b - 1) .. c : x = b - 1 \/ x \in b .. c
        BY <2>1
      <4>2. QED
        BY <3>1, <4>1
    <3>4. QED
      BY <2>1, <2>2, <3>2, <3>3
  <2>5. b .. e - 1 \subseteq S
    <3>1. ASSUME NEW x \in b .. e - 1 PROVE x \in S
      <4>1. CASE x <= c
        BY <2>1, <4>1
      <4>2. CASE x > c
        <5>1. x \in c + 1 .. Cells /\ ~ (e <= x)
          BY <1>1, <2>1, <4>2
        <5>2. QED
          BY <2>3, <5>1
      <4>3. QED
        BY <2>1, <4>1, <4>2
    <3>2. QED
      BY <3>1
  <2>6. b \in 0 .. Cells - 1 /\ e \in 1 .. Cells /\ b < e /\ e \notin S /\ c \in b .. e - 1
    BY <1>1, <2>1
  <2> HIDE DEF B, E
  <2>7. <<b, e>> \in Runs(S)
    BY <2>4, <2>5, <2>6 DEF Runs
  <2>8. c \in CellsOf(<<b, e>>)
    BY <2>6 DEF CellsOf
  <2>9. QED
    BY <2>7, <2>8
<1>6. ASSUME NEW r \in Runs(S), NEW s \in Runs(S), NEW c \in CellsOf(r), c \in CellsOf(s)
      PROVE  r[1] <= s[1] /\ r[2] <= s[2]
  <2>1. /\ r[1] \in Int /\ r[2] \in Int /\ s[1] \in Int /\ s[2] \in Int
        /\ r[1] - 1 \notin S /\ s[2] \notin S
        /\ r[1] .. r[2] - 1 \subseteq S /\ s[1] .. s[2] - 1 \subseteq S
    BY <1>1 DEF Runs
  <2>2. r[1] <= c /\ c < r[2] /\ s[1] <= c /\ c < s[2] /\ c \in Int
    BY <1>6, <2>1 DEF CellsOf
  <2>3. ~ (s[1] < r[1])
    <3>1. s[1] < r[1] => r[1] - 1 \in s[1] .. s[2] - 1
      BY <2>1, <2>2
    <3>2. QED
      BY <2>1, <3>1
  <2>4. ~ (s[2] < r[2])
    <3>1. s[2] < r[2] => s[2] \in r[1] .. r[2] - 1
      BY <2>1, <2>2
    <3>2. QED
      BY <2>1, <3>1
  <2>5. QED
    BY <2>1, <2>3, <2>4
<1>7. ASSUME NEW r \in Runs(S), NEW s \in Runs(S), CellsOf(r) \cap CellsOf(s) # {} PROVE r = s
  <2>1. PICK c : c \in CellsOf(r) /\ c \in CellsOf(s)
    BY <1>7
  <2>2. r[1] <= s[1] /\ r[2] <= s[2] /\ s[1] <= r[1] /\ s[2] <= r[2]
    BY <1>6, <2>1
  <2>3. /\ r = <<r[1], r[2]>> /\ s = <<s[1], s[2]>>
        /\ r[1] \in Int /\ r[2] \in Int /\ s[1] \in Int /\ s[2] \in Int
    BY <1>1 DEF Runs
  <2>4. QED
    BY <2>2, <2>3
<1>8. QED
  BY <1>2, <1>3, <1>4, <1>5, <1>7

------------------------------------------------------------------------------
(* The invariant *)

\* The cells that no segment has.
Uncut == IF stage \in {"query", "segments"} THEN left ELSE {}

\* A segment's cloud covers it and no newer one has any of it, or none has.
Fits(s) ==
    \/ /\ s[2] = NoCloud /\ stage \notin {"query", "segments"} /\ CellsOf(s[1]) \subseteq left
    \/ \E k \in 1 .. taken : /\ s[2] = survey[k] /\ CellsOf(s[1]) \subseteq survey[k].cells
                             /\ \A j \in 1 .. k - 1 : CellsOf(s[1]) \cap survey[j].cells = {}

SurveyInv ==
    /\ survey \in Seq(Cloud) /\ taken \in 0 .. Len(survey)
    /\ left = {c \in Link : \A j \in 1 .. taken : c \notin survey[j].cells}
    /\ stage = "query" => taken = 0 /\ segments = {}
    /\ stage # "query" =>
          \A i, j \in 1 .. Len(survey) : i < j => survey[i].year >= survey[j].year
    /\ stage \notin {"query", "segments"} => taken = Len(survey)

SegmentsInv ==
    /\ IsFiniteSet(segments)
    /\ \A s \in segments : /\ s = <<s[1], s[2]>> /\ s[1] \in Piece
                           /\ CellsOf(s[1]) \cap Uncut = {} /\ Fits(s)
    /\ \A c \in Link : c \in Uncut \/ \E s \in segments : c \in CellsOf(s[1])
    /\ \A s, t \in segments : CellsOf(s[1]) \cap CellsOf(t[1]) # {} => s = t

ProfileInv ==
    LET data == Combined(segments)
    IN  /\ stage = "refused" => ~ \E i \in DOMAIN data : data[i].of # {}
        /\ stage = "done" => profile = Interpolated(data) /\ \E i \in DOMAIN data : data[i].of # {}

EngineInv ==
    /\ stage \in {"query", "segments", "combine", "done", "refused"}
    /\ SurveyInv /\ SegmentsInv /\ ProfileInv

\* Nothing is taken of the link when it is asked for.
LEMMA EngineStart == SurveysAssumption /\ EngineInit => EngineInv
<1> SUFFICES ASSUME SurveysAssumption, EngineInit PROVE EngineInv
  OBVIOUS
<1>1. /\ survey \in Seq(Cloud) /\ taken = 0 /\ left = Link /\ segments = {} /\ stage = "query"
  BY DEF EngineInit, SurveysAssumption, Link
<1>2. SurveyInv
  BY <1>1 DEF SurveyInv
<1>3. SegmentsInv
  BY <1>1, FS_EmptySet DEF SegmentsInv, Uncut
<1>4. ProfileInv
  BY <1>1 DEF ProfileInv
<1>5. QED
  BY <1>1, <1>2, <1>3, <1>4 DEF EngineInv

\* Sorting leaves the same clouds, the newest first.
LEMMA NewestAreFirst ==
    ASSUME NEW s \in Seq(Cloud)
    PROVE  /\ NewestFirst(s) \in Seq(Cloud) /\ Len(NewestFirst(s)) = Len(s)
           /\ \A i, j \in 1 .. Len(s) : i < j => NewestFirst(s)[i].year >= NewestFirst(s)[j].year
<1> DEFINE n == Len(s)
           places == 1 .. n
           R == {a \in places \X places : Newer(s, a[1], a[2])}
           Good(p) == \A i, j \in places : i < j => Newer(s, p[i], p[j])
<1>1. n \in Nat /\ \A i \in places : s[i].year \in Nat
  <2>1. n \in Nat /\ \A i \in places : s[i] \in Cloud
    OBVIOUS
  <2>2. \A c \in Cloud : c.year \in Nat
    BY DEF Cloud
  <2> HIDE DEF n
  <2>3. QED
    BY <2>1, <2>2
<1>2. IsFiniteSet(places) /\ Cardinality(places) = n
  <2> HIDE DEF n
  <2>1. QED
    BY <1>1, FS_Interval
<1>3. Orders(R, places)
  <2>1. \A x \in places : <<x, x>> \notin R
    BY <1>1 DEF Newer
  <2>2. \A x, y, z \in places : <<x, y>> \in R /\ <<y, z>> \in R => <<x, z>> \in R
    BY <1>1 DEF Newer
  <2>3. \A x, y \in places : x # y => <<x, y>> \in R \/ <<y, x>> \in R
    BY <1>1 DEF Newer
  <2> HIDE DEF R, places
  <2>4. QED
    BY <2>1, <2>2, <2>3 DEF Orders
<1>4. \E p \in [places -> places] : Good(p)
  <2>1. PICK p : InLine(p, places, R)
    <3> HIDE DEF R, places
    <3>1. QED
      BY <1>2, <1>3, LineUp
  <2>2. p \in [places -> places] /\ \A i, j \in places : i < j => <<p[i], p[j]>> \in R
    BY <1>2, <2>1 DEF InLine
  <2>3. Good(p)
    BY <2>2
  <2>4. QED
    BY <2>2, <2>3
<1> DEFINE order == CHOOSE p \in [places -> places] : Good(p)
<1>5. order \in [places -> places] /\ Good(order)
  <2> HIDE DEF Good
  <2>1. QED
    BY <1>4
<1>6. NewestFirst(s) = [i \in places |-> s[order[i]]]
  BY DEF NewestFirst
<1> HIDE DEF order
<1>7. \A i \in places : NewestFirst(s)[i] = s[order[i]] /\ order[i] \in places
  BY <1>5, <1>6
<1>8. NewestFirst(s) \in Seq(Cloud) /\ Len(NewestFirst(s)) = n
  BY <1>1, <1>5, <1>6
<1>9. \A i, j \in places : i < j => s[order[i]].year >= s[order[j]].year
  <2>1. ASSUME NEW i \in places, NEW j \in places, i < j PROVE s[order[i]].year >= s[order[j]].year
    <3>1. Newer(s, order[i], order[j])
      BY <1>5, <2>1
    <3>2. s[order[i]].year \in Nat /\ s[order[j]].year \in Nat
      BY <1>1, <1>7
    <3> HIDE DEF places, Good
    <3>3. QED
      BY <3>1, <3>2 DEF Newer
  <2>2. QED
    BY <2>1
<1>10. QED
  BY <1>7, <1>8, <1>9

\* Sorting keeps what is known: nothing has been taken of the clouds yet.
LEMMA QueryKeeps == EngineInv /\ Query => EngineInv'
<1> SUFFICES ASSUME EngineInv, Query PROVE EngineInv'
  OBVIOUS
<1>1. /\ stage = "query" /\ stage' = "segments" /\ survey' = NewestFirst(survey)
      /\ taken' = taken /\ left' = left /\ segments' = segments /\ profile' = profile
  BY DEF Query
<1>2. survey \in Seq(Cloud) /\ taken = 0 /\ segments = {} /\ left = Link
  BY <1>1 DEF EngineInv, SurveyInv
<1>3. SurveyInv'
  <2>1. /\ survey' \in Seq(Cloud) /\ Len(survey') = Len(survey)
        /\ \A i, j \in 1 .. Len(survey') : i < j => survey'[i].year >= survey'[j].year
    BY <1>1, <1>2, NewestAreFirst
  <2>2. QED
    BY <1>1, <1>2, <2>1 DEF SurveyInv
<1>4. SegmentsInv'
  BY <1>1, <1>2, FS_EmptySet DEF SegmentsInv, Uncut
<1>5. ProfileInv'
  BY <1>1 DEF ProfileInv
<1>6. QED
  BY <1>1, <1>3, <1>4, <1>5 DEF EngineInv

\* A piece added for each run of what a set has of the uncut cells.
LEMMA PiecesAdded ==
    ASSUME SurveysAssumption, SegmentsInv, NEW cells, NEW cloud,
           segments' = segments \cup {<<r, cloud>> : r \in Runs(Uncut \cap cells)},
           Uncut \subseteq Link, Uncut' = Uncut \ cells,
           \A s \in segments : Fits(s) => Fits(s)',
           \A r \in Runs(Uncut \cap cells) : Fits(<<r, cloud>>)'
    PROVE  SegmentsInv'
<1> DEFINE S == Uncut \cap cells
           New == {<<r, cloud>> : r \in Runs(S)}
<1>1. S \in SUBSET Link
  OBVIOUS
<1> HIDE DEF S
<1>2. /\ IsFiniteSet(Runs(S)) /\ Runs(S) \subseteq Piece
      /\ \A r \in Runs(S) : CellsOf(r) \subseteq S
      /\ \A c \in S : \E r \in Runs(S) : c \in CellsOf(r)
      /\ \A r, s \in Runs(S) : CellsOf(r) \cap CellsOf(s) # {} => r = s
  BY <1>1, RunsPart
<1>3. segments' = segments \cup New
  BY DEF S
<1>4. IsFiniteSet(segments')
  <2>1. IsFiniteSet(New)
    <3> DEFINE f == [r \in Runs(S) |-> <<r, cloud>>]
    <3>1. f \in Surjection(Runs(S), New)
      BY DEF Surjection
    <3> HIDE DEF f, New
    <3>2. QED
      BY <1>2, <3>1, FS_Surjection
  <2>2. IsFiniteSet(segments)
    BY DEF SegmentsInv
  <2> HIDE DEF New
  <2>3. IsFiniteSet(segments \cup New)
    BY <2>1, <2>2, FS_Union
  <2>4. QED
    BY <1>3, <2>3
<1>5. ASSUME NEW s \in New
      PROVE  /\ s = <<s[1], s[2]>> /\ s[1] \in Runs(S) /\ s[2] = cloud
             /\ s[1] \in Piece /\ CellsOf(s[1]) \subseteq S /\ Fits(s)'
  <2>1. PICK r \in Runs(S) : s = <<r, cloud>>
    OBVIOUS
  <2>2. Fits(<<r, cloud>>)'
    BY DEF S
  <2>3. QED
    BY <1>2, <2>1, <2>2
<1>6. ASSUME NEW s \in segments
      PROVE  s = <<s[1], s[2]>> /\ s[1] \in Piece /\ CellsOf(s[1]) \cap Uncut = {} /\ Fits(s)'
  BY DEF SegmentsInv
<1>7. S \cap Uncut' = {} /\ S \subseteq Uncut /\ Uncut' \subseteq Uncut /\ Uncut \subseteq Uncut' \cup S
  BY DEF S
<1> HIDE DEF New
<1>8. \A s \in segments' : s = <<s[1], s[2]>> /\ s[1] \in Piece /\ CellsOf(s[1]) \cap Uncut' = {} /\ Fits(s)'
  BY <1>3, <1>5, <1>6, <1>7
<1>9. \A c \in Link : c \in Uncut' \/ \E s \in segments' : c \in CellsOf(s[1])
  <2> SUFFICES ASSUME NEW c \in Link, c \notin Uncut' PROVE \E s \in segments' : c \in CellsOf(s[1])
    OBVIOUS
  <2>1. CASE c \in S
    <3>1. PICK r \in Runs(S) : c \in CellsOf(r)
      BY <1>2, <2>1
    <3>2. <<r, cloud>> \in New /\ <<r, cloud>>[1] = r
      BY DEF New
    <3>3. QED
      BY <1>3, <3>1, <3>2
  <2>2. CASE c \notin S
    <3>1. PICK s \in segments : c \in CellsOf(s[1])
      BY <1>7, <2>2 DEF SegmentsInv
    <3>2. QED
      BY <1>3, <3>1
  <2>3. QED
    BY <2>1, <2>2
<1>10. \A s, t \in segments' : CellsOf(s[1]) \cap CellsOf(t[1]) # {} => s = t
  <2> SUFFICES ASSUME NEW s \in segments', NEW t \in segments', CellsOf(s[1]) \cap CellsOf(t[1]) # {}
               PROVE  s = t
    OBVIOUS
  <2>1. CASE s \in segments /\ t \in segments
    BY <2>1 DEF SegmentsInv
  <2>2. CASE s \in New /\ t \in New
    BY <1>2, <1>5, <2>2
  <2>3. CASE (s \in segments /\ t \in New) \/ (s \in New /\ t \in segments)
    BY <1>5, <1>6, <1>7, <2>3
  <2>4. QED
    BY <1>3, <2>1, <2>2, <2>3
<1>11. QED
  BY <1>4, <1>8, <1>9, <1>10 DEF SegmentsInv

\* A cloud takes the cells that are left and that it has; no newer cloud has those.
LEMMA TakeCloudKeeps == SurveysAssumption /\ EngineInv /\ TakeCloud => EngineInv'
<1> SUFFICES ASSUME SurveysAssumption, EngineInv, TakeCloud PROVE EngineInv'
  OBVIOUS
<1>0. PICK k, cloud : k = taken + 1 /\ cloud = survey[k]
  OBVIOUS
<1>1. /\ stage = "segments" /\ stage' = "segments" /\ taken < Len(survey) /\ taken' = k
      /\ segments' = segments \cup {<<r, cloud>> : r \in Runs(left \cap cloud.cells)}
      /\ left' = left \ cloud.cells /\ survey' = survey /\ profile' = profile
  BY <1>0 DEF TakeCloud
<1>2. SurveyInv /\ SegmentsInv
  BY DEF EngineInv
<1>3. /\ survey \in Seq(Cloud) /\ taken \in Nat /\ k \in 1 .. Len(survey) /\ k \in Nat
      /\ left = {c \in Link : \A j \in 1 .. taken : c \notin survey[j].cells}
      /\ \A j \in 1 .. k : j \in 1 .. taken \/ j = k
      /\ \A j \in 1 .. taken : j \in 1 .. k
      /\ k \in 1 .. k
  BY <1>0, <1>1, <1>2 DEF SurveyInv
<1>4. 1 .. k - 1 = 1 .. taken
  BY <1>0, <1>3
<1>5. SurveyInv'
  <2>1. left' = {c \in Link : \A j \in 1 .. k : c \notin survey[j].cells}
    BY <1>0, <1>1, <1>3
  <2>2. k \in 0 .. Len(survey)
    BY <1>3
  <2>3. \A i, j \in 1 .. Len(survey) : i < j => survey[i].year >= survey[j].year
    BY <1>1, <1>2 DEF SurveyInv
  <2>4. QED
    BY <1>1, <1>3, <2>1, <2>2, <2>3 DEF SurveyInv
<1>6. Uncut = left /\ Uncut' = left \ cloud.cells /\ left \subseteq Link
  BY <1>1, <1>3 DEF Uncut
<1>7. ASSUME NEW s \in segments, Fits(s) PROVE Fits(s)'
  BY <1>1, <1>3, <1>7 DEF Fits
<1>8. ASSUME NEW r \in Runs(left \cap cloud.cells) PROVE Fits(<<r, cloud>>)'
  <2>1. left \cap cloud.cells \in SUBSET Link
    BY <1>6
  <2>2. CellsOf(r) \subseteq left /\ CellsOf(r) \subseteq cloud.cells
    <3> DEFINE S == left \cap cloud.cells
    <3> HIDE DEF S
    <3>1. CellsOf(r) \subseteq S
      BY <2>1, RunsPart DEF S
    <3>2. QED
      BY <3>1 DEF S
  <2>3. \A j \in 1 .. k - 1 : CellsOf(r) \cap survey[j].cells = {}
    BY <1>3, <1>4, <2>2
  <2>4. <<r, cloud>>[1] = r /\ <<r, cloud>>[2] = survey[k]
    BY <1>0
  <2>5. \E i \in 1 .. k : /\ <<r, cloud>>[2] = survey[i] /\ CellsOf(<<r, cloud>>[1]) \subseteq survey[i].cells
                         /\ \A j \in 1 .. i - 1 : CellsOf(<<r, cloud>>[1]) \cap survey[j].cells = {}
    BY <1>0, <1>3, <2>2, <2>3, <2>4
  <2>6. QED
    BY <1>1, <2>5 DEF Fits
<1>9. SegmentsInv'
  <2>1. segments' = segments \cup {<<r, cloud>> : r \in Runs(Uncut \cap cloud.cells)}
    BY <1>1, <1>6
  <2>2. \A r \in Runs(Uncut \cap cloud.cells) : Fits(<<r, cloud>>)'
    BY <1>6, <1>8
  <2>3. PICK cells : cells = cloud.cells
    OBVIOUS
  <2>4. /\ segments' = segments \cup {<<r, cloud>> : r \in Runs(Uncut \cap cells)}
        /\ \A r \in Runs(Uncut \cap cells) : Fits(<<r, cloud>>)'
        /\ Uncut' = Uncut \ cells /\ Uncut \subseteq Link
    BY <1>6, <2>1, <2>2, <2>3
  <2>5. SegmentsInv
    BY <1>2
  <2>6. QED
    BY <1>7, <2>4, <2>5, PiecesAdded
<1>10. ProfileInv'
  BY <1>1 DEF ProfileInv
<1>11. QED
  BY <1>1, <1>5, <1>9, <1>10 DEF EngineInv

\* When all clouds have been taken, no cloud has what is left.
LEMMA TakeRestKeeps == SurveysAssumption /\ EngineInv /\ TakeRest => EngineInv'
<1> SUFFICES ASSUME SurveysAssumption, EngineInv, TakeRest PROVE EngineInv'
  OBVIOUS
<1>1. /\ stage = "segments" /\ stage' = "combine" /\ taken = Len(survey) /\ taken' = taken
      /\ segments' = segments \cup {<<r, NoCloud>> : r \in Runs(left)}
      /\ left' = left /\ survey' = survey /\ profile' = profile
  BY DEF TakeRest
<1>2. SurveyInv /\ SegmentsInv
  BY DEF EngineInv
<1>3. SurveyInv'
  BY <1>1, <1>2 DEF SurveyInv
<1>4. Uncut = left /\ Uncut' = {} /\ left \subseteq Link /\ left \cap left = left /\ left \ left = {}
  BY <1>1, <1>2 DEF Uncut, SurveyInv
<1>5. ASSUME NEW s \in segments, Fits(s) PROVE Fits(s)'
  BY <1>1, <1>5 DEF Fits
<1>6. ASSUME NEW r \in Runs(left) PROVE Fits(<<r, NoCloud>>)'
  <2>1. CellsOf(r) \subseteq left
    BY <1>4, RunsPart
  <2>2. <<r, NoCloud>>[1] = r /\ <<r, NoCloud>>[2] = NoCloud
    OBVIOUS
  <2>3. QED
    BY <1>1, <2>1, <2>2 DEF Fits
<1>7. SegmentsInv'
  <2>1. segments' = segments \cup {<<r, NoCloud>> : r \in Runs(Uncut \cap left)}
    BY <1>1, <1>4
  <2>2. \A r \in Runs(Uncut \cap left) : Fits(<<r, NoCloud>>)'
    BY <1>4, <1>6
  <2>3. Uncut' = Uncut \ left /\ Uncut \subseteq Link
    BY <1>4
  <2>4. QED
    BY <1>2, <1>5, <2>1, <2>2, <2>3, PiecesAdded
<1>8. ProfileInv'
  BY <1>1 DEF ProfileInv
<1>9. QED
  BY <1>1, <1>3, <1>7, <1>8 DEF EngineInv

\* The samples joined are looked at once.
LEMMA CombineKeeps == EngineInv /\ Combine => EngineInv'
<1> SUFFICES ASSUME EngineInv, Combine PROVE EngineInv'
  OBVIOUS
<1> DEFINE data == Combined(segments)
<1>1. /\ stage = "combine" /\ stage' \in {"done", "refused"}
      /\ survey' = survey /\ taken' = taken /\ left' = left /\ segments' = segments
      /\ stage' = "done" => profile' = Interpolated(data) /\ \E i \in DOMAIN data : data[i].of # {}
      /\ stage' = "refused" => ~ \E i \in DOMAIN data : data[i].of # {}
  BY DEF Combine
<1>2. SurveyInv' /\ Uncut' = Uncut /\ \A s \in segments : Fits(s) => Fits(s)'
  BY <1>1 DEF EngineInv, SurveyInv, Uncut, Fits
<1>3. SegmentsInv'
  BY <1>1, <1>2 DEF EngineInv, SegmentsInv
<1>4. data' = data
  BY <1>1
<1>5. ProfileInv'
  BY <1>1, <1>4 DEF ProfileInv
<1>6. QED
  BY <1>1, <1>2, <1>3, <1>5 DEF EngineInv

\* The invariant holds in every state.
LEMMA EngineInvariant == SurveysAssumption => (EngineSpec => []EngineInv)
<1> SUFFICES ASSUME SurveysAssumption PROVE EngineSpec => []EngineInv
  OBVIOUS
<1>1. EngineInv /\ UNCHANGED engineVars => EngineInv'
  <2> SUFFICES ASSUME EngineInv, UNCHANGED engineVars PROVE EngineInv'
    OBVIOUS
  <2>1. /\ survey' = survey /\ taken' = taken /\ left' = left /\ segments' = segments
        /\ profile' = profile /\ stage' = stage
    BY DEF engineVars
  <2>2. Combined(segments)' = Combined(segments)
    BY <2>1
  <2>3. Uncut' = Uncut /\ \A s \in segments : Fits(s)' <=> Fits(s)
    BY <2>1 DEF Uncut, Fits
  <2>4. SurveyInv' /\ SegmentsInv' /\ ProfileInv'
    BY <2>1, <2>2, <2>3 DEF EngineInv, SurveyInv, SegmentsInv, ProfileInv
  <2>5. QED
    BY <2>1, <2>4 DEF EngineInv
<1>2. EngineInv /\ [EngineNext]_engineVars => EngineInv'
  BY <1>1, QueryKeeps, TakeCloudKeeps, TakeRestKeeps, CombineKeeps DEF EngineNext
<1>3. QED
  BY <1>2, EngineStart, PTL DEF EngineSpec

------------------------------------------------------------------------------
(* The segments when all clouds have been taken *)

AllCut == SegmentsInv /\ Uncut = {}

\* What a segment is.
LEMMA SegmentFacts ==
    ASSUME SurveysAssumption, AllCut
    PROVE  /\ \A s \in segments : /\ s = <<s[1], s[2]>> /\ s[1] = <<s[1][1], s[1][2]>>
                                  /\ s[1][1] \in 0 .. Cells - 1 /\ s[1][2] \in 1 .. Cells /\ s[1][1] < s[1][2]
                                  /\ Fits(s)
           /\ \A c \in 0 .. Cells - 1 : \E s \in segments : s[1][1] <= c /\ c < s[1][2]
           /\ \A s, t \in segments : \A c \in 0 .. Cells - 1 :
                 s[1][1] <= c /\ c < s[1][2] /\ t[1][1] <= c /\ c < t[1][2] => s = t
<1>1. Cells \in Nat \ {0} /\ SegmentsInv /\ Uncut = {}
  BY DEF AllCut, SurveysAssumption
<1>2. \A s \in segments : s = <<s[1], s[2]>> /\ s[1] \in Piece /\ Fits(s)
  BY <1>1 DEF SegmentsInv
<1>3. \A r \in Piece : /\ r = <<r[1], r[2]>> /\ r[1] \in 0 .. Cells - 1 /\ r[2] \in 1 .. Cells /\ r[1] < r[2]
                       /\ \A c \in 0 .. Cells - 1 : c \in CellsOf(r) <=> r[1] <= c /\ c < r[2]
  BY <1>1 DEF Piece, Link, CellsOf
<1>4. \A c \in 0 .. Cells - 1 : \E s \in segments : c \in CellsOf(s[1])
  BY <1>1 DEF SegmentsInv, Link
<1>5. ASSUME NEW s \in segments, NEW t \in segments, NEW c \in CellsOf(s[1]), c \in CellsOf(t[1])
      PROVE  s = t
  <2>1. CellsOf(s[1]) \cap CellsOf(t[1]) # {}
    BY <1>5
  <2>2. QED
    BY <1>1, <2>1 DEF SegmentsInv
<1>6. \A c \in 0 .. Cells - 1 : \E s \in segments : s[1][1] <= c /\ c < s[1][2]
  BY <1>2, <1>3, <1>4
<1>7. \A s, t \in segments : \A c \in 0 .. Cells - 1 :
         s[1][1] <= c /\ c < s[1][2] /\ t[1][1] <= c /\ c < t[1][2] => s = t
  BY <1>2, <1>3, <1>5
<1>8. QED
  BY <1>2, <1>3, <1>6, <1>7

\* Each cell has one segment, of the newest cloud that has the cell.
LEMMA NewestOfEachCell ==
    ASSUME SurveysAssumption, EngineInv, stage \in {"done", "refused"}
    PROVE  SegmentsAreNewest
<1>1. AllCut /\ SurveyInv /\ taken = Len(survey)
  BY DEF EngineInv, AllCut, Uncut, SurveyInv
<1> SUFFICES ASSUME NEW cell \in 0 .. Cells - 1
             PROVE  LET Of == {s \in segments : s[1][1] <= cell /\ cell < s[1][2]}
                    IN  /\ Cardinality(Of) = 1
                        /\ \A s \in Of :
                             /\ s[2] # NoCloud => Covers(s[2], s[1])
                             /\ \A c \in ToSet(survey) : cell \in c.cells => s[2].year >= c.year
  BY DEF SegmentsAreNewest
<1> DEFINE Of == {s \in segments : s[1][1] <= cell /\ cell < s[1][2]}
<1>2. Cardinality(Of) = 1
  <2>1. PICK s \in segments : s[1][1] <= cell /\ cell < s[1][2]
    BY <1>1, SegmentFacts
  <2>2. Of = {s}
    BY <1>1, <2>1, SegmentFacts
  <2> HIDE DEF Of
  <2>3. QED
    BY <2>2, FS_Singleton
<1>3. ASSUME NEW s \in Of, s[2] # NoCloud PROVE Covers(s[2], s[1])
  <2>1. Fits(s)
    BY <1>1, SegmentFacts
  <2>2. QED
    BY <1>3, <2>1 DEF Fits, Covers, CellsOf
<1>4. ASSUME NEW s \in Of, NEW c \in ToSet(survey), cell \in c.cells PROVE s[2].year >= c.year
  <2>1. PICK j \in 1 .. Len(survey) : c = survey[j]
    BY <1>1 DEF ToSet, SurveyInv
  <2>2. Fits(s) /\ cell \in CellsOf(s[1])
    <3>1. /\ s \in segments /\ s[1][1] \in 0 .. Cells - 1 /\ s[1][2] \in 1 .. Cells
          /\ s[1][1] <= cell /\ cell < s[1][2]
      BY <1>1, SegmentFacts
    <3>2. QED
      BY <1>1, <3>1, SegmentFacts DEF CellsOf, SurveysAssumption
  <2>3. cell \notin left
    BY <1>1, <1>4, <2>1 DEF SurveyInv
  <2>4. PICK k \in 1 .. taken : /\ s[2] = survey[k]
                                /\ \A i \in 1 .. k - 1 : CellsOf(s[1]) \cap survey[i].cells = {}
    BY <2>2, <2>3 DEF Fits
  <2>5. k <= j
    <3>1. j \notin 1 .. k - 1
      BY <1>4, <2>1, <2>2, <2>4
    <3>2. QED
      BY <1>1, <3>1 DEF SurveyInv
  <2>6. k < j => survey[k].year >= survey[j].year
    BY <1>1 DEF SurveyInv
  <2>7. survey[j].year \in Nat
    <3>1. survey[j] \in Cloud
      BY <1>1 DEF SurveyInv
    <3>2. QED
      BY <3>1 DEF Cloud
  <2>8. k = j => survey[k].year >= survey[j].year
    BY <2>7
  <2>9. QED
    BY <1>1, <2>1, <2>4, <2>5, <2>6, <2>8 DEF SurveyInv
<1>5. QED
  BY <1>2, <1>3, <1>4

\* Segments in their places: side by side from one end of the link to the other.
Along(q, n) ==
    /\ n \in Nat \ {0} /\ n = Cardinality(segments)
    /\ q \in [1 .. n -> segments]
    /\ \A s \in segments : \E i \in 1 .. n : q[i] = s
    /\ \A i, j \in 1 .. n : i < j => q[i][1][2] <= q[j][1][1]
    /\ q[1][1][1] = 0 /\ q[n][1][2] = Cells
    /\ \A i \in 1 .. n - 1 : q[i][1][2] = q[i + 1][1][1]

\* Sorted by where they start, segments that part the link lie side by side.
LEMMA SideBySide ==
    ASSUME SurveysAssumption, AllCut
    PROVE  Along(ByPlace(segments), Cardinality(segments))
<1> DEFINE n == Cardinality(segments)
           q == ByPlace(segments)
           R == {a \in segments \X segments : a[1][1][1] < a[2][1][1]}
<1>1. /\ Cells \in Nat \ {0} /\ IsFiniteSet(segments)
      /\ \A s \in segments : s[1][1] \in 0 .. Cells - 1 /\ s[1][2] \in 1 .. Cells /\ s[1][1] < s[1][2]
  BY SegmentFacts DEF SurveysAssumption, AllCut, SegmentsInv
<1>2. ASSUME NEW s \in segments, NEW t \in segments, s[1][1] <= t[1][1], t[1][1] < s[1][2] PROVE s = t
  BY <1>1, <1>2, SegmentFacts
<1>3. n \in Nat
  BY <1>1, FS_CardinalityType
<1>4. Orders(R, segments)
  <2>1. \A s, t \in segments : <<s, t>> \in R <=> s[1][1] < t[1][1]
    OBVIOUS
  <2>2. \A s, t \in segments : s # t => s[1][1] < t[1][1] \/ t[1][1] < s[1][1]
    BY <1>1, <1>2
  <2> HIDE DEF R
  <2>3. \A s \in segments : <<s, s>> \notin R
    BY <1>1, <2>1
  <2>4. \A x, y, z \in segments : <<x, y>> \in R /\ <<y, z>> \in R => <<x, z>> \in R
    BY <1>1, <2>1
  <2>5. \A x, y \in segments : x # y => <<x, y>> \in R \/ <<y, x>> \in R
    BY <2>1, <2>2
  <2>6. QED
    BY <2>3, <2>4, <2>5 DEF Orders
<1>5. InLine(q, segments, R)
  <2>1. PICK p : InLine(p, segments, R)
    <3> HIDE DEF R
    <3>1. QED
      BY <1>1, <1>4, LineUp
  <2>2. p \in [1 .. n -> segments] /\ \A i, j \in 1 .. n : i < j => p[i][1][1] < p[j][1][1]
    BY <2>1 DEF InLine
  <2>3. q \in [1 .. n -> segments] /\ \A i, j \in 1 .. n : i < j => q[i][1][1] < q[j][1][1]
    BY <2>2 DEF ByPlace
  <2> HIDE DEF q
  <2>4. QED
    BY <2>3 DEF InLine
<1>6. /\ q \in [1 .. n -> segments]
      /\ \A i, j \in 1 .. n : i < j => q[i][1][1] < q[j][1][1]
  BY <1>5 DEF InLine
<1>7. \A s \in segments : \E i \in 1 .. n : q[i] = s
  <2> HIDE DEF R, q
  <2>1. QED
    BY <1>1, <1>4, <1>5, AllInLine
<1> HIDE DEF n, q, R
<1>8. \A i \in 1 .. n : /\ q[i] \in segments /\ q[i][1][1] \in 0 .. Cells - 1
                        /\ q[i][1][2] \in 1 .. Cells /\ q[i][1][1] < q[i][1][2]
  BY <1>1, <1>6
<1>9. ASSUME NEW i \in 1 .. n, NEW j \in 1 .. n, i < j PROVE q[i][1][2] <= q[j][1][1]
  <2>1. q[i][1][1] < q[j][1][1]
    BY <1>6, <1>9
  <2>2. q[i] # q[j]
    BY <1>8, <2>1
  <2>3. ~ (q[j][1][1] < q[i][1][2])
    <3>1. q[i] \in segments /\ q[j] \in segments /\ q[i][1][1] <= q[j][1][1]
      BY <1>8, <2>1
    <3>2. QED
      BY <1>2, <2>2, <3>1
  <2>4. q[i][1][2] \in 1 .. Cells /\ q[j][1][1] \in 0 .. Cells - 1
    BY <1>8
  <2>5. QED
    BY <2>3, <2>4
\* The segment that has a cell, and its place.
<1>10. \A c \in 0 .. Cells - 1 : \E i \in 1 .. n : q[i][1][1] <= c /\ c < q[i][1][2]
  <2> SUFFICES ASSUME NEW c \in 0 .. Cells - 1
               PROVE  \E i \in 1 .. n : q[i][1][1] <= c /\ c < q[i][1][2]
    OBVIOUS
  <2>1. PICK s \in segments : s[1][1] <= c /\ c < s[1][2]
    BY SegmentFacts
  <2>2. PICK i \in 1 .. n : q[i] = s
    BY <1>7
  <2>3. QED
    BY <2>1, <2>2
<1>11. n \in Nat \ {0} /\ 1 \in 1 .. n /\ n \in 1 .. n
  <2>1. 0 \in 0 .. Cells - 1
    BY <1>1
  <2>2. PICK i \in 1 .. n : q[i][1][1] <= 0
    BY <1>10, <2>1
  <2>3. QED
    BY <1>3
<1>12. q[1][1][1] = 0
  <2>1. 0 \in 0 .. Cells - 1
    BY <1>1
  <2>2. PICK i \in 1 .. n : q[i][1][1] <= 0
    BY <1>10, <2>1
  <2>3. 1 < i => q[1][1][2] <= q[i][1][1]
    BY <1>9, <1>11
  <2>4. i = 1
    BY <1>1, <1>3, <1>8, <1>11, <2>2, <2>3
  <2>5. QED
    BY <1>1, <1>8, <1>11, <2>2, <2>4
<1>13. q[n][1][2] = Cells
  <2>1. Cells - 1 \in 0 .. Cells - 1
    BY <1>1
  <2>2. PICK i \in 1 .. n : Cells - 1 < q[i][1][2]
    BY <1>10, <2>1
  <2>3. i < n => q[i][1][2] <= q[n][1][1]
    BY <1>9, <1>11
  <2>4. i = n
    BY <1>1, <1>3, <1>8, <1>11, <2>2, <2>3
  <2>5. QED
    BY <1>1, <1>8, <1>11, <2>2, <2>4
<1>14. ASSUME NEW i \in 1 .. n - 1 PROVE q[i][1][2] = q[i + 1][1][1]
  <2>1. i \in 1 .. n /\ i + 1 \in 1 .. n /\ i < i + 1
    BY <1>3
  <2>2. q[i][1][2] <= q[i + 1][1][1]
    BY <1>9, <2>1
  <2> DEFINE c == q[i][1][2]
  <2>3. c \in 0 .. Cells - 1
    BY <1>1, <1>8, <2>1, <2>2
  <2>4. PICK j \in 1 .. n : q[j][1][1] <= c /\ c < q[j][1][2]
    BY <1>10, <2>3
  <2>5. \A k \in 1 .. n : q[k][1][1] \in Nat /\ q[k][1][2] \in Nat /\ q[k][1][1] < q[k][1][2]
    BY <1>1, <1>8
  <2>6. ~ (j < i)
    <3>1. j < i => q[j][1][2] <= q[i][1][1]
      BY <1>9, <2>1
    <3>2. c \in Nat /\ q[j][1][2] \in Nat /\ q[i][1][1] \in Nat /\ q[i][1][1] < c /\ c < q[j][1][2]
      BY <2>1, <2>4, <2>5
    <3> HIDE DEF c
    <3>3. QED
      BY <3>1, <3>2
  <2>7. j # i
    <3>1. c < q[j][1][2] /\ c \in Nat
      BY <2>1, <2>4, <2>5
    <3>2. QED
      BY <3>1
  <2>8. ~ (i + 1 < j)
    <3>1. i + 1 < j => q[i + 1][1][2] <= q[j][1][1]
      BY <1>9, <2>1
    <3>2. /\ c \in Nat /\ c <= q[i + 1][1][1] /\ q[i + 1][1][1] < q[i + 1][1][2] /\ q[j][1][1] <= c
          /\ q[i + 1][1][1] \in Nat /\ q[i + 1][1][2] \in Nat /\ q[j][1][1] \in Nat
      BY <2>1, <2>2, <2>4, <2>5
    <3> HIDE DEF c
    <3>3. \A x, y, z, w \in Nat : x <= y /\ y < z /\ w <= x => ~ (z <= w)
      OBVIOUS
    <3>4. ~ (q[i + 1][1][2] <= q[j][1][1])
      BY <3>2, <3>3
    <3>5. QED
      BY <3>1, <3>4
  <2>9. j = i + 1
    BY <1>3, <2>1, <2>6, <2>7, <2>8
  <2>10. QED
    BY <1>1, <1>8, <2>1, <2>2, <2>4, <2>9
<1>15. QED
  BY <1>6, <1>7, <1>9, <1>11, <1>12, <1>13, <1>14 DEF Along, n, q

------------------------------------------------------------------------------
(* The samples of a segment *)

Samples == [run : Piece, cloud : Cloud \cup {NoCloud}, of : SUBSET (0 .. Cells)]

\* A sample of a segment is of its points, if it has two.
SampleOf(d, s) ==
    LET points == On(s[1], s[2].points)
    IN  /\ d.run = s[1] /\ d.cloud = s[2] /\ SamplesOf(s[1]) > 0
        /\ IF Cardinality(points) < 2 THEN d.of = {} ELSE d.of # {} /\ d.of \subseteq points

\* The points next to a sample are among those of the segment.
LEMMA PointsAreOn ==
    ASSUME SurveysAssumption, NEW run, NEW points \in SUBSET (0 .. Cells), Cardinality(points) >= 2,
           NEW k, NEW n
    PROVE  PointsOf(run, points, k, n) # {} /\ PointsOf(run, points, k, n) \subseteq points
<1>1. Cells \in Nat /\ IsFiniteSet(0 .. Cells)
  BY FS_Interval DEF SurveysAssumption
<1>2. IsFiniteSet(points)
  BY <1>1, FS_Subset
<1>3. points # {}
  <2> SUFFICES ASSUME points = {} PROVE FALSE
    OBVIOUS
  <2>1. Cardinality(points) = 0
    BY FS_EmptySet
  <2>2. QED
    BY <2>1
<1>4. Min(points) \in points
  BY <1>1, <1>3, MinAndMax
<1> DEFINE rest == points \ {Min(points)}
<1>5. rest # {} /\ rest \in SUBSET (0 .. Cells)
  <2>1. Cardinality(rest) = Cardinality(points) - 1 /\ Cardinality(points) \in Nat
    BY <1>2, <1>4, FS_RemoveElement, FS_CardinalityType
  <2>2. Cardinality(rest) # 0
    BY <2>1
  <2>3. QED
    BY <2>2, FS_EmptySet
<1> HIDE DEF rest
<1>6. Min(rest) \in rest
  BY <1>1, <1>5, MinAndMax
<1>7. ASSUME NEW S \in SUBSET points, S # {} PROVE Min(S) \in points /\ Max(S) \in points
  <2>1. S \in SUBSET (0 .. Cells)
    OBVIOUS
  <2>2. QED
    BY <1>1, <1>7, <2>1, MinAndMax
<1> DEFINE spaces == IF n = 1 THEN 1 ELSE n - 1
           Side(p) == (p - run[1]) * spaces - k * (run[2] - run[1])
           before == {p \in points : Side(p) <= 0}
           after == {p \in points : Side(p) >= 0}
<1>8. PointsOf(run, points, k, n) = IF before = {} THEN {Min(points)}
                                    ELSE IF after = {} THEN {Min(rest)}
                                    ELSE {Max(before), Min(after)}
  BY DEF PointsOf, rest
<1>9. before \in SUBSET points /\ after \in SUBSET points
  OBVIOUS
<1> HIDE DEF before, after
<1>10. QED
  BY <1>4, <1>6, <1>7, <1>8, <1>9 DEF rest

\* A segment has its share of the samples.
LEMMA ProfileOfSegment ==
    ASSUME SurveysAssumption, NEW s, s[1] \in Piece, s[2] \in Cloud \cup {NoCloud}
    PROVE  /\ SamplesOf(s[1]) \in Nat
           /\ SegmentProfile(s[1], s[2]) \in Seq(Samples)
           /\ Len(SegmentProfile(s[1], s[2])) = SamplesOf(s[1])
           /\ \A i \in 1 .. SamplesOf(s[1]) : SampleOf(SegmentProfile(s[1], s[2])[i], s)
<1> DEFINE run == s[1]
           cloud == s[2]
           points == On(run, cloud.points)
           n == SamplesOf(run)
           value(i) == IF Cardinality(points) < 2 THEN {} ELSE PointsOf(run, points, i - 1, n)
<1>1. SegmentProfile(run, cloud) = [i \in 1 .. n |-> [run |-> run, cloud |-> cloud, of |-> value(i)]]
  BY DEF SegmentProfile
<1>2. n \in Nat
  <2>1. Cells \in Nat \ {0} /\ NumSamples \in Nat /\ run[2] - run[1] \in Nat
    BY DEF SurveysAssumption, Piece, Link
  <2>2. (run[2] - run[1]) * NumSamples \in Nat
    BY <2>1
  <2>3. \A x \in Nat, c \in Nat \ {0} : x \div c \in Nat
    OBVIOUS
  <2>4. QED
    BY <2>1, <2>2, <2>3 DEF SamplesOf
<1>3. points \in SUBSET (0 .. Cells) /\ Cardinality(points) \in Nat
  <2>1. cloud.points \in SUBSET (0 .. Cells)
    BY DEF Cloud, NoCloud
  <2>2. points \in SUBSET (0 .. Cells)
    BY <2>1 DEF On
  <2>3. IsFiniteSet(0 .. Cells)
    BY FS_Interval DEF SurveysAssumption
  <2> HIDE DEF points
  <2>4. QED
    BY <2>2, <2>3, FS_Subset, FS_CardinalityType
<1>4. ASSUME NEW i PROVE /\ value(i) \in SUBSET (0 .. Cells)
                         /\ Cardinality(points) < 2 => value(i) = {}
                         /\ ~ (Cardinality(points) < 2) => value(i) # {} /\ value(i) \subseteq points
  <2>1. CASE Cardinality(points) < 2
    BY <2>1
  <2>2. CASE ~ (Cardinality(points) < 2)
    <3> HIDE DEF points, n, run
    <3>1. Cardinality(points) >= 2
      BY <1>3, <2>2
    <3>2. PointsOf(run, points, i - 1, n) # {} /\ PointsOf(run, points, i - 1, n) \subseteq points
      BY <1>3, <3>1, PointsAreOn
    <3>3. QED
      BY <1>3, <2>2, <3>2
  <2>3. QED
    BY <2>1, <2>2
<1> HIDE DEF value
<1>5. ASSUME NEW i PROVE [run |-> run, cloud |-> cloud, of |-> value(i)] \in Samples
  BY <1>4 DEF Samples
<1>6. ASSUME NEW i, n > 0 PROVE SampleOf([run |-> run, cloud |-> cloud, of |-> value(i)], s)
  BY <1>4, <1>6 DEF SampleOf
<1> HIDE DEF n, points
<1>7. QED
  BY <1>1, <1>2, <1>5, <1>6 DEF n

\* What has been joined after each of the segments.
Joining(v, q, n) ==
    /\ v \in [0 .. n -> Seq(Samples)] /\ v[0] = <<>>
    /\ \A i \in 1 .. n : v[i] = v[i - 1] \o SegmentProfile(q[i][1], q[i][2])
    /\ FoldLeft(Joined, <<>>, q) = v[n]

\* The fold has its steps.
LEMMA JoinsAll ==
    ASSUME NEW n \in Nat, NEW q, DOMAIN q = 1 .. n,
           \A i \in 1 .. n : SegmentProfile(q[i][1], q[i][2]) \in Seq(Samples)
    PROVE  \E v : Joining(v, q, n)
<1> DEFINE V == Seq(Samples)
           step == [p \in V \X (1 .. n) |-> Joined(p[1], q[p[2]])]
           Solves(f) == f = [T \in SUBSET DOMAIN q |->
                               IF T = {} THEN <<>> ELSE Joined(f[T \ {Max(T)}], q[Max(T)])]
           f0 == CHOOSE f : Solves(f)
<1>1. DOMAIN q = 1 .. n
  OBVIOUS
<1>2. \A d \in V, i \in 1 .. n : Joined(d, q[i]) \in V
  <2> TAKE d \in V, i \in 1 .. n
  <2>1. SegmentProfile(q[i][1], q[i][2]) \in Seq(Samples)
    OBVIOUS
  <2>2. QED
    BY <2>1, ConcatProperties DEF Joined
<1>3. \A d \in V, i \in 1 .. n : step[<<d, i>>] = Joined(d, q[i])
  OBVIOUS
<1>5. <<>> \in V
  OBVIOUS
<1> HIDE DEF step, V
<1>4. \A d \in V : \A i \in 1 .. n : step[<<d, i>>] \in V
  BY <1>2, <1>3
<1>6. PICK f : FoldSolution(f, n, V, <<>>, step)
  BY <1>4, <1>5, FoldExists
<1>7. \A T \in SUBSET (1 .. n) : T # {} => Max(T) \in 1 .. n /\ T \ {Max(T)} \in SUBSET (1 .. n)
  BY MaxOfSome
<1>8. Solves(f)
  BY <1>1, <1>3, <1>6, <1>7 DEF FoldSolution
<1>9. Solves(f0)
  BY <1>8
<1>10. FoldLeft(Joined, <<>>, q) = f0[1 .. n]
  BY <1>1 DEF FoldLeft, MapThenFoldSet
<1> HIDE DEF f0
<1>11. FoldSolves(f0, n, V, <<>>, step)
  <2>1. f0[{}] = <<>>
    BY <1>1, <1>9
  <2>2. \A T \in SUBSET (1 .. n) : T # {} /\ f0[T \ {Max(T)}] \in V
          => f0[T] = step[<<f0[T \ {Max(T)}], Max(T)>>]
    BY <1>1, <1>3, <1>7, <1>9
  <2>3. QED
    BY <2>1, <2>2 DEF FoldSolves
<1> HIDE DEF Solves
<1>12. PICK v : FoldPasses(v, n, V, <<>>, step, f0[1 .. n])
  BY <1>4, <1>5, <1>11, FoldRuns
<1>13. v \in [0 .. n -> V] /\ v[0] = <<>> /\ FoldLeft(Joined, <<>>, q) = v[n]
  BY <1>10, <1>12 DEF FoldPasses
<1>14. \A i \in 1 .. n : v[i] = v[i - 1] \o SegmentProfile(q[i][1], q[i][2])
  <2>1. \A i \in 1 .. n : v[i - 1] \in V
    BY <1>13
  <2>2. \A i \in 1 .. n : v[i] = Joined(v[i - 1], q[i])
    BY <1>3, <1>12, <2>1 DEF FoldPasses
  <2>3. QED
    BY <2>2 DEF Joined
<1>15. QED
  BY <1>13, <1>14 DEF Joining, V

------------------------------------------------------------------------------
(* The samples of all segments *)

\* Numbers that are so many times as great are in the same order.
LEMMA TimesOrder ==
    ASSUME NEW c \in Nat \ {0}, NEW a \in Nat, NEW b \in Nat
    PROVE  /\ c * a <= c * b => a <= b
           /\ c * a < c * b => a < b
<1>1. ASSUME NEW x \in Nat, NEW y \in Nat, x < y PROVE c * x < c * y
  <2>1. PICK d \in Nat : y = x + 1 + d
    <3>1. y - x - 1 \in Nat /\ y = x + 1 + (y - x - 1)
      BY <1>1
    <3>2. QED
      BY <3>1
  <2>2. c * y = c * x + c + c * d
    BY <2>1
  <2>3. c * x \in Nat /\ c * d \in Nat
    OBVIOUS
  <2>4. QED
    BY <2>2, <2>3
<1>2. b < a => c * b < c * a
  BY <1>1
<1>3. b <= a => c * b <= c * a
  <2>1. b = a => c * b <= c * a
    OBVIOUS
  <2>2. c * a \in Nat /\ c * b \in Nat
    OBVIOUS
  <2>3. b <= a => b = a \/ b < a
    OBVIOUS
  <2>4. QED
    BY <1>2, <2>1, <2>2, <2>3
<1>4. c * a \in Nat /\ c * b \in Nat
  OBVIOUS
<1>5. QED
  BY <1>2, <1>3, <1>4

\* A stretch from b to e adds its share, rounded down, to what those before it have.
LEMMA ShareAdded ==
    ASSUME NEW c \in Nat \ {0}, NEW m \in Nat, NEW b \in Nat, NEW e \in Nat, b < e,
           NEW l \in Nat, NEW i \in Nat, c * l <= m * b, m * b <= c * (l + i)
    PROVE  LET share == ((e - b) * m) \div c
           IN  /\ share \in Nat /\ c * (l + share) <= m * e
               /\ m * e < c * (l + share + i + 1)
<1> DEFINE x == (e - b) * m
           share == x \div c
<1>1. x \in Nat /\ m * e = m * b + x
  <2>1. e - b \in Nat
    OBVIOUS
  <2>2. x \in Nat
    BY <2>1
  <2>3. m * e = m * b + x
    OBVIOUS
  <2>4. QED
    BY <2>2, <2>3
<1> HIDE DEF x
<1>2. share \in Nat /\ c * share <= x /\ x < c * share + c
  BY <1>1
<1> HIDE DEF share
<1>3. c * (l + share) = c * l + c * share
  BY <1>2
<1>4. c * (l + share + i + 1) = c * (l + i) + c * share + c
  BY <1>2
<1>5. c * l \in Nat /\ c * share \in Nat /\ m * b \in Nat /\ c * (l + i) \in Nat
  BY <1>2
<1>6. c * (l + share) <= m * e
  BY <1>1, <1>2, <1>3, <1>5
<1>7. m * e < c * (l + share + i + 1)
  BY <1>1, <1>2, <1>4, <1>5
<1>8. QED
  BY <1>2, <1>6, <1>7 DEF share, x

\* What the first i segments have given: samples of each that has any, in the segments'
\* order, as many as their share of the link, less than one missing for each.
Sampled(d, q, i) ==
    LET end == IF i = 0 THEN 0 ELSE q[i][1][2]
    IN  /\ d \in Seq(Samples)
        /\ \A k \in 1 .. Len(d) : \E j \in 1 .. i : SampleOf(d[k], q[j])
        /\ \A k, l \in 1 .. Len(d) : k < l => d[k].run[1] <= d[l].run[1]
        /\ \A j \in 1 .. i : SamplesOf(q[j][1]) > 0 => \E k \in 1 .. Len(d) : SampleOf(d[k], q[j])
        /\ Cells * Len(d) <= NumSamples * end
        /\ NumSamples * end <= Cells * (Len(d) + i)
        /\ i > 0 => NumSamples * end < Cells * (Len(d) + i)

\* A segment more.
LEMMA SegmentJoined ==
    ASSUME SurveysAssumption, AllCut, NEW q, NEW n, Along(q, n), NEW i \in 1 .. n,
           \A s \in segments : s[2] \in Cloud \cup {NoCloud},
           NEW d, Sampled(d, q, i - 1)
    PROVE  Sampled(d \o SegmentProfile(q[i][1], q[i][2]), q, i)
<1> DEFINE s == q[i]
           p == SegmentProfile(s[1], s[2])
           e == d \o p
<1>1. n \in Nat /\ i \in Nat /\ i > 0 /\ i - 1 \in 0 .. n /\ s \in segments
  BY DEF Along
<1>2. \A t \in segments : t[1] \in Piece /\ t[1][1] \in Nat /\ t[1][2] \in Nat /\ t[1][1] < t[1][2]
  <2>1. \A t \in segments : t[1][1] \in 0 .. Cells - 1 /\ t[1][2] \in 1 .. Cells /\ t[1][1] < t[1][2]
    BY SegmentFacts
  <2>2. Cells \in Nat
    BY DEF SurveysAssumption
  <2>3. \A x : (x \in 0 .. Cells - 1 => x \in Nat) /\ (x \in 1 .. Cells => x \in Nat)
    BY <2>2
  <2>4. \A t \in segments : t[1] \in Piece
    BY DEF AllCut, SegmentsInv
  <2>5. QED
    BY <2>1, <2>3, <2>4
<1>3. /\ SamplesOf(s[1]) \in Nat /\ p \in Seq(Samples) /\ Len(p) = SamplesOf(s[1])
      /\ \A k \in 1 .. Len(p) : SampleOf(p[k], s)
  BY <1>1, <1>2, ProfileOfSegment
<1>4. d \in Seq(Samples) /\ Len(d) \in Nat /\ Len(p) \in Nat
  BY <1>3 DEF Sampled
<1> HIDE DEF p
<1>5. /\ e \in Seq(Samples) /\ Len(e) = Len(d) + Len(p)
      /\ \A k \in 1 .. Len(d) : e[k] = d[k] /\ k \in 1 .. Len(e)
      /\ \A k \in 1 .. Len(p) : e[Len(d) + k] = p[k] /\ Len(d) + k \in 1 .. Len(e)
  <2>1. /\ e \in Seq(Samples) /\ Len(e) = Len(d) + Len(p)
        /\ \A k \in 1 .. Len(d) + Len(p) : e[k] = IF k <= Len(d) THEN d[k] ELSE p[k - Len(d)]
    BY <1>3, <1>4, ConcatProperties
  <2> HIDE DEF e
  <2>2. \A k \in 1 .. Len(d) : e[k] = d[k] /\ k \in 1 .. Len(e)
    BY <1>4, <2>1
  <2>3. ASSUME NEW k \in 1 .. Len(p) PROVE e[Len(d) + k] = p[k] /\ Len(d) + k \in 1 .. Len(e)
    <3>1. Len(d) + k \in 1 .. Len(d) + Len(p) /\ ~ (Len(d) + k <= Len(d)) /\ (Len(d) + k) - Len(d) = k
      BY <1>4
    <3>2. QED
      BY <2>1, <3>1
  <2>4. QED
    BY <2>1, <2>2, <2>3
<1>6. \A k \in 1 .. Len(e) : \/ k \in 1 .. Len(d) /\ e[k] = d[k]
                             \/ k - Len(d) \in 1 .. Len(p) /\ e[k] = p[k - Len(d)]
  <2> HIDE DEF e
  <2> TAKE k \in 1 .. Len(e)
  <2>1. k \in 1 .. Len(d) \/ k - Len(d) \in 1 .. Len(p)
    BY <1>4, <1>5
  <2>2. k - Len(d) \in 1 .. Len(p) => Len(d) + (k - Len(d)) = k
    BY <1>4
  <2>3. QED
    BY <1>5, <2>1, <2>2
<1> HIDE DEF e
<1>7. \A k \in 1 .. Len(e) : \E j \in 1 .. i : SampleOf(e[k], q[j])
  <2> TAKE k \in 1 .. Len(e)
  <2>1. CASE k \in 1 .. Len(d) /\ e[k] = d[k]
    <3>1. PICK j \in 1 .. i - 1 : SampleOf(d[k], q[j])
      BY <2>1 DEF Sampled
    <3>2. j \in 1 .. i
      BY <1>1
    <3>3. QED
      BY <2>1, <3>1, <3>2
  <2>2. CASE k - Len(d) \in 1 .. Len(p) /\ e[k] = p[k - Len(d)]
    <3>1. SampleOf(e[k], q[i]) /\ i \in 1 .. i
      BY <1>1, <1>3, <2>2
    <3>2. QED
      BY <3>1
  <2>3. QED
    BY <1>6, <2>1, <2>2
<1>8. ASSUME NEW k \in 1 .. Len(e), NEW l \in 1 .. Len(e), k < l PROVE e[k].run[1] <= e[l].run[1]
  <2>1. CASE k \in 1 .. Len(d) /\ l \in 1 .. Len(d)
    BY <1>5, <1>8, <2>1 DEF Sampled
  <2>2. CASE k \in 1 .. Len(d) /\ l - Len(d) \in 1 .. Len(p) /\ e[l] = p[l - Len(d)]
    <3>1. PICK j \in 1 .. i - 1 : SampleOf(e[k], q[j])
      BY <1>5, <2>2 DEF Sampled
    <3>2. e[k].run = q[j][1] /\ e[l].run = s[1]
      BY <1>3, <2>2, <3>1 DEF SampleOf
    <3>3. j \in 1 .. n /\ j < i
      BY <1>1
    <3>4. q[j][1][2] <= q[i][1][1] /\ q[j] \in segments
      BY <3>3 DEF Along
    <3>5. /\ q[j][1][1] \in Nat /\ q[j][1][2] \in Nat /\ q[j][1][1] < q[j][1][2]
          /\ q[i][1][1] \in Nat
      BY <1>1, <1>2, <3>4
    <3>6. \A x, y, z \in Nat : x < y /\ y <= z => x <= z
      OBVIOUS
    <3>7. q[j][1][1] <= q[i][1][1]
      BY <3>4, <3>5, <3>6
    <3>8. e[k].run[1] = q[j][1][1] /\ e[l].run[1] = q[i][1][1]
      BY <3>2
    <3>9. QED
      BY <3>7, <3>8
  <2>3. CASE k - Len(d) \in 1 .. Len(p) /\ e[k] = p[k - Len(d)] /\ l - Len(d) \in 1 .. Len(p) /\ e[l] = p[l - Len(d)]
    <3>1. e[k].run = s[1] /\ e[l].run = s[1]
      BY <1>3, <2>3 DEF SampleOf
    <3>2. QED
      BY <1>1, <1>2, <3>1
  <2>4. k - Len(d) \in 1 .. Len(p) => l \notin 1 .. Len(d)
    BY <1>4, <1>8
  <2>5. QED
    BY <1>6, <2>1, <2>2, <2>3, <2>4
<1>9. \A j \in 1 .. i : SamplesOf(q[j][1]) > 0 => \E k \in 1 .. Len(e) : SampleOf(e[k], q[j])
  <2> SUFFICES ASSUME NEW j \in 1 .. i, SamplesOf(q[j][1]) > 0
               PROVE  \E k \in 1 .. Len(e) : SampleOf(e[k], q[j])
    OBVIOUS
  <2>1. CASE j \in 1 .. i - 1
    <3>1. PICK k \in 1 .. Len(d) : SampleOf(d[k], q[j])
      BY <2>1 DEF Sampled
    <3>2. QED
      BY <1>5, <3>1
  <2>2. CASE j = i
    <3>1. 1 \in 1 .. Len(p)
      BY <1>3, <2>2
    <3>2. SampleOf(e[Len(d) + 1], q[j]) /\ Len(d) + 1 \in 1 .. Len(e)
      BY <1>3, <1>5, <2>2, <3>1
    <3>3. QED
      BY <3>2
  <2>3. j \in 1 .. i - 1 \/ j = i
    BY <1>1
  <2>4. QED
    BY <2>1, <2>2, <2>3
<1>10. /\ Cells * Len(e) <= NumSamples * s[1][2]
       /\ NumSamples * s[1][2] < Cells * (Len(e) + i)
  <2> DEFINE b == s[1][1]
             end == IF i - 1 = 0 THEN 0 ELSE q[i - 1][1][2]
  <2>1. b = end
    <3>1. CASE i = 1
      BY <1>1, <3>1 DEF Along
    <3>2. CASE i # 1
      <4>1. i - 1 \in 1 .. n - 1 /\ (i - 1) + 1 = i /\ i - 1 # 0
        BY <1>1, <3>2
      <4>2. QED
        BY <4>1 DEF Along
    <3>3. QED
      BY <3>1, <3>2
  <2>2. Cells * Len(d) <= NumSamples * b /\ NumSamples * b <= Cells * (Len(d) + (i - 1))
    BY <2>1 DEF Sampled
  <2>3. /\ Cells \in Nat \ {0} /\ NumSamples \in Nat /\ b \in Nat /\ s[1][2] \in Nat /\ b < s[1][2]
        /\ i - 1 \in Nat
    BY <1>1, <1>2 DEF SurveysAssumption
  <2>4. Len(p) = ((s[1][2] - b) * NumSamples) \div Cells
    BY <1>3 DEF SamplesOf
  <2> HIDE DEF b, end, s
  <2>5. /\ Cells * (Len(d) + Len(p)) <= NumSamples * s[1][2]
        /\ NumSamples * s[1][2] < Cells * (Len(d) + Len(p) + (i - 1) + 1)
    BY <1>4, <2>2, <2>3, <2>4, ShareAdded
  <2>6. Len(d) + Len(p) + (i - 1) + 1 = Len(e) + i /\ Len(d) + Len(p) = Len(e)
    BY <1>1, <1>4, <1>5
  <2>7. QED
    BY <2>5, <2>6
<1>11. Cells * (Len(e) + i) \in Nat /\ NumSamples * s[1][2] \in Nat
  <2>1. Cells \in Nat /\ NumSamples \in Nat /\ s[1][2] \in Nat /\ Len(e) + i \in Nat
    BY <1>1, <1>2, <1>4, <1>5 DEF SurveysAssumption
  <2>2. \A x, y \in Nat : x * y \in Nat
    OBVIOUS
  <2>3. QED
    BY <2>1, <2>2
<1>12. QED
  <2>1. i # 0 /\ NumSamples * s[1][2] <= Cells * (Len(e) + i)
    BY <1>1, <1>10, <1>11
  <2> HIDE DEF s
  <2>2. e \in Seq(Samples)
    BY <1>5
  <2>3. Sampled(e, q, i)
    BY <1>7, <1>8, <1>9, <1>10, <2>1, <2>2 DEF Sampled, s
  <2>4. QED
    BY <2>3 DEF e, p, s

\* All segments.
LEMMA AllSampled ==
    ASSUME SurveysAssumption, AllCut, \A s \in segments : s[2] \in Cloud \cup {NoCloud}
    PROVE  Sampled(Combined(segments), ByPlace(segments), Cardinality(segments))
<1> DEFINE q == ByPlace(segments)
           n == Cardinality(segments)
<1>1. Along(q, n)
  BY SideBySide
<1> HIDE DEF q, n
<1>2. n \in Nat /\ DOMAIN q = 1 .. n /\ \A i \in 1 .. n : q[i] \in segments
  BY <1>1 DEF Along
<1>3. \A i \in 1 .. n : SegmentProfile(q[i][1], q[i][2]) \in Seq(Samples)
  BY <1>2, ProfileOfSegment DEF AllCut, SegmentsInv
<1>4. PICK v : Joining(v, q, n)
  BY <1>2, <1>3, JoinsAll
<1> DEFINE X == {i \in 0 .. n : Sampled(v[i], q, i)}
<1>5. 0 \in X
  <2>1. v[0] = <<>> /\ <<>> \in Seq(Samples) /\ Len(<<>>) = 0
    BY <1>4 DEF Joining
  <2>2. Cells * 0 = 0 /\ NumSamples * 0 = 0 /\ Cells * (0 + 0) = 0
    BY DEF SurveysAssumption
  <2>3. Sampled(v[0], q, 0)
    BY <2>1, <2>2 DEF Sampled
  <2>4. QED
    BY <1>2, <2>3
<1>6. ASSUME NEW i \in 1 .. n, i - 1 \in X PROVE i \in X
  <2>1. Sampled(v[i - 1], q, i - 1)
    BY <1>6
  <2>2. v[i] = v[i - 1] \o SegmentProfile(q[i][1], q[i][2])
    BY <1>4 DEF Joining
  <2>3. Sampled(v[i], q, i)
    BY <1>1, <2>1, <2>2, SegmentJoined
  <2>4. QED
    BY <1>2, <2>3
<1> HIDE DEF X
<1>7. n \in X
  <2>1. 0 .. n \subseteq X
    BY <1>2, <1>5, <1>6, Upwards
  <2>2. QED
    BY <1>2, <2>1
<1>8. Combined(segments) = v[n]
  BY <1>4 DEF Combined, Joining, q
<1>9. QED
  BY <1>7, <1>8 DEF X, q, n


------------------------------------------------------------------------------
(* What fills a gap *)

\* Samples in the order of their runs, which keep apart; each is of points of its run, and
\* those of a run are measured or not together.
Lined(data) ==
    /\ data \in Seq(Samples)
    /\ \A k, l \in DOMAIN data :
          /\ k < l => data[k].run[1] <= data[l].run[1]
          /\ data[k].run # data[l].run =>
                data[k].run[2] <= data[l].run[1] \/ data[l].run[2] <= data[k].run[1]
          /\ data[k].run = data[l].run => (data[k].of = {} <=> data[l].of = {})
    /\ \A k \in DOMAIN data : \A p \in data[k].of : data[k].run[1] <= p /\ p <= data[k].run[2]

MeasuredIn(data) == {j \in DOMAIN data : data[j].of # {}}

RunsMeasured(data) == {data[k].run : k \in MeasuredIn(data)}

EarlierThan(data, i) == {j \in MeasuredIn(data) : j < i}

LaterThan(data, i) == {j \in MeasuredIn(data) : j > i}

\* The last of some runs before one, and the first after it.
LastBefore(M, run) ==
    LET Before == {r \in M : r[2] <= run[1]} IN {r \in Before : \A q \in Before : q[1] <= r[1]}

FirstAfter(M, run) ==
    LET After == {r \in M : r[1] >= run[2]} IN {r \in After : \A q \in After : r[1] <= q[1]}

\* What there is to know of two samples' runs.
LEMMA RunsOfSamples ==
    ASSUME SurveysAssumption, NEW data, Lined(data)
    PROVE  /\ DOMAIN data = 1 .. Len(data) /\ Len(data) \in Nat
           /\ \A k \in DOMAIN data : /\ data[k].run[1] \in Nat /\ data[k].run[2] \in Nat
                                     /\ data[k].run[1] < data[k].run[2]
           /\ \A k, l \in DOMAIN data : data[k].run[1] = data[l].run[1] => data[k].run = data[l].run
           /\ \A k, l \in DOMAIN data : data[k].of # {} /\ data[l].of = {} =>
                 /\ k < l <=> data[k].run[2] <= data[l].run[1]
                 /\ l < k <=> data[l].run[2] <= data[k].run[1]
<1>1. DOMAIN data = 1 .. Len(data) /\ Len(data) \in Nat
  BY DEF Lined
<1>2. \A k \in DOMAIN data : data[k].run \in Piece
  <2>1. \A k \in DOMAIN data : data[k] \in Samples
    BY <1>1 DEF Lined
  <2>2. QED
    BY <2>1 DEF Samples
<1>3. \A r \in Piece : r[1] \in Nat /\ r[2] \in Nat /\ r[1] < r[2]
  BY DEF Piece, Link, SurveysAssumption
<1>4. \A k \in DOMAIN data : /\ data[k].run[1] \in Nat /\ data[k].run[2] \in Nat
                             /\ data[k].run[1] < data[k].run[2]
  BY <1>2, <1>3
<1>5. ASSUME NEW k \in DOMAIN data, NEW l \in DOMAIN data, data[k].run[1] = data[l].run[1]
      PROVE  data[k].run = data[l].run
  <2> SUFFICES ASSUME data[k].run # data[l].run PROVE FALSE
    OBVIOUS
  <2>1. data[k].run[2] <= data[l].run[1] \/ data[l].run[2] <= data[k].run[1]
    BY DEF Lined
  <2>2. QED
    BY <1>4, <1>5, <2>1
<1>6. ASSUME NEW k \in DOMAIN data, NEW l \in DOMAIN data, data[k].of # {}, data[l].of = {}
      PROVE  /\ k < l <=> data[k].run[2] <= data[l].run[1]
             /\ l < k <=> data[l].run[2] <= data[k].run[1]
  <2>1. k \in Nat /\ l \in Nat /\ (k < l \/ l < k)
    BY <1>1, <1>6
  <2>2. data[k].run[2] <= data[l].run[1] \/ data[l].run[2] <= data[k].run[1]
    BY <1>6 DEF Lined
  <2>3. k < l => data[k].run[1] <= data[l].run[1]
    BY DEF Lined
  <2>4. l < k => data[l].run[1] <= data[k].run[1]
    BY DEF Lined
  <2>5. /\ data[k].run[1] \in Nat /\ data[k].run[2] \in Nat /\ data[k].run[1] < data[k].run[2]
        /\ data[l].run[1] \in Nat /\ data[l].run[2] \in Nat /\ data[l].run[1] < data[l].run[2]
    BY <1>4
  <2> DEFINE a == data[k].run[1]
             b == data[k].run[2]
             c == data[l].run[1]
             d == data[l].run[2]
  <2>6. a \in Nat /\ b \in Nat /\ a < b /\ c \in Nat /\ d \in Nat /\ c < d
    BY <2>5
  <2> HIDE DEF a, b, c, d
  <2>7. CASE k < l
    <3>1. a <= c /\ (b <= c \/ d <= a) /\ ~ (l < k)
      BY <2>1, <2>2, <2>3, <2>7 DEF a, b, c, d
    <3>2. b <= c /\ ~ (d <= a)
      BY <2>6, <3>1
    <3>3. QED
      BY <2>7, <3>1, <3>2 DEF a, b, c, d
  <2>8. CASE l < k
    <3>1. c <= a /\ (b <= c \/ d <= a) /\ ~ (k < l)
      BY <2>1, <2>2, <2>4, <2>8 DEF a, b, c, d
    <3>2. d <= a /\ ~ (b <= c)
      BY <2>6, <3>1
    <3>3. QED
      BY <2>8, <3>1, <3>2 DEF a, b, c, d
  <2>9. QED
    BY <2>1, <2>7, <2>8
<1>7. QED
  BY <1>1, <1>4, <1>5, <1>6

\* The last sample measured before a gap is of the last run measured before it.
LEMMA SideBefore ==
    ASSUME SurveysAssumption, NEW data, Lined(data), NEW i \in DOMAIN data, data[i].of = {}
    PROVE  LET before == EarlierThan(data, i)
           IN  /\ before # {} => Max(before) \in before
               /\ LastBefore(RunsMeasured(data), data[i].run) =
                     IF before = {} THEN {} ELSE {data[Max(before)].run}
<1> DEFINE before == EarlierThan(data, i)
           Before == {r \in RunsMeasured(data) : r[2] <= data[i].run[1]}
           Sides == LastBefore(RunsMeasured(data), data[i].run)
<1>0. /\ before = {j \in {k \in DOMAIN data : data[k].of # {}} : j < i}
      /\ Sides = {r \in Before : \A q \in Before : q[1] <= r[1]}
  BY DEF EarlierThan, MeasuredIn, LastBefore
<1>1. DOMAIN data = 1 .. Len(data) /\ Len(data) \in Nat
  BY RunsOfSamples
<1>2. Before = {data[j].run : j \in before}
  <2>1. \A j \in before : data[j].run \in Before
    BY <1>0, RunsOfSamples DEF RunsMeasured, MeasuredIn
  <2>2. ASSUME NEW r \in Before PROVE \E j \in before : r = data[j].run
    <3>1. PICK j \in DOMAIN data : data[j].of # {} /\ r = data[j].run
      BY DEF RunsMeasured, MeasuredIn
    <3>2. j < i
      BY <3>1, RunsOfSamples
    <3>3. QED
      BY <1>0, <3>1, <3>2
  <2> HIDE DEF before, Before
  <2>3. QED
    BY <2>1, <2>2
<1>3. before \subseteq DOMAIN data
  BY <1>0
<1>4. CASE before = {}
  BY <1>0, <1>2, <1>4
<1>5. CASE before # {}
  <2> DEFINE m == Max(before)
  <2>1. m \in before /\ \A j \in before : j <= m
    <3> HIDE DEF before
    <3>1. before \in SUBSET (0 .. Len(data))
      BY <1>1, <1>3
    <3>2. QED
      BY <1>1, <1>5, <3>1, MinAndMax
  <2> HIDE DEF m
  <2>2. \A j \in before : data[j].run[1] <= data[m].run[1]
    <3> TAKE j \in before
    <3>1. j \in DOMAIN data /\ m \in DOMAIN data /\ j \in Nat /\ m \in Nat /\ j <= m
      BY <1>1, <1>3, <2>1
    <3>2. j < m => data[j].run[1] <= data[m].run[1]
      BY <3>1 DEF Lined
    <3>3. j = m => data[j].run[1] <= data[m].run[1]
      BY <3>1, RunsOfSamples
    <3>4. QED
      BY <3>1, <3>2, <3>3
  <2>3. data[m].run \in Sides
    <3> HIDE DEF before, Before, Sides
    <3>1. QED
      BY <1>0, <1>2, <2>1, <2>2
  <2>4. ASSUME NEW r \in Sides PROVE r = data[m].run
    <3>1. PICK j \in before : r = data[j].run
      BY <1>0, <1>2
    <3>2. data[m].run[1] <= r[1]
      BY <1>0, <2>3
    <3>3. data[j].run[1] <= data[m].run[1]
      BY <2>2
    <3>4. data[j].run[1] \in Nat /\ data[m].run[1] \in Nat /\ j \in DOMAIN data /\ m \in DOMAIN data
      BY <1>3, <2>1, RunsOfSamples
    <3>5. data[j].run[1] = data[m].run[1]
      BY <3>1, <3>2, <3>3, <3>4
    <3>6. QED
      BY <3>1, <3>4, <3>5, RunsOfSamples
  <2> HIDE DEF Sides, before
  <2>5. Sides = {data[m].run}
    BY <2>3, <2>4
  <2>6. QED
    BY <1>5, <2>1, <2>5 DEF m, Sides, before
<1>6. QED
  BY <1>4, <1>5

\* And the first one after it.
LEMMA SideAfter ==
    ASSUME SurveysAssumption, NEW data, Lined(data), NEW i \in DOMAIN data, data[i].of = {}
    PROVE  LET after == LaterThan(data, i)
           IN  /\ after # {} => Min(after) \in after
               /\ FirstAfter(RunsMeasured(data), data[i].run) =
                     IF after = {} THEN {} ELSE {data[Min(after)].run}
<1> DEFINE after == LaterThan(data, i)
           After == {r \in RunsMeasured(data) : r[1] >= data[i].run[2]}
           Sides == FirstAfter(RunsMeasured(data), data[i].run)
<1>0. /\ after = {j \in {k \in DOMAIN data : data[k].of # {}} : j > i}
      /\ Sides = {r \in After : \A q \in After : r[1] <= q[1]}
  BY DEF LaterThan, MeasuredIn, FirstAfter
<1>1. DOMAIN data = 1 .. Len(data) /\ Len(data) \in Nat
  BY RunsOfSamples
<1>2. After = {data[j].run : j \in after}
  <2>1. ASSUME NEW j \in after PROVE data[j].run \in After
    <3>1. j \in DOMAIN data /\ data[j].of # {} /\ i < j
      BY <1>0, <1>1
    <3>2. data[i].run[2] <= data[j].run[1]
      BY <3>1, RunsOfSamples
    <3>3. data[i].run[2] \in Nat /\ data[j].run[1] \in Nat
      BY <3>1, RunsOfSamples
    <3>4. data[j].run[1] >= data[i].run[2]
      BY <3>2, <3>3
    <3>5. QED
      BY <3>1, <3>4 DEF RunsMeasured, MeasuredIn
  <2>2. ASSUME NEW r \in After PROVE \E j \in after : r = data[j].run
    <3>1. PICK j \in DOMAIN data : data[j].of # {} /\ r = data[j].run
      BY DEF RunsMeasured, MeasuredIn
    <3>2. data[i].run[2] \in Nat /\ data[j].run[1] \in Nat /\ data[j].run[1] >= data[i].run[2]
      BY <3>1, RunsOfSamples
    <3>3. i < j
      BY <3>1, <3>2, RunsOfSamples
    <3>4. j > i
      BY <1>1, <3>3
    <3>5. QED
      BY <1>0, <3>1, <3>4
  <2> HIDE DEF after, After
  <2>3. QED
    BY <2>1, <2>2
<1>3. after \subseteq DOMAIN data
  BY <1>0
<1>4. CASE after = {}
  BY <1>0, <1>2, <1>4
<1>5. CASE after # {}
  <2> DEFINE m == Min(after)
  <2>1. m \in after /\ \A j \in after : m <= j
    <3> HIDE DEF after
    <3>1. after \in SUBSET (0 .. Len(data))
      BY <1>1, <1>3
    <3>2. QED
      BY <1>1, <1>5, <3>1, MinAndMax
  <2> HIDE DEF m
  <2>2. \A j \in after : data[m].run[1] <= data[j].run[1]
    <3> TAKE j \in after
    <3>1. j \in DOMAIN data /\ m \in DOMAIN data /\ j \in Nat /\ m \in Nat /\ m <= j
      BY <1>1, <1>3, <2>1
    <3>2. m < j => data[m].run[1] <= data[j].run[1]
      BY <3>1 DEF Lined
    <3>3. j = m => data[m].run[1] <= data[j].run[1]
      BY <3>1, RunsOfSamples
    <3>4. QED
      BY <3>1, <3>2, <3>3
  <2>3. data[m].run \in Sides
    <3> HIDE DEF after, After, Sides
    <3>1. QED
      BY <1>0, <1>2, <2>1, <2>2
  <2>4. ASSUME NEW r \in Sides PROVE r = data[m].run
    <3>1. PICK j \in after : r = data[j].run
      BY <1>0, <1>2
    <3>2. r[1] <= data[m].run[1]
      BY <1>0, <2>3
    <3>3. data[m].run[1] <= data[j].run[1]
      BY <2>2
    <3>4. data[j].run[1] \in Nat /\ data[m].run[1] \in Nat /\ j \in DOMAIN data /\ m \in DOMAIN data
      BY <1>3, <2>1, RunsOfSamples
    <3>5. data[j].run[1] = data[m].run[1]
      BY <3>1, <3>2, <3>3, <3>4
    <3>6. QED
      BY <3>1, <3>4, <3>5, RunsOfSamples
  <2> HIDE DEF Sides, after
  <2>5. Sides = {data[m].run}
    BY <2>3, <2>4
  <2>6. QED
    BY <1>5, <2>1, <2>5 DEF m, Sides, after
<1>6. QED
  BY <1>4, <1>5


\* Measured samples stay, the others are filled from the measured runs next to theirs.
LEMMA FilledFromTheSides ==
    ASSUME SurveysAssumption, NEW data, Lined(data)
    PROVE  LET v == Interpolated(data)
               M == RunsMeasured(data)
           IN  /\ DOMAIN v = 1 .. Len(data) /\ Len(v) = Len(data)
               /\ \A i \in 1 .. Len(data) :
                     /\ v[i].run = data[i].run /\ v[i].cloud = data[i].cloud
                     /\ data[i].of # {} => v[i].of = data[i].of
                     /\ data[i].of = {} =>
                           LET Sides == LastBefore(M, data[i].run) \cup FirstAfter(M, data[i].run)
                           IN  /\ \A p \in v[i].of : \E r \in Sides : r[1] <= p /\ p <= r[2]
                               /\ \A r \in Sides : \E p \in v[i].of : r[1] <= p /\ p <= r[2]
<1> DEFINE v == Interpolated(data)
           M == RunsMeasured(data)
           measured == MeasuredIn(data)
           before(i) == EarlierThan(data, i)
           after(i) == LaterThan(data, i)
           fill(i) == (IF before(i) = {} THEN {} ELSE data[Max(before(i))].of)
                        \cup (IF after(i) = {} THEN {} ELSE data[Min(after(i))].of)
<1>1. v = [i \in DOMAIN data |-> IF i \in measured THEN data[i] ELSE [data[i] EXCEPT !.of = fill(i)]]
  BY DEF Interpolated, MeasuredIn, EarlierThan, LaterThan
<1>2. DOMAIN data = 1 .. Len(data) /\ Len(data) \in Nat
  BY RunsOfSamples
<1>3. \A i \in DOMAIN data : data[i] = [run |-> data[i].run, cloud |-> data[i].cloud, of |-> data[i].of]
  <2>1. \A i \in DOMAIN data : data[i] \in Samples
    BY <1>2 DEF Lined
  <2>2. QED
    BY <2>1 DEF Samples
<1> HIDE DEF v, fill
<1>4. DOMAIN v = 1 .. Len(data) /\ Len(v) = Len(data)
  <2>1. v \in [1 .. Len(data) -> {v[i] : i \in 1 .. Len(data)}]
    BY <1>1, <1>2
  <2>2. v \in Seq({v[i] : i \in 1 .. Len(data)})
    BY <1>2, <2>1
  <2>3. QED
    BY <1>1, <1>2, <2>2
<1>5. ASSUME NEW i \in 1 .. Len(data)
      PROVE  /\ v[i].run = data[i].run /\ v[i].cloud = data[i].cloud
             /\ data[i].of # {} => v[i].of = data[i].of
             /\ data[i].of = {} => v[i].of = fill(i)
  <2>1. data[i].of # {} => v[i] = data[i]
    BY <1>1, <1>2 DEF MeasuredIn
  <2>2. data[i].of = {} => v[i] = [data[i] EXCEPT !.of = fill(i)]
    BY <1>1, <1>2 DEF MeasuredIn
  <2>3. data[i].of = {} => v[i] = [run |-> data[i].run, cloud |-> data[i].cloud, of |-> fill(i)]
    BY <1>2, <1>3, <2>2
  <2>4. QED
    BY <1>2, <2>1, <2>3
<1>6. ASSUME NEW i \in 1 .. Len(data), data[i].of = {}
      PROVE  LET Sides == LastBefore(M, data[i].run) \cup FirstAfter(M, data[i].run)
             IN  /\ \A p \in fill(i) : \E r \in Sides : r[1] <= p /\ p <= r[2]
                 /\ \A r \in Sides : \E p \in fill(i) : r[1] <= p /\ p <= r[2]
  <2> DEFINE B == LastBefore(M, data[i].run)
             A == FirstAfter(M, data[i].run)
             b == Max(before(i))
             a == Min(after(i))
  <2>0. i \in DOMAIN data
    BY <1>2
  <2>1. /\ before(i) # {} => b \in before(i)
        /\ B = IF before(i) = {} THEN {} ELSE {data[b].run}
    BY <1>6, <2>0, SideBefore
  <2>2. /\ after(i) # {} => a \in after(i)
        /\ A = IF after(i) = {} THEN {} ELSE {data[a].run}
    BY <1>6, <2>0, SideAfter
  <2>3. fill(i) = (IF before(i) = {} THEN {} ELSE data[b].of) \cup (IF after(i) = {} THEN {} ELSE data[a].of)
    BY DEF fill
  <2>4. before(i) \subseteq measured /\ after(i) \subseteq measured
    BY DEF EarlierThan, LaterThan
  <2>5. \A j \in measured : /\ \A p \in data[j].of : data[j].run[1] <= p /\ p <= data[j].run[2]
                            /\ \E p \in data[j].of : data[j].run[1] <= p /\ p <= data[j].run[2]
    BY DEF Lined, MeasuredIn
  <2> HIDE DEF B, A, b, a, before, after, measured
  <2>6. \A p \in fill(i) : \E r \in B \cup A : r[1] <= p /\ p <= r[2]
    BY <2>1, <2>2, <2>3, <2>4, <2>5
  <2>7. \A r \in B \cup A : \E p \in fill(i) : r[1] <= p /\ p <= r[2]
    <3>1. ASSUME NEW r \in B PROVE \E p \in fill(i) : r[1] <= p /\ p <= r[2]
      <4>1. before(i) # {} /\ r = data[b].run /\ b \in measured
        BY <2>1, <2>4
      <4>2. PICK p \in data[b].of : data[b].run[1] <= p /\ p <= data[b].run[2]
        BY <2>5, <4>1
      <4>3. p \in fill(i)
        BY <2>3, <4>1
      <4>4. QED
        BY <4>1, <4>2, <4>3
    <3>2. ASSUME NEW r \in A PROVE \E p \in fill(i) : r[1] <= p /\ p <= r[2]
      <4>1. after(i) # {} /\ r = data[a].run /\ a \in measured
        BY <2>2, <2>4
      <4>2. PICK p \in data[a].of : data[a].run[1] <= p /\ p <= data[a].run[2]
        BY <2>5, <4>1
      <4>3. p \in fill(i)
        BY <2>3, <4>1
      <4>4. QED
        BY <4>1, <4>2, <4>3
    <3>3. QED
      BY <3>1, <3>2
  <2>8. QED
    BY <2>6, <2>7 DEF B, A
<1>7. QED
  BY <1>4, <1>5, <1>6 DEF v

------------------------------------------------------------------------------
(* The profile *)

\* Each segment is of a cloud or of none.
LEMMA CloudsOfSegments ==
    ASSUME SurveysAssumption, AllCut, SurveyInv
    PROVE  \A s \in segments : s[2] \in Cloud \cup {NoCloud}
<1> TAKE s \in segments
<1>1. Fits(s)
  BY SegmentFacts
<1>2. survey \in Seq(Cloud) /\ taken \in 0 .. Len(survey)
  BY DEF SurveyInv
<1>3. ASSUME NEW k \in 1 .. taken PROVE survey[k] \in Cloud
  BY <1>2
<1>4. QED
  BY <1>1, <1>3 DEF Fits

\* The samples joined are in the order of their segments' runs, as many as asked for but
\* for less than one for each segment.
LEMMA SamplesInLine ==
    ASSUME SurveysAssumption, AllCut, \A s \in segments : s[2] \in Cloud \cup {NoCloud}
    PROVE  LET data == Combined(segments)
           IN  /\ Lined(data)
               /\ Len(data) <= NumSamples /\ NumSamples < Len(data) + Cardinality(segments)
               /\ \A k \in DOMAIN data : \E s \in segments : SampleOf(data[k], s)
               /\ \A s \in segments : SamplesOf(s[1]) > 0 => \E k \in DOMAIN data : SampleOf(data[k], s)
<1> DEFINE data == Combined(segments)
           q == ByPlace(segments)
           n == Cardinality(segments)
<1>1. Along(q, n) /\ Sampled(data, q, n)
  BY SideBySide, AllSampled
<1> HIDE DEF data, q, n
<1>2. /\ n \in Nat \ {0} /\ data \in Seq(Samples) /\ DOMAIN data = 1 .. Len(data) /\ Len(data) \in Nat
      /\ \A j \in 1 .. n : q[j] \in segments
  <2>1. n \in Nat \ {0} /\ \A j \in 1 .. n : q[j] \in segments
    BY <1>1 DEF Along
  <2>2. data \in Seq(Samples)
    BY <1>1 DEF Sampled
  <2>3. DOMAIN data = 1 .. Len(data) /\ Len(data) \in Nat
    BY <2>2
  <2>4. QED
    BY <2>1, <2>2, <2>3
<1>3. \A k \in DOMAIN data : \E s \in segments : SampleOf(data[k], s)
  BY <1>1, <1>2 DEF Sampled
<1>4. ASSUME NEW s \in segments, SamplesOf(s[1]) > 0 PROVE \E k \in DOMAIN data : SampleOf(data[k], s)
  <2>1. PICK j \in 1 .. n : q[j] = s
    BY <1>1 DEF Along
  <2>2. QED
    BY <1>1, <1>2, <1>4, <2>1 DEF Sampled
<1>5. Len(data) <= NumSamples /\ NumSamples < Len(data) + n
  <2>1. q[n][1][2] = Cells /\ Cells \in Nat \ {0} /\ NumSamples \in Nat
    BY <1>1 DEF Along, SurveysAssumption
  <2>2. /\ Cells * Len(data) <= NumSamples * Cells /\ NumSamples * Cells < Cells * (Len(data) + n)
    BY <1>1, <1>2, <2>1 DEF Sampled
  <2>3. NumSamples * Cells = Cells * NumSamples
    BY <2>1
  <2>4. Len(data) + n \in Nat
    BY <1>2
  <2>5. QED
    BY <1>2, <2>1, <2>2, <2>3, <2>4, TimesOrder
<1>6. ASSUME NEW s \in segments, NEW t \in segments
      PROVE  /\ s[1] = t[1] => s = t
             /\ s[1] # t[1] => s[1][2] <= t[1][1] \/ t[1][2] <= s[1][1]
  <2>1. /\ s[1][1] \in 0 .. Cells - 1 /\ s[1][2] \in 1 .. Cells /\ s[1][1] < s[1][2]
        /\ t[1][1] \in 0 .. Cells - 1 /\ t[1][2] \in 1 .. Cells /\ t[1][1] < t[1][2]
    BY SegmentFacts
  <2>2. Cells \in Nat
    BY DEF SurveysAssumption
  <2>3. \A c \in 0 .. Cells - 1 : s[1][1] <= c /\ c < s[1][2] /\ t[1][1] <= c /\ c < t[1][2] => s = t
    BY SegmentFacts
  <2>4. s[1] = t[1] => s = t
    BY <2>1, <2>2, <2>3
  <2>5. s[1][1] < t[1][2] /\ t[1][1] < s[1][2] => s = t
    <3>1. s[1][1] <= t[1][1] /\ t[1][1] < s[1][2] => s = t
      BY <2>1, <2>2, <2>3
    <3>2. t[1][1] <= s[1][1] /\ s[1][1] < t[1][2] => s = t
      BY <2>1, <2>2, <2>3
    <3>3. s[1][1] <= t[1][1] \/ t[1][1] <= s[1][1]
      BY <2>1, <2>2
    <3>4. QED
      BY <3>1, <3>2, <3>3
  <2>6. QED
    BY <2>1, <2>2, <2>4, <2>5
<1>7. ASSUME NEW k \in DOMAIN data, NEW l \in DOMAIN data
      PROVE  /\ k < l => data[k].run[1] <= data[l].run[1]
             /\ data[k].run # data[l].run =>
                   data[k].run[2] <= data[l].run[1] \/ data[l].run[2] <= data[k].run[1]
             /\ data[k].run = data[l].run => (data[k].of = {} <=> data[l].of = {})
  <2>1. k < l => data[k].run[1] <= data[l].run[1]
    BY <1>1, <1>2 DEF Sampled
  <2>2. PICK s \in segments : SampleOf(data[k], s)
    BY <1>3
  <2>3. PICK t \in segments : SampleOf(data[l], t)
    BY <1>3
  <2>4. data[k].run = s[1] /\ data[l].run = t[1]
    BY <2>2, <2>3 DEF SampleOf
  <2>5. s = t => (data[k].of = {} <=> data[l].of = {})
    BY <2>2, <2>3 DEF SampleOf
  <2>6. QED
    BY <1>6, <2>1, <2>4, <2>5
<1>8. ASSUME NEW k \in DOMAIN data, NEW p \in data[k].of PROVE data[k].run[1] <= p /\ p <= data[k].run[2]
  <2>1. PICK s \in segments : SampleOf(data[k], s)
    BY <1>3
  <2>2. data[k].run = s[1] /\ p \in On(s[1], s[2].points)
    BY <2>1 DEF SampleOf
  <2>3. QED
    BY <2>2 DEF On
<1>9. Lined(data)
  BY <1>2, <1>7, <1>8 DEF Lined
<1>10. QED
  BY <1>3, <1>4, <1>5, <1>9 DEF data, n


\* The segments measured are those of the samples measured.
LEMMA MeasuredSegments ==
    ASSUME SurveysAssumption, AllCut, \A s \in segments : s[2] \in Cloud \cup {NoCloud}
    PROVE  LET data == Combined(segments)
           IN  /\ \A k \in DOMAIN data : \A s \in segments :
                     SampleOf(data[k], s) => (data[k].of # {} <=> Measured(s[1], s[2]))
               /\ RunsMeasured(data) = {s[1] : s \in {t \in segments : Measured(t[1], t[2])}}
<1> DEFINE data == Combined(segments)
           M == {s[1] : s \in {t \in segments : Measured(t[1], t[2])}}
<1>1. /\ \A k \in DOMAIN data : \E s \in segments : SampleOf(data[k], s)
      /\ \A s \in segments : SamplesOf(s[1]) > 0 => \E k \in DOMAIN data : SampleOf(data[k], s)
  BY SamplesInLine
<1> HIDE DEF data
<1>2. \A s \in segments : Cardinality(On(s[1], s[2].points)) \in Nat
  <2> TAKE s \in segments
  <2>1. s[2].points \in SUBSET (0 .. Cells)
    BY DEF Cloud, NoCloud
  <2>2. On(s[1], s[2].points) \in SUBSET (0 .. Cells)
    BY <2>1 DEF On
  <2>3. IsFiniteSet(0 .. Cells)
    BY FS_Interval DEF SurveysAssumption
  <2>4. QED
    BY <2>2, <2>3, FS_Subset, FS_CardinalityType
<1>3. ASSUME NEW k \in DOMAIN data, NEW s \in segments, SampleOf(data[k], s)
      PROVE  data[k].of # {} <=> Measured(s[1], s[2])
  BY <1>2, <1>3 DEF SampleOf, Measured
<1>4. \A k \in MeasuredIn(data) : data[k].run \in M
  <2> TAKE k \in MeasuredIn(data)
  <2>1. k \in DOMAIN data /\ data[k].of # {}
    BY DEF MeasuredIn
  <2>2. PICK s \in segments : SampleOf(data[k], s)
    BY <1>1, <2>1
  <2>3. Measured(s[1], s[2]) /\ data[k].run = s[1]
    BY <1>3, <2>1, <2>2 DEF SampleOf
  <2>4. QED
    BY <2>3
<1>5. ASSUME NEW s \in segments, Measured(s[1], s[2])
      PROVE  s[1] \in RunsMeasured(data)
  <2>1. PICK k \in DOMAIN data : SampleOf(data[k], s)
    BY <1>1, <1>5 DEF Measured
  <2>2. k \in MeasuredIn(data) /\ data[k].run = s[1]
    BY <1>3, <1>5, <2>1 DEF MeasuredIn, SampleOf
  <2>3. QED
    BY <2>2 DEF RunsMeasured
<1>6. RunsMeasured(data) = M
  BY <1>4, <1>5 DEF RunsMeasured
<1>7. QED
  BY <1>3, <1>6 DEF data

\* Gaps in the profile are filled from the segments measured next to them.
LEMMA GapsFilled ==
    ASSUME SurveysAssumption, AllCut, \A s \in segments : s[2] \in Cloud \cup {NoCloud},
           profile = Interpolated(Combined(segments))
    PROVE  GapsAreFilled
<1> DEFINE data == Combined(segments)
           M == {s[1] : s \in {t \in segments : Measured(t[1], t[2])}}
<1>1. /\ Lined(data) /\ DOMAIN data = 1 .. Len(data)
      /\ \A k \in DOMAIN data : \E s \in segments : SampleOf(data[k], s)
  BY SamplesInLine, RunsOfSamples
<1>2. /\ \A k \in DOMAIN data : \A s \in segments :
            SampleOf(data[k], s) => (data[k].of # {} <=> Measured(s[1], s[2]))
      /\ RunsMeasured(data) = M
  BY MeasuredSegments
<1>3. profile = Interpolated(data)
  OBVIOUS
<1> HIDE DEF data, M
<1>4. /\ Len(profile) = Len(data)
      /\ \A i \in 1 .. Len(data) :
            /\ profile[i].run = data[i].run /\ profile[i].cloud = data[i].cloud
            /\ data[i].of # {} => profile[i].of = data[i].of
            /\ data[i].of = {} =>
                  LET Sides == LastBefore(M, data[i].run) \cup FirstAfter(M, data[i].run)
                  IN  /\ \A p \in profile[i].of : \E r \in Sides : r[1] <= p /\ p <= r[2]
                      /\ \A r \in Sides : \E p \in profile[i].of : r[1] <= p /\ p <= r[2]
  <2> DEFINE v == Interpolated(data)
             N == RunsMeasured(data)
             Filled(w, i) ==
               /\ w[i].run = data[i].run /\ w[i].cloud = data[i].cloud
               /\ data[i].of # {} => w[i].of = data[i].of
               /\ data[i].of = {} =>
                     LET Sides == LastBefore(N, data[i].run) \cup FirstAfter(N, data[i].run)
                     IN  /\ \A p \in w[i].of : \E r \in Sides : r[1] <= p /\ p <= r[2]
                         /\ \A r \in Sides : \E p \in w[i].of : r[1] <= p /\ p <= r[2]
  <2>1. Len(v) = Len(data) /\ \A i \in 1 .. Len(data) : Filled(v, i)
    BY <1>1, FilledFromTheSides
  <2>2. v = profile /\ N = M
    BY <1>2, <1>3
  <2> HIDE DEF v, N
  <2>3. Len(profile) = Len(data) /\ \A i \in 1 .. Len(data) : Filled(profile, i)
    <3> HIDE DEF Filled
    <3>1. QED
      BY <2>1, <2>2
  <2>4. QED
    BY <2>2, <2>3
<1>5. ASSUME NEW i \in 1 .. Len(profile)
      PROVE  LET s == profile[i]
                 Before == {r \in M : r[2] <= s.run[1]}
                 After  == {r \in M : r[1] >= s.run[2]}
                 Sides  == {r \in Before : \A q \in Before : q[1] <= r[1]}
                             \cup {r \in After : \A q \in After : r[1] <= q[1]}
             IN  IF s.run \in M THEN s.of # {} /\ s.of \subseteq On(s.run, s.cloud.points)
                 ELSE /\ \A p \in s.of : \E r \in Sides : r[1] <= p /\ p <= r[2]
                      /\ \A r \in Sides : \E p \in s.of : r[1] <= p /\ p <= r[2]
  <2>1. i \in 1 .. Len(data) /\ i \in DOMAIN data
    BY <1>1, <1>4
  <2>2. PICK s \in segments : SampleOf(data[i], s)
    BY <1>1, <2>1
  <2>3. profile[i].run = s[1] /\ profile[i].cloud = s[2] /\ data[i].run = s[1]
    BY <1>4, <2>1, <2>2 DEF SampleOf
  <2>4. CASE data[i].of # {}
    <3>1. s[1] \in M
      BY <1>2, <2>1, <2>2, <2>4 DEF M
    <3>2. data[i].of # {} /\ data[i].of \subseteq On(s[1], s[2].points)
      BY <2>2, <2>4 DEF SampleOf
    <3>3. profile[i].of = data[i].of
      BY <1>4, <2>1, <2>4
    <3>4. QED
      BY <2>3, <3>1, <3>2, <3>3
  <2>5. CASE data[i].of = {}
    <3>1. s[1] \notin M
      <4> SUFFICES ASSUME s[1] \in M PROVE FALSE
        OBVIOUS
      <4>1. PICK k \in MeasuredIn(data) : data[k].run = data[i].run
        BY <1>2, <2>3 DEF RunsMeasured
      <4>2. k \in DOMAIN data /\ data[k].of # {}
        BY <4>1 DEF MeasuredIn
      <4>3. QED
        BY <1>1, <2>1, <2>5, <4>1, <4>2 DEF Lined
    <3>2. LET Sides == LastBefore(M, s[1]) \cup FirstAfter(M, s[1])
          IN  /\ \A p \in profile[i].of : \E r \in Sides : r[1] <= p /\ p <= r[2]
              /\ \A r \in Sides : \E p \in profile[i].of : r[1] <= p /\ p <= r[2]
      BY <1>4, <2>1, <2>3, <2>5
    <3>3. QED
      BY <2>3, <3>1, <3>2 DEF LastBefore, FirstAfter
  <2>6. QED
    BY <2>4, <2>5
<1>6. QED
  BY <1>5 DEF GapsAreFilled, M

\* Whatever surveys the database has and however the clouds overlap, the profile has the
\* newest heights from end to end, its gaps filled from what is next to them, and is
\* refused only when nothing could be measured.
THEOREM ProfilesFollowTheLink == EngineSpec => []ProfileFollowsTheLink
<1> SurveysAssumption
  BY SurveysAssumption
<1>1. EngineInv => ProfileFollowsTheLink
  <2> SUFFICES ASSUME EngineInv, stage \in {"done", "refused"}
               PROVE  /\ SegmentsAreNewest
                      /\ stage = "refused" <=> ~\E s \in segments : Measured(s[1], s[2])
                      /\ stage = "done" =>
                           /\ Len(profile) <= NumSamples /\ NumSamples < Len(profile) + Cardinality(segments)
                           /\ \A i \in 1 .. Len(profile) - 1 :
                                 profile[i].run = profile[i + 1].run \/ profile[i].run[2] <= profile[i + 1].run[1]
                           /\ GapsAreFilled
    BY DEF ProfileFollowsTheLink
  <2> DEFINE data == Combined(segments)
             M == {s[1] : s \in {t \in segments : Measured(t[1], t[2])}}
  <2>1. AllCut /\ SurveyInv
    BY DEF EngineInv, AllCut, Uncut
  <2>2. \A s \in segments : s[2] \in Cloud \cup {NoCloud}
    BY <2>1, CloudsOfSegments
  <2>3. Lined(data) /\ Len(data) <= NumSamples /\ NumSamples < Len(data) + Cardinality(segments)
    BY <2>1, <2>2, SamplesInLine
  <2>4. RunsMeasured(data) = M
    BY <2>1, <2>2, MeasuredSegments
  <2>5. /\ stage = "refused" => ~ \E i \in DOMAIN data : data[i].of # {}
        /\ stage = "done" => profile = Interpolated(data) /\ \E i \in DOMAIN data : data[i].of # {}
    BY DEF EngineInv, ProfileInv
  <2>6. stage = "done" => GapsAreFilled
    BY <2>1, <2>2, <2>5, GapsFilled
  <2> HIDE DEF data
  <2>7. (\E i \in DOMAIN data : data[i].of # {}) <=> \E s \in segments : Measured(s[1], s[2])
    <3>1. (\E i \in DOMAIN data : data[i].of # {}) <=> RunsMeasured(data) # {}
      BY DEF RunsMeasured, MeasuredIn
    <3>2. M # {} <=> \E s \in segments : Measured(s[1], s[2])
      OBVIOUS
    <3>3. QED
      BY <2>4, <3>1, <3>2
  <2>8. ASSUME stage = "done"
        PROVE  /\ Len(profile) = Len(data)
               /\ \A i \in 1 .. Len(data) : profile[i].run = data[i].run
    BY <2>3, <2>5, <2>8, FilledFromTheSides
  <2>9. ASSUME stage = "done", NEW i \in 1 .. Len(profile) - 1
        PROVE  profile[i].run = profile[i + 1].run \/ profile[i].run[2] <= profile[i + 1].run[1]
    <3>1. DOMAIN data = 1 .. Len(data) /\ Len(data) \in Nat
      BY <2>3, RunsOfSamples
    <3>2. i \in DOMAIN data /\ i + 1 \in DOMAIN data /\ i < i + 1
      BY <2>8, <2>9, <3>1
    <3>3. /\ data[i].run[1] <= data[i + 1].run[1]
          /\ data[i].run # data[i + 1].run =>
                data[i].run[2] <= data[i + 1].run[1] \/ data[i + 1].run[2] <= data[i].run[1]
      BY <2>3, <3>2 DEF Lined
    <3>4. /\ data[i].run[1] \in Nat /\ data[i + 1].run[1] \in Nat /\ data[i + 1].run[2] \in Nat
          /\ data[i + 1].run[1] < data[i + 1].run[2]
      BY <2>3, <3>2, RunsOfSamples
    <3>5. profile[i].run = data[i].run /\ profile[i + 1].run = data[i + 1].run
      BY <2>8, <2>9, <3>1, <3>2
    <3>6. ~ (data[i + 1].run[2] <= data[i].run[1])
      BY <3>3, <3>4
    <3>7. QED
      BY <3>3, <3>5, <3>6
  <2>10. SegmentsAreNewest
    BY NewestOfEachCell
  <2>11. QED
    BY <2>3, <2>5, <2>6, <2>7, <2>8, <2>9, <2>10
<1>2. EngineSpec => []EngineInv
  BY EngineInvariant
<1>3. QED
  BY <1>1, <1>2, PTL
=============================================================================
