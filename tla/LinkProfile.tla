----------------------------- MODULE LinkProfile ----------------------------
(***************************************************************************)
(* A point-to-point link: the page that asks for its profile, the consumer *)
(* at the other end of the socket, and the tasks that answer.  One request *)
(* starts getLinkInfo, which starts one terrain task and one LiDAR task;   *)
(* a LiDAR task starts the next one, at a finer resolution, before it      *)
(* sends its own answer.  A new request revokes getLinkInfo and nothing    *)
(* that getLinkInfo has started, and the page does not look at the hash    *)
(* its answers carry: an impatient user may be shown a mixture.            *)
(*                                                                         *)
(* A profile is the link it was taken of.  A request is a number; zoomed   *)
(* ones ask for a part of the link (its "aoi") and fill the chart only.    *)
(***************************************************************************)
EXTENDS Integers, Sequences, FiniteSets

CONSTANTS Links,        \* links a user may draw
          Finest,       \* the finest resolution for the length of each link and, zoomed,
                        \* of the part of it; 0: too long
          NoLink,
          MaxLinkAsks   \* bound on the requests of one page

LOW   == 1
ULTRA == 4

\* A part of a link is no longer than the link, and allows what the link allows.
ASSUME LinksAssumption ==
    /\ NoLink \notin Links /\ Finest \in [Links \X BOOLEAN -> 0 .. ULTRA]
    /\ \A l \in Links : Finest[<<l, FALSE>>] <= Finest[<<l, TRUE>>]
ASSUME MaxLinkAsksAssumption == MaxLinkAsks \in Nat

VARIABLES
    patient,   \* whether the user waits for all answers before asking again
    page,      \* the page, see PageInit
    wire,      \* the socket: open, the pending request, requests on their way
    linkTasks, \* the consumer's tasks_to_revoke of the kind "link"
    linkWork,  \* the tasks under way
    cache,     \* of a link and an aoi: the resolution stored, 0 if none
    unanswered \* history: requests of which an answer got lost, or says nothing

linkVars == <<patient, page, wire, linkTasks, linkWork, cache, unanswered>>

NoRequest == [n |-> 0, link |-> NoLink, zoom |-> FALSE]
NoLidar   == [link |-> NoLink, res |-> 0]

PageInit == [selected |-> NoLink,      \* selected_feature
             drawn    |-> FALSE,       \* whether the selected feature is on the map
             view     |-> "instructions",
             elevation |-> NoLink,     \* _elevation
             lidar    |-> NoLidar,     \* _lidar
             verdict  |-> <<NoLink, NoLidar>>, \* what the obstructions were computed from
             render   |-> NoLink,      \* currentLinkHash
             dragging |-> FALSE,
             asks     |-> 0]

LinkInit ==
    /\ patient \in BOOLEAN
    /\ page = PageInit
    /\ wire = [open |-> FALSE, pending |-> NoRequest, up |-> <<>>]
    /\ linkTasks = {} /\ linkWork = {} /\ unanswered = {}
    /\ cache = [a \in Links \X BOOLEAN |-> 0]

------------------------------------------------------------------------------
(* The user and the page's side of the socket *)

Settled == wire.up = <<>> /\ wire.pending = NoRequest /\ linkWork = {}

MayAsk == page.asks < MaxLinkAsks /\ (patient => Settled)

SendRequest_DropWhenClosed(r) ==
    wire' = IF wire.open THEN [wire EXCEPT !.up = Append(@, r)] ELSE wire

SendRequest(r) ==
    wire' = IF wire.open THEN [wire EXCEPT !.up = Append(@, r)]
                         ELSE [wire EXCEPT !.pending = r]

Emptied_KeepLidar(p) == [p EXCEPT !.elevation = NoLink]

Emptied(p) == [p EXCEPT !.elevation = NoLink, !.lidar = NoLidar]

\* A link is drawn, moved or selected: updateRadioLocation, updateLinkProfile.
SelectLink(l) ==
    /\ MayAsk /\ (l # page.selected \/ ~page.drawn)
    /\ page' = [Emptied(page) EXCEPT !.selected = l, !.drawn = TRUE, !.dragging = FALSE,
                                     !.view = "loading", !.asks = @ + 1]
    /\ SendRequest([n |-> page.asks + 1, link |-> l, zoom |-> FALSE])
    /\ UNCHANGED <<patient, linkTasks, linkWork, cache, unanswered>>

\* An end of the selected link is dragged and dropped again: the page shows
\* that it is loading from the first movement on, and asks when it is dropped.
DragLink(l) ==
    /\ patient => Settled
    /\ page.drawn /\ l # page.selected /\ page.asks < MaxLinkAsks
    /\ page' = [page EXCEPT !.selected = l, !.dragging = TRUE, !.view = "loading"]
    /\ UNCHANGED <<patient, wire, linkTasks, linkWork, cache, unanswered>>

DropLink ==
    /\ MayAsk /\ page.dragging /\ page.selected # NoLink
    /\ page' = [Emptied(page) EXCEPT !.dragging = FALSE, !.view = "loading", !.asks = @ + 1]
    /\ SendRequest([n |-> page.asks + 1, link |-> page.selected, zoom |-> FALSE])
    /\ UNCHANGED <<patient, linkTasks, linkWork, cache, unanswered>>

\* setExtremes: the user zooms into the chart, or out to the whole link.  (Without
\* terrain the chart has no length to divide by, and both tasks fail, as any may.)
Zoom(in) ==
    /\ MayAsk /\ page.view = "chart"
    /\ page' = [page EXCEPT !.asks = @ + 1]
    /\ SendRequest([n |-> page.asks + 1, link |-> page.selected, zoom |-> in])
    /\ UNCHANGED <<patient, linkTasks, linkWork, cache, unanswered>>

\* The last feature of the map is deleted: deleteDrawingCallback, clearInputs.
DeleteDrawing ==
    /\ page.drawn
    /\ page' = [page EXCEPT !.drawn = FALSE, !.dragging = FALSE, !.view = "instructions"]
    /\ UNCHANGED <<patient, wire, linkTasks, linkWork, cache, unanswered>>

OpenSocket ==
    /\ ~wire.open
    /\ wire' = [wire EXCEPT !.open = TRUE, !.pending = NoRequest,
                            !.up = IF wire.pending = NoRequest THEN <<>> ELSE <<wire.pending>>]
    /\ UNCHANGED <<patient, page, linkTasks, linkWork, cache, unanswered>>

\* The tasks of a connection that ends are revoked, those they started go on.
Revoke(asks) == linkWork' = {t \in linkWork : ~(t.kind = "info" /\ t.req.n \in asks)}

CloseSocket ==
    /\ wire.open
    /\ wire' = [wire EXCEPT !.open = FALSE, !.up = <<>>]
    /\ Revoke(linkTasks)
    /\ linkTasks' = {}
    /\ unanswered' = 1 .. page.asks
    /\ UNCHANGED <<patient, page, cache>>

------------------------------------------------------------------------------
(* Answers at the page *)

Shown(p) ==  \* showPlotIfValidState
    IF /\ p.lidar # NoLidar /\ p.elevation # NoLink
       /\ p.selected # NoLink /\ p.drawn
    THEN [p EXCEPT !.view = "chart"] ELSE p

Judged(p) ==  \* updateLinkChart
    IF p.elevation # NoLink /\ p.lidar # NoLidar
    THEN [p EXCEPT !.verdict = <<p.elevation, p.lidar>>] ELSE p

\* An answer without points says it is of the whole link, whatever was asked.
TerrainCallback(m) ==
    Shown(Judged(IF m.error THEN [page EXCEPT !.elevation = NoLink]
                 ELSE IF m.req.zoom THEN page
                 ELSE [page EXCEPT !.elevation = m.req.link]))

LidarCallback(m) ==
    IF m.error THEN [page EXCEPT !.view = "error"]
    ELSE Shown(Judged(
           IF m.req.zoom THEN page
           ELSE [page EXCEPT !.lidar = [link |-> m.req.link, res |-> m.res],
                             !.render = IF page.drawn THEN m.req.link ELSE @]))

LinkCallback(m) ==
    IF m.error THEN [page EXCEPT !.selected = NoLink, !.view = "error"] ELSE page

PageAfter(m) ==  \* ws_message_handler
    CASE m.handler = "terrain" -> TerrainCallback(m)
      [] m.handler = "lidar"   -> LidarCallback(m)
      [] m.handler = "link"    -> LinkCallback(m)

------------------------------------------------------------------------------
(* The consumer and the tasks *)

LinkTask(k, r, res) == [kind |-> k, req |-> r, asked |-> res, res |-> 0, pc |-> "start"]

\* receive_json: the last link request's task is revoked, wherever it is.
ReceiveLink ==
    /\ wire.open /\ wire.up # <<>>
    /\ LET r == Head(wire.up)
       IN  /\ linkWork' = {t \in linkWork : ~(t.kind = "info" /\ t.req.n \in linkTasks)}
                            \cup {LinkTask("info", r, 0)}
           /\ linkTasks' = {r.n}
    /\ wire' = [wire EXCEPT !.up = Tail(@)]
    /\ UNCHANGED <<patient, page, cache, unanswered>>

\* group_send, and the message's arrival: whoever is connected to the network's
\* group hears it.  A message on its way is a task that has not sent it yet.
GroupSend(t, kind, res, error) ==
    page' = IF wire.open
            THEN PageAfter([handler |-> kind, req |-> t.req, res |-> res, error |-> error])
            ELSE page

GetLinkInfo(t) ==
    /\ t.kind = "info"
    /\ \/ /\ Finest[<<t.req.link, FALSE>>] > 0
          /\ linkWork' = (linkWork \ {t}) \cup {LinkTask("terrain", t.req, 0),
                                                LinkTask("lidar", t.req, LOW)}
          /\ UNCHANGED page
       \/ /\ linkWork' = linkWork \ {t}     \* too long, or not a link at all
          /\ GroupSend(t, "link", 0, TRUE)
    /\ UNCHANGED <<patient, wire, linkTasks, cache, unanswered>>

\* An elevation service that does not answer leaves an error and no points.  The
\* page puts those in the place of the points it has, of whichever request.
GetTerrainProfile(t) ==
    /\ t.kind = "terrain"
    /\ linkWork' = linkWork \ {t}
    /\ \E error \in BOOLEAN :
          /\ GroupSend(t, "terrain", 0, error)
          /\ unanswered' = IF error THEN 1 .. page.asks ELSE unanswered
    /\ UNCHANGED <<patient, wire, linkTasks, cache>>

Area(t) == <<t.req.link, t.req.zoom>>

\* What a task that found or computed a profile does next: the finer one is
\* asked for if there is one, and the answer is still to be sent.
NextLidar_OwnResolution(t, res) ==
    IF t.asked < Finest[Area(t)] THEN {LinkTask("lidar", t.req, t.asked + 1)} ELSE {}

NextLidar(t, res) == IF res < Finest[Area(t)] THEN {LinkTask("lidar", t.req, res + 1)} ELSE {}

FoundProfile(t, res) ==
    linkWork' = (linkWork \ {t}) \cup NextLidar(t, res)
                  \cup {[t EXCEPT !.res = res, !.pc = "answer"]}

LookUpProfile(t) ==
    /\ t.kind = "lidar" /\ t.pc = "start"
    /\ IF cache[Area(t)] >= t.asked
       THEN FoundProfile(t, cache[Area(t)])
       ELSE linkWork' = (linkWork \ {t}) \cup {[t EXCEPT !.pc = "compute"]}
    /\ UNCHANGED <<patient, page, wire, linkTasks, cache, unanswered>>

ComputeProfile(t) ==
    /\ t.kind = "lidar" /\ t.pc = "compute"
    /\ cache' = [cache EXCEPT ![Area(t)] = t.asked]
    /\ FoundProfile(t, t.asked)
    /\ UNCHANGED <<patient, page, wire, linkTasks, unanswered>>

NoProfile(t) ==   \* no point clouds, or any other exception
    /\ t.kind = "lidar" /\ t.pc \in {"start", "compute"}
    /\ linkWork' = linkWork \ {t}
    /\ GroupSend(t, "lidar", 0, TRUE)
    /\ UNCHANGED <<patient, wire, linkTasks, cache, unanswered>>

AnswerProfile(t) ==
    /\ t.kind = "lidar" /\ t.pc = "answer"
    /\ linkWork' = linkWork \ {t}
    /\ GroupSend(t, "lidar", t.res, FALSE)
    /\ UNCHANGED <<patient, wire, linkTasks, cache, unanswered>>

TaskStep(t) ==
    \/ GetLinkInfo(t)   \/ GetTerrainProfile(t)
    \/ LookUpProfile(t) \/ ComputeProfile(t)
    \/ NoProfile(t)     \/ AnswerProfile(t)

LinkUser ==
    \/ \E l \in Links : SelectLink(l) \/ DragLink(l)
    \/ DropLink \/ DeleteDrawing \/ \E in \in BOOLEAN : Zoom(in)
    \/ CloseSocket

LinkSystem == OpenSocket \/ ReceiveLink \/ \E t \in linkWork : TaskStep(t)

LinkNext == LinkUser \/ LinkSystem

LinkSpec == LinkInit /\ [][LinkNext]_linkVars

------------------------------------------------------------------------------
(* Properties *)

\* The tasks of a request are one chain: one profile at most is being looked
\* for, finer than every one that is found and not yet sent, and none finer than
\* the length of the link allows (getLiDARProfile, which starts its successor).
RefinementIsAChain ==
    /\ \A t, u \in {t \in linkWork : t.kind = "lidar"} :
          t # u /\ t.req.n = u.req.n =>
             \/ t.pc = "answer" /\ t.res < (IF u.pc = "answer" THEN u.res ELSE u.asked)
             \/ u.pc = "answer" /\ u.res < (IF t.pc = "answer" THEN t.res ELSE t.asked)
    /\ \A a \in DOMAIN cache : cache[a] <= Finest[a]

\* A user who waits for the answers to one request before the next is shown the
\* profile and the point cloud of the link selected, the terrain below it, and the
\* obstructions computed from these two (the callbacks compare no hashes, so an
\* impatient one may not be).  A chart loses its terrain to an elevation service that
\* fails a zoom; what it goes on to show as obstructions are still the link's.
PatientSeesTheLink ==
    patient /\ page.view = "chart" =>
        /\ page.lidar.link = page.selected
        /\ page.render = page.selected
        /\ \/ /\ page.elevation = page.selected
              /\ page.verdict = <<page.elevation, page.lidar>>
           \/ /\ page.elevation = NoLink /\ unanswered # {}
              /\ page.verdict[1] = page.selected /\ page.verdict[2].link = page.selected

\* The page that shows a link as loading comes to show something else, unless the
\* link is dragged, another one asked for, or an answer lost or without terrain.
LoadingEnds ==
    \A n \in 1 .. MaxLinkAsks :
        (page.asks = n /\ page.view = "loading" /\ ~page.dragging)
            ~> \/ page.view # "loading" \/ page.dragging
               \/ page.asks > n \/ n \in unanswered

LinkFairness == /\ WF_linkVars(OpenSocket)
                /\ WF_linkVars(ReceiveLink)
                /\ WF_linkVars(\E t \in linkWork : TaskStep(t))

FairLinkSpec == LinkSpec /\ LinkFairness
=============================================================================
