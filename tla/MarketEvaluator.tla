--------------------------- MODULE MarketEvaluator --------------------------
(***************************************************************************)
(* The market evaluator: a browser that asks for statistics of the area    *)
(* selected on the map, the consumer at the other end of its websocket,    *)
(* and the Celery tasks that answer over it.  A new selection cancels the  *)
(* old one in two places: the browser forgets its uuid, so that what still *)
(* arrives is dropped, and the consumer revokes its tasks.  Inside the     *)
(* browser, handlers talk through PubSub, whose publish only queues.       *)
(*                                                                         *)
(* A selection is a number; 0 stands for a uuid no message carries.  The   *)
(* buildings of an area come in pages, a page <<n, k>> being one building  *)
(* of its own.  The building task is followed page by page, and one task   *)
(* stands for those that answer once.  What may go wrong is Env's:         *)
(*   "clear"      the user deletes the last area of the map                *)
(*   "empty"      there are areas without buildings                        *)
(*   "osm"        there are areas whose buildings come from OpenStreetMap  *)
(*   "dberror"    a query for a page fails                                 *)
(*   "timeout"    a task reaches its soft time limit                       *)
(*   "fail"       a task ends in any other exception, or a full channel    *)
(*   "reject"     validation fails in a way that is not the user's fault   *)
(*   "raise"      the request's geometry cannot be parsed                  *)
(*   "disconnect" the socket closes                                        *)
(***************************************************************************)
EXTENDS Integers, Sequences

CONSTANTS MaxRequests,  \* bound on the selections a user makes
          MaxPages,     \* bound on the pages of buildings of an area
          Kinds,        \* the tasks of a request that are followed
          Env           \* what may go wrong

ASSUME BoundsAssumption == MaxRequests \in Nat /\ MaxPages \in Nat \ {0}
ASSUME KindsAssumption  == Kinds \subseteq {"buildings", "answer"}

Requests == 1 .. MaxRequests
Pages    == Requests \X (1 .. MaxPages)
Tasks    == Requests \X Kinds

VARIABLES
    socket,    \* the browser's websocket
    asked,     \* the number of selections made
    current,   \* the uuid of the current polygon request
    area,      \* of a request: the pages its area has, and their source
    events,    \* what PubSub has still to deliver
    sidebar,   \* the sidebar manager and what it displays
    overlay,   \* the renderer's buildingOverlays
    slider,    \* the building size filter
    announced, \* history: the request whose SEND_REQUEST the sidebar saw last
    up, down,  \* the websocket, either way
    taskList,  \* the consumer's taskList
    revoked,   \* the tasks the consumer revoked
    task,      \* where each task is
    page       \* the last page a building task sent

browser == <<socket, asked, current, area, events, sidebar, overlay, slider, announced>>
server  == <<taskList, revoked, task, page>>
vars    == <<browser, up, down, server>>

PagesOf(n) == {n} \X (1 .. area[n].pages)

Message == [type : {"buildings", "answer", "error"}, req : Requests, pages : SUBSET Pages,
            first : BOOLEAN, done : BOOLEAN, failed : BOOLEAN]

TypeOK ==
    /\ socket \in {"connecting", "open", "closed"}
    /\ asked \in 0 .. MaxRequests
    /\ {current, announced} \subseteq 0 .. asked
    /\ area \in [Requests -> [pages : 0 .. MaxPages, source : {"msft", "osm"}]]
    /\ \A i \in DOMAIN events :
          /\ events[i].topic \in {"send", "no_items", "buildings", "answer", "bounds"}
          /\ events[i].topic = "send" => events[i].req \in Requests
          /\ events[i].topic \in {"buildings", "answer"} => events[i].msg \in Message
          /\ events[i].topic = "bounds" => events[i].pages \subseteq Pages
    /\ sidebar \in [loading : BOOLEAN, error : BOOLEAN, listed : BOOLEAN, list : SUBSET Pages,
                    count : SUBSET Pages, mark : {"loading", "final", "error"},
                    answer : 0 .. MaxRequests, answered : {"loading", "final", "error"}]
    /\ overlay \subseteq Pages
    /\ slider \in [thumbs : {"set", "infinite", "nan"}, passes : SUBSET Pages]
    /\ up \in Seq(Requests)
    /\ \A i \in DOMAIN down : down[i] \in Message
    /\ taskList \subseteq Tasks /\ revoked \subseteq Tasks
    /\ task \in [Tasks -> {"none", "running", "ended", "failed", "terminated",
                          "orphaned"}]
    /\ page \in [Requests -> 0 .. MaxPages]

Init ==
    /\ socket = "connecting"
    /\ asked = 0 /\ current = 0 /\ announced = 0
    /\ area = [n \in Requests |-> [pages |-> 0, source |-> "msft"]]
    /\ events = <<>>
    /\ sidebar = [loading |-> FALSE, error |-> FALSE, listed |-> FALSE, list |-> {},
                  count |-> {}, mark |-> "final", answer |-> 0, answered |-> "final"]
    /\ overlay = {}
    /\ slider = [thumbs |-> "set", passes |-> Pages]
    /\ up = <<>> /\ down = <<>>
    /\ taskList = {} /\ revoked = {}
    /\ task = [t \in Tasks |-> "none"]
    /\ page = [n \in Requests |-> 0]

-----------------------------------------------------------------------------
(* Selecting: sendCoverageRequest.  The uuid of the last request and the   *)
(* buildings on the map go first; then the new request is sent.  A closed  *)
(* socket swallows it; one that is still connecting throws, and the send   *)
(* event is not published.                                                 *)

Publish(e) == events' = Append(events, e)

SelectArea ==
    /\ asked < MaxRequests
    /\ asked' = asked + 1
    /\ \E n \in (IF "empty" \in Env THEN 0 ELSE 1) .. MaxPages,
          src \in {"msft"} \cup ({"osm"} \cap Env) :
            area' = [area EXCEPT ![asked'] = [pages |-> n, source |-> src]]
    /\ current' = asked'
    /\ overlay' = {}
    /\ IF socket = "connecting" THEN UNCHANGED events
       ELSE Publish([topic |-> "send", req |-> asked'])
    /\ up' = IF socket = "open" THEN Append(up, asked') ELSE up
    /\ UNCHANGED <<socket, sidebar, slider, announced, down, server>>

(* The map has no coverage area left: a selection of nothing.              *)
SelectNothing ==
    /\ "clear" \in Env
    /\ asked < MaxRequests
    /\ asked' = asked + 1
    /\ current' = 0
    /\ overlay' = {}
    /\ Publish([topic |-> "no_items"])
    /\ UNCHANGED <<socket, area, sidebar, slider, announced, up, down, server>>

-----------------------------------------------------------------------------
(* What the browser's handlers do.                                         *)

Mark(loading) == IF loading THEN "loading" ELSE "final"

(* Mutant: the loading flag is only raised by messages.                    *)
ResetSidebar_KeepLoading(s, loading) ==
    [s EXCEPT !.error = FALSE, !.count = {}, !.mark = Mark(loading),
              !.answer = 0, !.answered = Mark(loading)]

(* resetStats and resetSidebar: the list of buildings is kept.             *)
ResetSidebar(s, loading) ==
    [s EXCEPT !.loading = loading, !.error = FALSE, !.count = {}, !.mark = Mark(loading),
              !.answer = 0, !.answered = Mark(loading)]

(* updateBuildingStats: count what the filter lets pass.                   *)
UpdateStats(s, passes) ==
    IF s.error THEN [s EXCEPT !.count = {}, !.mark = "error"]
    ELSE IF s.listed THEN [s EXCEPT !.count = s.list \cap passes, !.mark = Mark(s.loading)]
    ELSE s

(* Mutant: no message begins the list anew.                                *)
Extend_Append(list, m) == list \cup m.pages

(* The list after a message: the one with offset "0" begins it anew.       *)
Extend(list, m) == IF m.first THEN m.pages ELSE list \cup m.pages

(* MarketEvaluatorSidebarManager.onBuildingOverlayMsg.  With no list yet,  *)
(* pushing to it throws before anything is displayed.                      *)
SidebarBuildings(s, m) ==
    IF m.failed THEN [s EXCEPT !.error = TRUE]
    ELSE IF ~m.first /\ ~s.listed THEN [s EXCEPT !.loading = ~m.done]
    ELSE UpdateStats([s EXCEPT !.loading = ~m.done, !.listed = TRUE,
                               !.list = Extend(s.list, m)], slider.passes)

(* The bounds the renderer publishes are those of the buildings it holds:  *)
(* with none they are infinite and the wrong way round.                    *)
BoundsOf(pages) == [topic |-> "bounds", pages |-> pages, empty |-> pages = {}]
NoBounds        == [topic |-> "bounds", pages |-> {}, empty |-> FALSE]

(* MultiThumbSlider.setRange.  A thumb moves in proportion to the old      *)
(* limit: an infinite limit puts it at infinity, and the next division by  *)
(* what parseInt makes of "Infinity" leaves NaN, which stays.  The user is *)
(* taken to leave the filter alone, and the bounds of some buildings to    *)
(* let no other building pass.                                             *)
SetRange(s, b) ==
    IF s.thumbs # "set" THEN [thumbs |-> "nan", passes |-> {}]
    ELSE IF b.empty THEN [thumbs |-> "infinite", passes |-> Pages]
    ELSE [thumbs |-> "set", passes |-> b.pages]

(* Mutant: no filter.                                                      *)
Accepted_Any(m) == TRUE

(* onmessage: a message goes on if it answers the current request.  An     *)
(* error message has no subscriber.                                        *)
Accepted(m) == m.req = current

OnMessage ==
    /\ down # <<>>
    /\ down' = Tail(down)
    /\ LET m == Head(down)
       IN IF Accepted(m) /\ m.type # "error"
          THEN Publish([topic |-> m.type, msg |-> m])
          ELSE UNCHANGED events
    /\ UNCHANGED <<socket, asked, current, area, sidebar, overlay, slider, announced, up, server>>

(* PubSub delivers in the order of publication, to every subscriber.       *)
DeliverSend(e) ==
    /\ e.topic = "send"
    /\ sidebar' = ResetSidebar(sidebar, TRUE)
    /\ announced' = e.req
    /\ events' = Tail(events)
    /\ UNCHANGED <<overlay, slider>>

DeliverNoItems(e) ==
    /\ e.topic = "no_items"
    /\ sidebar' = ResetSidebar(sidebar, FALSE)
    /\ announced' = 0
    /\ events' = Tail(events)
    /\ UNCHANGED <<overlay, slider>>

(* The sidebar and the renderer each keep a list; the renderer publishes   *)
(* the bounds of its own for the filter.                                   *)
DeliverBuildings(e) ==
    /\ e.topic = "buildings"
    /\ sidebar' = SidebarBuildings(sidebar, e.msg)
    /\ overlay' = IF e.msg.failed THEN overlay ELSE Extend(overlay, e.msg)
    /\ events' = Append(Tail(events), IF e.msg.failed THEN NoBounds ELSE BoundsOf(overlay'))
    /\ UNCHANGED <<slider, announced>>

DeliverAnswer(e) ==
    /\ e.topic = "answer"
    /\ sidebar' = [sidebar EXCEPT !.answer = e.msg.req,
                                  !.answered = IF e.msg.failed THEN "error" ELSE "final"]
    /\ events' = Tail(events)
    /\ UNCHANGED <<overlay, slider, announced>>

DeliverBounds(e) ==
    /\ e.topic = "bounds"
    /\ slider' = SetRange(slider, e)
    /\ sidebar' = UpdateStats(sidebar, slider'.passes)
    /\ events' = Tail(events)
    /\ UNCHANGED <<overlay, announced>>

Deliver ==
    /\ events # <<>>
    /\ LET e == Head(events)
       IN \/ DeliverSend(e) \/ DeliverNoItems(e) \/ DeliverBuildings(e)
          \/ DeliverAnswer(e) \/ DeliverBounds(e)
    /\ UNCHANGED <<socket, asked, current, area, up, down, server>>

-----------------------------------------------------------------------------
(* The consumer: standard_polygon_request.  The tasks of the request       *)
(* before are revoked and forgotten first.                                 *)

(* Mutant: the list is reset before it is revoked.                         *)
Revoke_Nothing == revoked' = revoked


Revoke == revoked' = revoked \cup taskList

StartTasks(n) ==
    /\ taskList' = {n} \X Kinds
    /\ task' = [t \in Tasks |-> IF t[1] = n THEN "running" ELSE task[t]]

HandleRequest ==
    /\ up # <<>>
    /\ up' = Tail(up)
    /\ Revoke
    /\ StartTasks(Head(up))
    /\ UNCHANGED <<browser, down, page>>

HandleInvalid ==
    /\ "reject" \in Env
    /\ up # <<>>
    /\ up' = Tail(up)
    /\ Revoke
    /\ taskList' = {}
    /\ down' = Append(down, [type |-> "error", req |-> Head(up), pages |-> {},
                             first |-> FALSE, done |-> FALSE, failed |-> FALSE])
    /\ UNCHANGED <<browser, task, page>>

(* The connection ends: what is under way on it is lost, its consumer does *)
(* nothing in disconnect, and its tasks go on writing to a channel nobody  *)
(* reads.                                                                  *)
HangUp ==
    /\ socket' = "closed"
    /\ up' = <<>> /\ down' = <<>>
    /\ taskList' = {}
    /\ task' = [t \in Tasks |-> IF task[t] = "running" THEN "orphaned" ELSE task[t]]
    /\ UNCHANGED <<asked, current, area, events, sidebar, overlay, slider, announced, page>>

HandleRaises ==
    /\ "raise" \in Env
    /\ up # <<>>
    /\ Revoke
    /\ HangUp

Disconnect ==
    /\ "disconnect" \in Env
    /\ socket # "closed"
    /\ HangUp
    /\ UNCHANGED revoked

(* onclose connects again after a second; nothing is sent again.           *)
Connect ==
    /\ socket = "closed"
    /\ socket' = "connecting"
    /\ UNCHANGED <<asked, current, area, events, sidebar, overlay, slider, announced,
                   up, down, server>>

Open ==
    /\ socket = "connecting"
    /\ socket' = "open"
    /\ UNCHANGED <<asked, current, area, events, sidebar, overlay, slider, announced,
                   up, down, server>>

-----------------------------------------------------------------------------
(* The tasks.                                                              *)

Send(t, pages, done, failed) ==
    down' = Append(down, [type |-> t[2], req |-> t[1], pages |-> pages, done |-> done,
                          failed |-> failed,
                          first |-> /\ t[2] = "buildings" /\ page[t[1]] = 0 /\ ~failed
                                    /\ area[t[1]].source = "msft"])

Running(t) == t \in Tasks /\ task[t] = "running"

End(t) == task' = [task EXCEPT ![t] = "ended"]

(* Mutants: the loop does not stop at an empty page; it stops without      *)
(* sending it.                                                             *)
SendPage_Endless(n) ==
    LET k == page[n] + 1
    IN /\ Running(<<n, "buildings">>)
       /\ area[n].source = "msft"
       /\ Send(<<n, "buildings">>, {<<n, k>>} \cap PagesOf(n), k > area[n].pages, FALSE)
       /\ page' = [page EXCEPT ![n] = k]
       /\ UNCHANGED <<browser, up, taskList, revoked, task>>

SendPage_Silent(n) ==
    LET k == page[n] + 1
    IN /\ Running(<<n, "buildings">>)
       /\ area[n].source = "msft"
       /\ IF k <= area[n].pages
          THEN /\ Send(<<n, "buildings">>, {<<n, k>>}, FALSE, FALSE)
               /\ page' = [page EXCEPT ![n] = k]
               /\ UNCHANGED task
          ELSE End(<<n, "buildings">>) /\ UNCHANGED <<down, page>>
       /\ UNCHANGED <<browser, up, taskList, revoked>>

(* One round of genBuildings' loop: the page after the last one sent.  The *)
(* empty page is sent too, and ends it.                                    *)
SendPage(n) ==
    LET k == page[n] + 1
    IN /\ Running(<<n, "buildings">>)
       /\ area[n].source = "msft"
       /\ IF k <= area[n].pages
          THEN /\ Send(<<n, "buildings">>, {<<n, k>>}, FALSE, FALSE)
               /\ page' = [page EXCEPT ![n] = k]
               /\ UNCHANGED task
          ELSE /\ Send(<<n, "buildings">>, {}, TRUE, FALSE)
               /\ End(<<n, "buildings">>)
               /\ UNCHANGED page
       /\ UNCHANGED <<browser, up, taskList, revoked>>

(* getMicrosoftBuildingsOffset turns a failed query into an empty page of  *)
(* offset -1, and genBuildings puts its own offset there.                  *)
QueryFails(n) ==
    /\ "dberror" \in Env
    /\ Running(<<n, "buildings">>)
    /\ area[n].source = "msft"
    /\ Send(<<n, "buildings">>, {}, TRUE, FALSE)
    /\ End(<<n, "buildings">>)
    /\ UNCHANGED <<browser, up, taskList, revoked, page>>

(* OpenStreetMap's buildings come in one message, without an offset.       *)
SendOSM(n) ==
    /\ Running(<<n, "buildings">>)
    /\ area[n].source = "osm"
    /\ Send(<<n, "buildings">>, PagesOf(n), TRUE, FALSE)
    /\ End(<<n, "buildings">>)
    /\ UNCHANGED <<browser, up, taskList, revoked, page>>

SendAnswer(n) ==
    /\ Running(<<n, "answer">>)
    /\ Send(<<n, "answer">>, {}, TRUE, FALSE)
    /\ End(<<n, "answer">>)
    /\ UNCHANGED <<browser, up, taskList, revoked, page>>

(* The decorator answers a soft time limit with the task's error_resp.     *)
TimeOut(t) ==
    /\ "timeout" \in Env
    /\ Running(t)
    /\ Send(t, {}, FALSE, TRUE)
    /\ End(t)
    /\ UNCHANGED <<browser, up, taskList, revoked, page>>

(* Any other exception ends a task without an answer.                      *)
TaskFails(t) ==
    /\ "fail" \in Env
    /\ Running(t)
    /\ task' = [task EXCEPT ![t] = "failed"]
    /\ UNCHANGED <<browser, up, down, taskList, revoked, page>>

(* A revocation reaches the worker of a task, or the queue it waits in.    *)
Terminate(t) ==
    /\ t \in revoked
    /\ Running(t)
    /\ task' = [task EXCEPT ![t] = "terminated"]
    /\ UNCHANGED <<browser, up, down, taskList, revoked, page>>

-----------------------------------------------------------------------------
Next ==
    \/ SelectArea \/ SelectNothing
    \/ OnMessage \/ Deliver
    \/ HandleRequest \/ HandleInvalid \/ HandleRaises
    \/ Disconnect \/ Connect \/ Open
    \/ \E n \in Requests : SendPage(n) \/ QueryFails(n) \/ SendOSM(n) \/ SendAnswer(n)
    \/ \E t \in Tasks : TimeOut(t) \/ TaskFails(t) \/ Terminate(t)

(* The browser's event loop, the consumer and the workers go on.  Nothing  *)
(* is assumed of the user, of failures, or of when a revocation arrives.   *)
Fairness ==
    /\ WF_vars(OnMessage) /\ WF_vars(Deliver) /\ WF_vars(HandleRequest)
    /\ \A n \in Requests :
          WF_vars(SendPage(n)) /\ WF_vars(SendOSM(n)) /\ WF_vars(SendAnswer(n))

Spec     == Init /\ [][Next]_vars
FairSpec == Spec /\ Fairness

-----------------------------------------------------------------------------
(* Properties.                                                             *)

(* Tasks of a request the user has left are not left running: whatever     *)
(* this connection's tasks are, each is either in the consumer's taskList, *)
(* which the next request revokes, or revoked already.                     *)
RunningTasksCanBeRevoked ==
    \A t \in Tasks : Running(t) => t \in taskList \cup revoked

(* A count without its loading mark is taken over all the buildings of the *)
(* area the sidebar was reset for and over no other: old messages that are *)
(* still in a queue, tasks that are not yet dead and lists that outlive a  *)
(* reset never show in it.  (genBuildings: "But we still send response to  *)
(* indicate to FE that buildings are complete".)                           *)
FinalListIsExact ==
    announced # 0 /\ sidebar.mark = "final" => sidebar.list = PagesOf(announced)

(* The sidebar's count is the one AreaCount describes, for all that goes   *)
(* on in two queues, the consumer and the tasks: each request is taken up  *)
(* once, nothing of another's is gathered for it, and a count that is      *)
(* final or in error stays so until the sidebar is reset.                  *)
StillToSend == {n \in Requests : \/ n > asked
                                 \/ \E i \in DOMAIN events : /\ events[i].topic = "send"
                                                             /\ events[i].req = n}

Count == INSTANCE AreaCount WITH
            NoRequest <- 0, extent <- [n \in Requests |-> PagesOf(n)],
            request <- announced, waiting <- StillToSend, counted <- sidebar.list,
            mark <- sidebar.mark

ImplementsAreaCount == Count!CountSpec

(* The map then holds the same buildings as the list, though the two are   *)
(* cleared at different times.                                             *)
MapHoldsTheList ==
    announced # 0 /\ announced = current /\ sidebar.mark = "final" => overlay = sidebar.list

(* The other statistics shown beside the count are of the same request.    *)
AnswerIsOfTheArea ==
    announced # 0 /\ sidebar.answered # "loading" => sidebar.answer = announced

(* A request on its way to the consumer ends in a count and an answer, or  *)
(* an error mark, at the sidebar, unless the user moves on, the connection *)
(* is lost, the consumer refuses it or a task of it dies.                  *)
OnItsWay(n) == \E i \in DOMAIN up : up[i] = n

GivenUp(n) ==
    \/ current # n
    \/ socket # "open"
    \/ ~OnItsWay(n) /\ \E k \in Kinds : task[<<n, k>>] \in {"none", "failed"}

RequestIsAnswered ==
    \A n \in Requests :
        OnItsWay(n)
            ~> \/ GivenUp(n)
               \/ /\ announced = n
                  /\ "buildings" \in Kinds => sidebar.mark # "loading"
                  /\ "answer" \in Kinds => sidebar.answered # "loading"

(* MarketEvaluatorTooltips: "This is a count of rooftops identified in     *)
(* your selected area".  Once nothing is queued the number displayed as    *)
(* final is theirs.                                                        *)
CountIsOfTheArea ==
    announced # 0 /\ events = <<>> /\ sidebar.mark = "final"
        => sidebar.count = PagesOf(announced)
=============================================================================
