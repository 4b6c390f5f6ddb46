------------------------ MODULE MarketEvaluator_proofs ----------------------
(***************************************************************************)
(* For any number of selections, pages and task kinds: what the consumer   *)
(* can still revoke, that every variable keeps its type, that what the     *)
(* sidebar shows is of the area it announces, that a final count is exact, *)
(* and that the evaluator implements AreaCount.                            *)
(***************************************************************************)
EXTENDS MarketEvaluator, TLAPS

(* The property, and that every task has a state.                          *)
RevocableInv == DOMAIN task = Tasks /\ RunningTasksCanBeRevoked

(* A step that starts no task and forgets none that runs.                  *)
LEMMA NothingStarted ==
    ASSUME RevocableInv, DOMAIN task' = Tasks,
           taskList \cup revoked \subseteq taskList' \cup revoked',
           \A t \in Tasks : task'[t] = "running" => task[t] = "running"
    PROVE  RevocableInv'
    BY DEF RevocableInv, RunningTasksCanBeRevoked, Running, Tasks

(* A step after which a task t no longer runs.                             *)
LEMMA OneTaskStops ==
    ASSUME RevocableInv, NEW t, NEW v, v # "running",
           task' = [task EXCEPT ![t] = v], UNCHANGED <<taskList, revoked>>
    PROVE  RevocableInv'
<1>1. DOMAIN task' = Tasks
    BY DEF RevocableInv
<1>2. \A u \in Tasks : task'[u] = "running" => task[u] = "running"
    BY DEF RevocableInv
<1> QED
    BY <1>1, <1>2, NothingStarted

(* A step that leaves the server alone.                                    *)
LEMMA ServerUntouched ==
    ASSUME RevocableInv, UNCHANGED <<taskList, revoked, task>>
    PROVE  RevocableInv'
    BY NothingStarted DEF RevocableInv

(* The connection ends: its tasks are orphans, and none runs on it.        *)
LEMMA NothingRunsAfterHangUp ==
    ASSUME HangUp
    PROVE  RevocableInv'
    BY DEF HangUp, RevocableInv, RunningTasksCanBeRevoked, Running, Tasks

(* Every step of the browser, the consumer and the tasks keeps every       *)
(* running task revocable.                                                 *)
LEMMA RevocableStep == RevocableInv /\ [Next]_vars => RevocableInv'
<1> SUFFICES ASSUME RevocableInv, [Next]_vars PROVE RevocableInv'
    OBVIOUS
<1>1. CASE SelectArea \/ SelectNothing \/ OnMessage \/ Deliver \/ Connect \/ Open
  <2>1. UNCHANGED server
      BY <1>1 DEF SelectArea, SelectNothing, OnMessage, Deliver, Connect, Open
  <2> QED
      BY <2>1, ServerUntouched DEF server
<1>2. CASE HandleRequest
  <2> DEFINE n == Head(up)
  <2>1. /\ revoked' = revoked \cup taskList
        /\ taskList' = {n} \X Kinds
        /\ task' = [t \in Tasks |-> IF t[1] = n THEN "running" ELSE task[t]]
      BY <1>2 DEF HandleRequest, Revoke, StartTasks
  <2>2. ASSUME NEW t \in Tasks, task'[t] = "running"
        PROVE  t \in taskList' \cup revoked'
    <3>1. CASE t[1] = n
        BY <2>1, <3>1 DEF Tasks
    <3>2. CASE t[1] # n
        BY <2>1, <2>2, <3>2 DEF RevocableInv, RunningTasksCanBeRevoked, Running
    <3> QED
        BY <3>1, <3>2
  <2> QED
      BY <2>1, <2>2 DEF RevocableInv, RunningTasksCanBeRevoked, Running, Tasks
<1>3. CASE HandleInvalid
  <2>1. revoked' = revoked \cup taskList /\ task' = task
      BY <1>3 DEF HandleInvalid, Revoke
  <2> QED
      BY <2>1, NothingStarted DEF RevocableInv
<1>4. CASE HandleRaises \/ Disconnect
    BY <1>4, NothingRunsAfterHangUp DEF HandleRaises, Disconnect
<1>5. ASSUME NEW n \in Requests, SendPage(n) PROVE RevocableInv'
  <2>1. CASE UNCHANGED task
      BY <1>5, <2>1, ServerUntouched DEF SendPage
  <2>2. CASE End(<<n, "buildings">>)
      BY <1>5, <2>2, OneTaskStops DEF SendPage, End
  <2> QED
      BY <1>5, <2>1, <2>2 DEF SendPage
<1>6. ASSUME NEW n \in Requests, QueryFails(n) \/ SendOSM(n) PROVE RevocableInv'
    BY <1>6, OneTaskStops DEF QueryFails, SendOSM, End
<1>7. ASSUME NEW n \in Requests, SendAnswer(n) PROVE RevocableInv'
    BY <1>7, OneTaskStops DEF SendAnswer, End
<1>8. ASSUME NEW t \in Tasks, TimeOut(t) \/ TaskFails(t) \/ Terminate(t) PROVE RevocableInv'
    BY <1>8, OneTaskStops DEF TimeOut, TaskFails, Terminate, End
<1>9. CASE UNCHANGED vars
    BY <1>9, ServerUntouched DEF vars, server
<1> QED
    BY <1>1, <1>2, <1>3, <1>4, <1>5, <1>6, <1>7, <1>8, <1>9 DEF Next

(* The consumer never loses a running task of its connection: each is in   *)
(* the list its next request revokes, or revoked.                          *)
THEOREM TasksStayRevocable == Spec => []RunningTasksCanBeRevoked
<1>1. Init => RevocableInv
    BY DEF Init, RevocableInv, RunningTasksCanBeRevoked, Running
<1>2. RevocableInv => RunningTasksCanBeRevoked
    BY DEF RevocableInv
<1> QED
    BY <1>1, <1>2, RevocableStep, PTL DEF Spec

-----------------------------------------------------------------------------
(* Types.  What PubSub queues is one of five kinds of event; a message is  *)
(* published under its own type.                                           *)

Event == [topic : {"send"}, req : Requests] \cup [topic : {"no_items"}]
         \cup {e \in [topic : {"buildings", "answer"}, msg : Message] : e.topic = e.msg.type}
         \cup [topic : {"bounds"}, pages : SUBSET Pages, empty : BOOLEAN]

(* TypeOK, of queues that are sequences, and no selection of the future.   *)
TypeInv ==
    /\ TypeOK
    /\ events \in Seq(Event) /\ down \in Seq(Message)
    /\ \A i \in DOMAIN events : events[i].topic = "send" => events[i].req <= asked

(* What the topic of an event says of its other fields.                    *)
LEMMA EventFields ==
    ASSUME NEW e \in Event
    PROVE  /\ e.topic \in {"send", "no_items", "buildings", "answer", "bounds"}
           /\ e.topic = "send" => e.req \in Requests
           /\ e.topic \in {"buildings", "answer"} => e.msg \in Message /\ e.msg.type = e.topic
           /\ e.topic = "bounds" => e.pages \in SUBSET Pages
    BY DEF Event

(* The fields of a message.                                                *)
LEMMA MessageFields ==
    ASSUME NEW m \in Message
    PROVE  /\ m.type \in {"buildings", "answer", "error"} /\ m.req \in Requests
           /\ m.pages \subseteq Pages
           /\ m.first \in BOOLEAN /\ m.done \in BOOLEAN /\ m.failed \in BOOLEAN
    BY DEF Message

(* A queue after something joins its end or leaves its head.               *)
LEMMA Appended ==
    ASSUME NEW S, NEW q \in Seq(S), NEW x \in S
    PROVE  /\ Append(q, x) \in Seq(S)
           /\ Len(Append(q, x)) = Len(q) + 1
           /\ \A i \in 1 .. Len(q) : Append(q, x)[i] = q[i]
           /\ Append(q, x)[Len(q) + 1] = x
    OBVIOUS

(* What popping a queue leaves: the rest, one position nearer.             *)
LEMMA Advanced ==
    ASSUME NEW S, NEW q \in Seq(S), q # <<>>
    PROVE  /\ Tail(q) \in Seq(S) /\ Head(q) \in S /\ Head(q) = q[1]
           /\ Len(q) \in Nat \ {0} /\ Len(Tail(q)) = Len(q) - 1
           /\ \A i \in 1 .. (Len(q) - 1) : Tail(q)[i] = q[i + 1]
    OBVIOUS

(* The events the code publishes are events.                               *)
LEMMA EventsMade ==
    /\ \A n \in Requests : [topic |-> "send", req |-> n] \in Event
    /\ [topic |-> "no_items"] \in Event
    /\ \A m \in Message : m.type # "error" => [topic |-> m.type, msg |-> m] \in Event
    /\ \A p \in SUBSET Pages : BoundsOf(p) \in Event
    /\ NoBounds \in Event
<1>1. \A m \in Message : m.type # "error" => [topic |-> m.type, msg |-> m] \in Event
    BY MessageFields DEF Event
<1>2. \A p \in SUBSET Pages : BoundsOf(p) \in Event
    BY DEF Event, BoundsOf
<1> QED
    BY <1>1, <1>2 DEF Event, NoBounds

Sidebar == [loading : BOOLEAN, error : BOOLEAN, listed : BOOLEAN, list : SUBSET Pages,
            count : SUBSET Pages, mark : {"loading", "final", "error"},
            answer : 0 .. MaxRequests, answered : {"loading", "final", "error"}]
Slider  == [thumbs : {"set", "infinite", "nan"}, passes : SUBSET Pages]

(* What the sidebar's handlers make of a sidebar is one.                   *)
LEMMA SidebarMade ==
    ASSUME NEW s \in Sidebar, NEW passes \in SUBSET Pages, NEW loading \in BOOLEAN,
           BoundsAssumption
    PROVE  /\ ResetSidebar(s, loading) \in Sidebar
           /\ UpdateStats(s, passes) \in Sidebar
<1>1. Mark(loading) \in {"loading", "final", "error"} /\ Mark(s.loading) \in {"loading", "final", "error"}
    BY DEF Mark
<1>2. 0 \in 0 .. MaxRequests
    BY DEF BoundsAssumption
<1>3. ResetSidebar(s, loading) \in Sidebar
    BY <1>1, <1>2 DEF Sidebar, ResetSidebar
<1>4. s.list \cap passes \in SUBSET Pages
    BY DEF Sidebar
<1>5. UpdateStats(s, passes) \in Sidebar
    BY <1>1, <1>4 DEF Sidebar, UpdateStats
<1> QED
    BY <1>3, <1>5

(* The sidebar of a building message, and the list it extends, are well-   *)
(* typed.                                                                  *)
LEMMA BuildingsShown ==
    ASSUME NEW s \in Sidebar, NEW m \in Message, slider \in Slider, BoundsAssumption
    PROVE  /\ SidebarBuildings(s, m) \in Sidebar
           /\ \A l \in SUBSET Pages : Extend(l, m) \in SUBSET Pages
<1>1. \A l \in SUBSET Pages : Extend(l, m) \in SUBSET Pages
    BY MessageFields DEF Extend
<1>2. [s EXCEPT !.error = TRUE] \in Sidebar
    BY DEF Sidebar
<1>3. [s EXCEPT !.loading = ~m.done] \in Sidebar
    BY MessageFields DEF Sidebar
<1>4. [s EXCEPT !.loading = ~m.done, !.listed = TRUE, !.list = Extend(s.list, m)] \in Sidebar
    BY <1>1, MessageFields DEF Sidebar
<1>5. slider.passes \in SUBSET Pages
    BY DEF Slider
<1> QED
    BY <1>1, <1>2, <1>3, <1>4, <1>5, SidebarMade DEF SidebarBuildings

(* The page as it is opened is well-typed.                                 *)
LEMMA InitType == BoundsAssumption /\ Init => TypeInv
<1> SUFFICES ASSUME BoundsAssumption, Init PROVE TypeInv
    OBVIOUS
<1>1. 0 \in 0 .. MaxRequests /\ 0 \in 0 .. MaxPages
    BY DEF BoundsAssumption
<1>2. area \in [Requests -> [pages : 0 .. MaxPages, source : {"msft", "osm"}]]
    BY <1>1 DEF Init
<1>3. sidebar \in Sidebar /\ slider \in Slider
    BY <1>1 DEF Init, Sidebar, Slider
<1>4. events = <<>> /\ down = <<>> /\ up = <<>>
    BY DEF Init
<1>5. events \in Seq(Event) /\ down \in Seq(Message) /\ up \in Seq(Requests)
    BY <1>4
<1>6. DOMAIN events = {} /\ DOMAIN down = {}
    BY <1>4
<1> QED
    BY <1>1, <1>2, <1>3, <1>5, <1>6 DEF Init, TypeInv, TypeOK, Sidebar, Slider, Tasks

(* The types of the browser's queue, of what has been selected and of the  *)
(* server's queues and tasks, each from what a step does to it.            *)
EventsTyped ==
    /\ events \in Seq(Event)
    /\ \A i \in DOMAIN events : events[i].topic = "send" => events[i].req <= asked

BrowserTyped ==
    /\ socket \in {"connecting", "open", "closed"}
    /\ asked \in 0 .. MaxRequests /\ current \in 0 .. asked /\ announced \in 0 .. asked
    /\ area \in [Requests -> [pages : 0 .. MaxPages, source : {"msft", "osm"}]]
    /\ sidebar \in Sidebar /\ slider \in Slider /\ overlay \in SUBSET Pages

ServerTyped ==
    /\ up \in Seq(Requests) /\ down \in Seq(Message)
    /\ taskList \subseteq Tasks /\ revoked \subseteq Tasks
    /\ task \in [Tasks -> {"none", "running", "ended", "failed", "terminated", "orphaned"}]
    /\ page \in [Requests -> 0 .. MaxPages]

(* The type invariant in three parts, which few steps touch together: the  *)
(* queue of events, the browser, the server.                               *)
LEMMA TypeParts == TypeInv <=> EventsTyped /\ BrowserTyped /\ ServerTyped
<1>1. TypeInv => EventsTyped /\ BrowserTyped /\ ServerTyped
    BY DEF TypeInv, TypeOK, EventsTyped, BrowserTyped, ServerTyped, Sidebar, Slider
<1>2. ASSUME EventsTyped, BrowserTyped, ServerTyped PROVE TypeInv
  <2>1. \A i \in DOMAIN events : events[i] \in Event
      BY <1>2 DEF EventsTyped
  <2>2. \A i \in DOMAIN events :
          /\ events[i].topic \in {"send", "no_items", "buildings", "answer", "bounds"}
          /\ events[i].topic = "send" => events[i].req \in Requests
          /\ events[i].topic \in {"buildings", "answer"} => events[i].msg \in Message
          /\ events[i].topic = "bounds" => events[i].pages \subseteq Pages
      BY <2>1, EventFields
  <2>3. \A i \in DOMAIN down : down[i] \in Message
      BY <1>2 DEF ServerTyped
  <2> QED
      BY <1>2, <2>2, <2>3 DEF TypeInv, TypeOK, EventsTyped, BrowserTyped, ServerTyped,
         Sidebar, Slider
<1> QED
    BY <1>1, <1>2

(* The same of the next state.                                             *)
LEMMA TypePartsNext == TypeInv' <=> EventsTyped' /\ BrowserTyped' /\ ServerTyped'
    BY TypeParts, PTL

(* The queue of events stays one if something is published or its head is  *)
(* delivered.                                                              *)
LEMMA PublishTyped ==
    ASSUME EventsTyped, asked \in Int, asked' \in Int, asked <= asked', NEW e \in Event,
           e.topic = "send" => e.req <= asked', Publish(e)
    PROVE  EventsTyped'
<1>1. \A i \in DOMAIN events' : events'[i] = e \/ (i \in DOMAIN events /\ events'[i] = events[i])
    BY Appended DEF Publish, EventsTyped
<1>2. \A i \in DOMAIN events : events[i] \in Event
    BY DEF EventsTyped
<1>3. \A i \in DOMAIN events' : events'[i].topic = "send" => events'[i].req <= asked'
    BY <1>1, <1>2, EventFields DEF EventsTyped, Requests
<1>4. events' \in Seq(Event)
    BY Appended DEF Publish, EventsTyped
<1> QED
    BY <1>3, <1>4 DEF EventsTyped

(* Delivering an event leaves a well-typed queue.                          *)
LEMMA DeliveryTyped ==
    ASSUME EventsTyped, events # <<>>, events' = Tail(events), asked' = asked
    PROVE  EventsTyped'
<1>1. events' \in Seq(Event)
    BY Advanced DEF EventsTyped
<1>2. \A i \in DOMAIN events' : i + 1 \in DOMAIN events /\ events'[i] = events[i + 1]
    BY Advanced DEF EventsTyped
<1> QED
    BY <1>1, <1>2 DEF EventsTyped

(* A task sends a message.                                                 *)
LEMMA SendTyped ==
    ASSUME ServerTyped, BrowserTyped, NEW t \in Tasks, NEW pages \in SUBSET Pages,
           NEW done \in BOOLEAN, NEW failed \in BOOLEAN, KindsAssumption,
           Send(t, pages, done, failed)
    PROVE  /\ down' \in Seq(Message)
           /\ \E m \in Message : /\ down' = Append(down, m) /\ m.type = t[2] /\ m.req = t[1]
                                 /\ m.pages = pages /\ m.done = done /\ m.failed = failed
                                 /\ m.first <=> /\ t[2] = "buildings" /\ page[t[1]] = 0 /\ ~failed
                                                /\ area[t[1]].source = "msft"
<1> DEFINE m == [type |-> t[2], req |-> t[1], pages |-> pages, done |-> done,
                 failed |-> failed,
                 first |-> /\ t[2] = "buildings" /\ page[t[1]] = 0 /\ ~failed
                           /\ area[t[1]].source = "msft"]
<1>1. t[1] \in Requests /\ t[2] \in {"buildings", "answer"}
    BY DEF Tasks, KindsAssumption
<1>2. m \in Message
    BY <1>1 DEF Message
<1>3. down' = Append(down, m)
    BY DEF Send
<1>4. down' \in Seq(Message)
    BY <1>2, <1>3, Appended DEF ServerTyped
<1> QED
    BY <1>2, <1>3, <1>4

(* The end of a task.                                                      *)
LEMMA EndTyped ==
    ASSUME ServerTyped, NEW t \in Tasks,
           NEW v \in {"none", "running", "ended", "failed", "terminated", "orphaned"},
           task' = [task EXCEPT ![t] = v]
    PROVE  task' \in [Tasks -> {"none", "running", "ended", "failed", "terminated", "orphaned"}]
    BY DEF ServerTyped

(* A page of buildings sent by its task keeps the server well-typed.       *)
LEMMA PageTyped ==
    ASSUME ServerTyped, BrowserTyped, BoundsAssumption, KindsAssumption,
           NEW n \in Requests, SendPage(n)
    PROVE  ServerTyped'
<1> DEFINE t == <<n, "buildings">>
           k == page[n] + 1
<1>1. t \in Tasks /\ t[1] = n
    BY DEF SendPage, Running
<1>2. page[n] \in 0 .. MaxPages /\ area[n].pages \in 0 .. MaxPages
    BY DEF ServerTyped, BrowserTyped
<1>3. CASE k <= area[n].pages
  <2>1. k \in 1 .. MaxPages
      BY <1>2, <1>3 DEF BoundsAssumption
  <2>2. {<<n, k>>} \in SUBSET Pages
      BY <2>1 DEF Pages
  <2>3. Send(t, {<<n, k>>}, FALSE, FALSE) /\ page' = [page EXCEPT ![n] = k]
        /\ UNCHANGED <<up, taskList, revoked, task>>
      BY <1>3 DEF SendPage
  <2>4. down' \in Seq(Message)
      BY <1>1, <2>2, <2>3, SendTyped
  <2>5. page' \in [Requests -> 0 .. MaxPages]
      BY <2>1, <2>3 DEF ServerTyped, BoundsAssumption
  <2> QED
      BY <2>3, <2>4, <2>5 DEF ServerTyped
<1>4. CASE ~(k <= area[n].pages)
  <2>1. Send(t, {}, TRUE, FALSE) /\ End(t) /\ UNCHANGED <<up, taskList, revoked, page>>
      BY <1>4 DEF SendPage
  <2>2. down' \in Seq(Message)
      BY <1>1, <2>1, SendTyped
  <2>3. task' \in [Tasks -> {"none", "running", "ended", "failed", "terminated", "orphaned"}]
      BY <1>1, <2>1, EndTyped DEF End
  <2> QED
      BY <2>1, <2>2, <2>3 DEF ServerTyped
<1> QED
    BY <1>3, <1>4

(* A message of the consumer's, and the end of a connection.               *)
LEMMA ConsumerTyped ==
    ASSUME ServerTyped, BrowserTyped, BoundsAssumption, KindsAssumption,
           HandleRequest \/ HandleInvalid \/ HandleRaises \/ Disconnect
    PROVE  ServerTyped' /\ BrowserTyped' /\ UNCHANGED <<events, asked>>
<1>1. ASSUME HandleRequest PROVE ServerTyped'
  <2>1. up # <<>> /\ up' = Tail(up)
      BY <1>1 DEF HandleRequest
  <2>2. Head(up) \in Requests /\ up' \in Seq(Requests)
      BY <2>1, Advanced DEF ServerTyped
  <2>3. {Head(up)} \X Kinds \subseteq Tasks
      BY <2>2 DEF Tasks
  <2>4. task' \in [Tasks -> {"none", "running", "ended", "failed", "terminated", "orphaned"}]
      BY <1>1 DEF HandleRequest, StartTasks, ServerTyped
  <2> QED
      BY <1>1, <2>2, <2>3, <2>4 DEF HandleRequest, Revoke, StartTasks, ServerTyped
<1>2. ASSUME HandleInvalid PROVE ServerTyped'
  <2> DEFINE m == [type |-> "error", req |-> Head(up), pages |-> {},
                   first |-> FALSE, done |-> FALSE, failed |-> FALSE]
  <2>1. up # <<>> /\ up' = Tail(up)
      BY <1>2 DEF HandleInvalid
  <2>2. Head(up) \in Requests /\ up' \in Seq(Requests)
      BY <2>1, Advanced DEF ServerTyped
  <2>3. m \in Message
      BY <2>2 DEF Message
  <2>4. down' \in Seq(Message)
      BY <1>2, <2>3, Appended DEF HandleInvalid, ServerTyped
  <2> QED
      BY <1>2, <2>2, <2>4 DEF HandleInvalid, Revoke, ServerTyped
<1>3. ASSUME HangUp, revoked' \subseteq Tasks PROVE ServerTyped' /\ BrowserTyped' /\ UNCHANGED <<events, asked>>
  <2>1. up' = <<>> /\ down' = <<>>
      BY <1>3 DEF HangUp
  <2>2. up' \in Seq(Requests) /\ down' \in Seq(Message)
      BY <2>1
  <2>3. task' \in [Tasks -> {"none", "running", "ended", "failed", "terminated", "orphaned"}]
      BY <1>3 DEF HangUp, ServerTyped
  <2> QED
      BY <1>3, <2>2, <2>3 DEF HangUp, ServerTyped, BrowserTyped
<1>4. HandleRaises \/ Disconnect => HangUp /\ revoked' \subseteq Tasks
    BY DEF HandleRaises, Disconnect, Revoke, ServerTyped
<1>5. HandleRequest \/ HandleInvalid => BrowserTyped' /\ UNCHANGED <<events, asked>>
    BY DEF HandleRequest, HandleInvalid, browser, BrowserTyped
<1> QED
    BY <1>1, <1>2, <1>3, <1>4, <1>5

(* What the tasks do.                                                      *)
LEMMA TasksTyped ==
    ASSUME ServerTyped, BrowserTyped, BoundsAssumption, KindsAssumption,
           \/ \E n \in Requests : SendPage(n) \/ QueryFails(n) \/ SendOSM(n) \/ SendAnswer(n)
           \/ \E t \in Tasks : TimeOut(t) \/ TaskFails(t) \/ Terminate(t)
    PROVE  ServerTyped' /\ BrowserTyped' /\ UNCHANGED <<events, asked>>
<1> DEFINE TaskStates == {"none", "running", "ended", "failed", "terminated", "orphaned"}
<1>1. ASSUME NEW n \in Requests, SendPage(n)
      PROVE  ServerTyped' /\ BrowserTyped' /\ UNCHANGED <<events, asked>>
    BY <1>1, PageTyped DEF SendPage, browser, BrowserTyped
<1>2. \A n \in Requests : PagesOf(n) \in SUBSET Pages
    BY DEF PagesOf, Pages, BrowserTyped, BoundsAssumption
<1>3. ASSUME NEW t \in Tasks, NEW pages \in SUBSET Pages, NEW done \in BOOLEAN,
             NEW failed \in BOOLEAN, Send(t, pages, done, failed), End(t),
             UNCHANGED <<browser, up, taskList, revoked, page>>
      PROVE  ServerTyped' /\ BrowserTyped' /\ UNCHANGED <<events, asked>>
  <2>1. down' \in Seq(Message)
      BY <1>3, SendTyped
  <2>3. task' \in [Tasks -> TaskStates]
      BY <1>3 DEF End, ServerTyped
  <2> QED
      BY <1>3, <2>1, <2>3 DEF browser, BrowserTyped, ServerTyped
<1>4. ASSUME NEW n \in Requests, QueryFails(n) \/ SendOSM(n) \/ SendAnswer(n)
      PROVE  \E t \in Tasks, pages \in SUBSET Pages :
                /\ Send(t, pages, TRUE, FALSE) /\ End(t)
                /\ UNCHANGED <<browser, up, taskList, revoked, page>>
  <2>1. CASE QueryFails(n)
    <3>1. <<n, "buildings">> \in Tasks /\ {} \in SUBSET Pages
        BY <2>1 DEF QueryFails, Running
    <3> QED
        BY <2>1, <3>1 DEF QueryFails
  <2>2. CASE SendOSM(n)
    <3>1. <<n, "buildings">> \in Tasks
        BY <2>2 DEF SendOSM, Running
    <3> QED
        BY <2>2, <3>1, <1>2 DEF SendOSM
  <2>3. CASE SendAnswer(n)
    <3>1. <<n, "answer">> \in Tasks /\ {} \in SUBSET Pages
        BY <2>3 DEF SendAnswer, Running
    <3> QED
        BY <2>3, <3>1 DEF SendAnswer
  <2> QED
      BY <1>4, <2>1, <2>2, <2>3
<1>5. ASSUME NEW t \in Tasks, TimeOut(t)
      PROVE  ServerTyped' /\ BrowserTyped' /\ UNCHANGED <<events, asked>>
    BY <1>3, <1>5 DEF TimeOut
<1>6. ASSUME NEW t \in Tasks, TaskFails(t) \/ Terminate(t)
      PROVE  ServerTyped' /\ BrowserTyped' /\ UNCHANGED <<events, asked>>
  <2>1. task' \in [Tasks -> TaskStates]
      BY <1>6, EndTyped DEF TaskFails, Terminate
  <2> QED
      BY <1>6, <2>1 DEF TaskFails, Terminate, browser, BrowserTyped, ServerTyped
<1> QED
    BY <1>1, <1>3, <1>4, <1>5, <1>6

(* What the browser does.                                                  *)
LEMMA SelectionTyped ==
    ASSUME TypeInv, BoundsAssumption, SelectArea \/ SelectNothing
    PROVE  TypeInv'
<1> USE TypeParts, TypePartsNext
<1>1. asked \in 0 .. MaxRequests /\ asked' = asked + 1 /\ asked < MaxRequests
    BY DEF SelectArea, SelectNothing, BrowserTyped
<1>2. asked' \in Requests
    BY <1>1 DEF Requests, BoundsAssumption
<1>3. CASE SelectArea
  <2>0. PICK n \in (IF "empty" \in Env THEN 0 ELSE 1) .. MaxPages, src \in {"msft"} \cup ({"osm"} \cap Env) :
             area' = [area EXCEPT ![asked'] = [pages |-> n, source |-> src]]
      BY <1>3 DEF SelectArea
  <2>1. n \in 0 .. MaxPages /\ src \in {"msft", "osm"}
      BY DEF BoundsAssumption
  <2>2. area' \in [Requests -> [pages : 0 .. MaxPages, source : {"msft", "osm"}]]
      BY <1>2, <2>0, <2>1 DEF BrowserTyped
  <2>3. BrowserTyped'
      BY <1>1, <1>3, <2>2 DEF SelectArea, BrowserTyped, BoundsAssumption
  <2>4. ASSUME UNCHANGED events PROVE EventsTyped'
    <3>1. \A i \in DOMAIN events : events[i] \in Event
        BY DEF EventsTyped
    <3>2. \A i \in DOMAIN events : events[i].topic = "send" => events[i].req \in Int
        BY <3>1, EventFields DEF Requests
    <3> QED
        BY <1>1, <2>4, <3>2 DEF EventsTyped
  <2>5. ASSUME Publish([topic |-> "send", req |-> asked']) PROVE EventsTyped'
    <3> DEFINE e == [topic |-> "send", req |-> asked']
    <3>1. e \in Event /\ e.req <= asked' /\ Publish(e) /\ asked <= asked' /\ asked \in Int /\ asked' \in Int
        BY <1>1, <1>2, <2>5, EventsMade DEF BoundsAssumption
    <3> HIDE DEF e
    <3> QED
        BY <3>1, PublishTyped
  <2>6. EventsTyped'
      BY <1>3, <2>4, <2>5 DEF SelectArea
  <2>7. up' \in Seq(Requests)
      BY <1>2, <1>3 DEF SelectArea, ServerTyped
  <2>8. ServerTyped'
      BY <1>3, <2>7 DEF SelectArea, ServerTyped, server
  <2> QED
      BY <2>3, <2>6, <2>8
<1>4. CASE SelectNothing
  <2>1. BrowserTyped'
      BY <1>1, <1>4 DEF SelectNothing, BrowserTyped, BoundsAssumption
  <2>2. ServerTyped'
      BY <1>4 DEF SelectNothing, ServerTyped, server
  <2>3. EventsTyped'
    <3> DEFINE e == [topic |-> "no_items"]
    <3>1. e \in Event /\ e.topic # "send" /\ Publish(e) /\ asked <= asked' /\ asked \in Int /\ asked' \in Int
        BY <1>1, <1>4, EventsMade DEF BoundsAssumption, SelectNothing
    <3> HIDE DEF e
    <3> QED
        BY <3>1, PublishTyped
  <2> QED
      BY <2>1, <2>2, <2>3
<1> QED
    BY <1>3, <1>4

(* A message taken from the websocket keeps the types.                     *)
LEMMA OnMessageTyped ==
    ASSUME TypeInv, OnMessage
    PROVE  TypeInv'
<1> USE TypeParts, TypePartsNext
<1>1. Head(down) \in Message /\ down' \in Seq(Message)
    BY Advanced DEF OnMessage, ServerTyped
<1>2. UNCHANGED events \/ /\ Head(down).type # "error"
                          /\ Publish([topic |-> Head(down).type, msg |-> Head(down)])
    BY DEF OnMessage
<1>3. EventsTyped'
  <2>1. asked' = asked /\ asked \in Int
      BY DEF OnMessage, BrowserTyped, BoundsAssumption
  <2>2. CASE UNCHANGED events
      BY <2>1, <2>2 DEF EventsTyped
  <2>3. CASE ~UNCHANGED events
    <3> DEFINE e == [topic |-> Head(down).type, msg |-> Head(down)]
    <3>1. e \in Event /\ Publish(e)
        BY <1>1, <1>2, <2>3, EventsMade
    <3>2. e.topic # "send"
        BY <1>1, MessageFields
    <3>3. e.topic = "send" => e.req <= asked'
        BY <3>2
    <3> HIDE DEF e
    <3> QED
        BY <2>1, <3>1, <3>3, PublishTyped
  <2> QED
      BY <2>2, <2>3
<1>4. BrowserTyped'
    BY DEF OnMessage, BrowserTyped
<1>5. ServerTyped'
    BY <1>1 DEF OnMessage, ServerTyped, server
<1> QED
    BY <1>3, <1>4, <1>5

(* An event delivered to the sidebar, the map or the socket keeps the      *)
(* types.                                                                  *)
LEMMA DeliverTyped ==
    ASSUME TypeInv, BoundsAssumption, Deliver
    PROVE  TypeInv'
<1> USE TypeParts, TypePartsNext
<1> DEFINE e == Head(events)
<1>1. /\ events # <<>> /\ UNCHANGED <<socket, asked, current, area, up, down, server>>
      /\ DeliverSend(e) \/ DeliverNoItems(e) \/ DeliverBuildings(e) \/ DeliverAnswer(e)
            \/ DeliverBounds(e)
    BY DEF Deliver
<1>2. /\ e \in Event /\ Tail(events) \in Seq(Event) /\ e = events[1] /\ 1 \in DOMAIN events
      /\ \A i \in DOMAIN Tail(events) : i + 1 \in DOMAIN events /\ Tail(events)[i] = events[i + 1]
    BY <1>1, Advanced DEF EventsTyped
<1>3. ServerTyped'
    BY <1>1 DEF ServerTyped, server
<1>4. asked \in 0 .. MaxRequests /\ current \in 0 .. asked /\ announced \in 0 .. asked
      /\ sidebar \in Sidebar /\ slider \in Slider /\ overlay \in SUBSET Pages
    BY DEF BrowserTyped
<1>5. e.topic = "send" => e.req \in 0 .. asked
    BY <1>2, <1>4, EventFields DEF EventsTyped, Requests, BoundsAssumption
<1>6. ASSUME e.topic # "buildings" PROVE events' = Tail(events)
  <2>1. ~DeliverBuildings(e)
      BY <1>6 DEF DeliverBuildings
  <2> QED
      BY <1>1, <2>1 DEF DeliverSend, DeliverNoItems, DeliverAnswer, DeliverBounds
<1>7. CASE e.topic # "buildings"
  <2>1. EventsTyped'
      BY <1>1, <1>6, <1>7, DeliveryTyped
  <2>2. CASE DeliverSend(e)
    <3>1. sidebar' \in Sidebar
        BY <1>4, <2>2, SidebarMade DEF DeliverSend, Slider
    <3> QED
        BY <1>1, <1>3, <1>4, <1>5, <2>1, <2>2, <3>1 DEF DeliverSend, BrowserTyped
  <2>3. CASE DeliverNoItems(e)
    <3>1. sidebar' \in Sidebar
        BY <1>4, <2>3, SidebarMade DEF DeliverNoItems, Slider
    <3>2. announced' \in 0 .. asked'
        BY <1>1, <1>4, <2>3 DEF DeliverNoItems, BoundsAssumption
    <3>3. BrowserTyped'
        BY <1>1, <1>4, <2>3, <3>1, <3>2 DEF DeliverNoItems, BrowserTyped
    <3> QED
        BY <1>3, <2>1, <3>3
  <2>4. CASE DeliverAnswer(e)
    <3>1. e.msg.req \in 0 .. MaxRequests
        BY <1>2, <2>4, EventFields, MessageFields DEF DeliverAnswer, Requests, BoundsAssumption
    <3>2. sidebar' \in Sidebar
        BY <1>4, <2>4, <3>1 DEF DeliverAnswer, Sidebar
    <3> QED
        BY <1>1, <1>3, <1>4, <2>1, <2>4, <3>2 DEF DeliverAnswer, BrowserTyped
  <2>5. CASE DeliverBounds(e)
    <3>1. e.pages \in SUBSET Pages
        BY <1>2, <2>5, EventFields DEF DeliverBounds
    <3>2. slider' \in Slider
        BY <2>5, <3>1 DEF DeliverBounds, SetRange, Slider
    <3>3. sidebar' \in Sidebar
        BY <1>4, <2>5, <3>2, SidebarMade DEF DeliverBounds, Slider
    <3> QED
        BY <1>1, <1>3, <1>4, <2>1, <2>5, <3>2, <3>3 DEF DeliverBounds, BrowserTyped
  <2> QED
      BY <1>1, <1>7, <2>2, <2>3, <2>4, <2>5 DEF DeliverBuildings
<1>8. CASE e.topic = "buildings"
  <2>1. DeliverBuildings(e)
      BY <1>1, <1>8 DEF DeliverSend, DeliverNoItems, DeliverAnswer, DeliverBounds
  <2>2. e.msg \in Message
      BY <1>2, <1>8, EventFields
  <2>3. sidebar' \in Sidebar /\ overlay' \in SUBSET Pages
      BY <1>4, <2>1, <2>2, BuildingsShown DEF DeliverBuildings
  <2>4. BrowserTyped'
      BY <1>1, <1>4, <2>1, <2>3 DEF DeliverBuildings, BrowserTyped
  <2>5. PICK b \in Event : b.topic = "bounds" /\ events' = Append(Tail(events), b)
    <3>1. BoundsOf(overlay') \in Event /\ NoBounds \in Event
        BY <2>3, EventsMade
    <3>2. BoundsOf(overlay').topic = "bounds" /\ NoBounds.topic = "bounds"
        BY DEF BoundsOf, NoBounds
    <3> QED
        BY <2>1, <3>1, <3>2 DEF DeliverBuildings
  <2>6. events' \in Seq(Event)
      BY <1>2, <2>5, Appended
  <2>7. ASSUME NEW i \in DOMAIN events', events'[i].topic = "send" PROVE events'[i].req <= asked'
    <3>1. events'[i] = b \/ (i \in DOMAIN Tail(events) /\ events'[i] = Tail(events)[i])
        BY <1>2, <2>5, <2>7, Appended
    <3>2. i + 1 \in DOMAIN events /\ events'[i] = events[i + 1]
        BY <1>2, <2>5, <2>7, <3>1
    <3> QED
        BY <1>1, <2>7, <3>2 DEF EventsTyped
  <2> QED
      BY <1>3, <2>4, <2>6, <2>7 DEF EventsTyped
<1> QED
    BY <1>7, <1>8

(* Every step keeps the types.                                             *)
LEMMA NextType == BoundsAssumption /\ KindsAssumption /\ TypeInv /\ [Next]_vars => TypeInv'
<1> SUFFICES ASSUME BoundsAssumption, KindsAssumption, TypeInv, [Next]_vars PROVE TypeInv'
    OBVIOUS
<1>1. EventsTyped /\ BrowserTyped /\ ServerTyped
    BY TypeParts
<1>2. ASSUME ServerTyped', BrowserTyped', UNCHANGED <<events, asked>> PROVE TypeInv'
    BY <1>1, <1>2, TypePartsNext DEF EventsTyped
<1>3. CASE Connect \/ Open
    BY <1>1, <1>2, <1>3 DEF Connect, Open, BrowserTyped, ServerTyped, server
<1>4. CASE UNCHANGED vars
    BY <1>1, <1>2, <1>4 DEF vars, browser, server, BrowserTyped, ServerTyped
<1>5. CASE HandleRequest \/ HandleInvalid \/ HandleRaises \/ Disconnect
    BY <1>1, <1>2, <1>5, ConsumerTyped
<1>6. CASE \/ \E n \in Requests : SendPage(n) \/ QueryFails(n) \/ SendOSM(n) \/ SendAnswer(n)
           \/ \E t \in Tasks : TimeOut(t) \/ TaskFails(t) \/ Terminate(t)
    BY <1>1, <1>2, <1>6, TasksTyped
<1> QED
    BY <1>3, <1>4, <1>5, <1>6, SelectionTyped, OnMessageTyped, DeliverTyped DEF Next

(* Every variable keeps its type: what is queued, published and sent is of *)
(* the kinds the handlers know, and the sidebar never announces a request  *)
(* nobody has made.                                                        *)
THEOREM EvaluatorTypeCorrect == Spec => []TypeOK
<1>1. Init => TypeInv
    BY InitType, BoundsAssumption
<1>2. TypeInv /\ [Next]_vars => TypeInv'
    BY NextType, BoundsAssumption, KindsAssumption
<1>3. TypeInv => TypeOK
    BY DEF TypeInv
<1> QED
    BY <1>1, <1>2, <1>3, PTL DEF Spec

-----------------------------------------------------------------------------
(* Which selection is in force where, in the browser's queue: what is      *)
(* queued answers the selection that the sidebar will have seen last when  *)
(* its turn comes.                                                         *)

Switches(e) == e.topic \in {"send", "no_items"}
Answers(e)  == e.topic \in {"buildings", "answer"}
Selected(e) == IF e.topic = "send" THEN e.req ELSE 0

(* The sidebar having seen a last, n is the selection it will have seen    *)
(* last when position i of the queue q is delivered.                       *)
InForce(q, a, i, n) ==
    \/ a = n /\ \A j \in 1 .. (i - 1) : ~Switches(q[j])
    \/ \E j \in 1 .. (i - 1) : /\ Switches(q[j]) /\ Selected(q[j]) = n
                               /\ \A k \in (j + 1) .. (i - 1) : ~Switches(q[k])

(* Which request is in force before a position does not change when an     *)
(* event is queued behind it.                                              *)
LEMMA InForceKept ==
    ASSUME NEW S, NEW q \in Seq(S), NEW x \in S, NEW a, NEW n,
           NEW i \in 1 .. (Len(q) + 1), InForce(q, a, i, n)
    PROVE  InForce(Append(q, x), a, i, n)
<1>1. \A j \in 1 .. (i - 1) : Append(q, x)[j] = q[j]
    BY Appended
<1> QED
    BY <1>1 DEF InForce

(* An event that selects nothing leaves in force what was in force at the  *)
(* end of the queue.                                                       *)
LEMMA InForceOn ==
    ASSUME NEW S, NEW q \in Seq(S), NEW x \in S, NEW a, NEW n, ~Switches(x),
           InForce(q, a, Len(q) + 1, n)
    PROVE  InForce(Append(q, x), a, Len(q) + 2, n)
<1> DEFINE r == Append(q, x)
           l == Len(q)
<1>1. l \in Nat /\ r[l + 1] = x /\ \A j \in 1 .. l : r[j] = q[j]
    BY Appended
<1> HIDE DEF r, l
<1>2. InForce(q, a, l + 1, n)
    BY DEF l
<1>3. InForce(r, a, l + 2, n)
    BY <1>1, <1>2 DEF InForce
<1> QED
    BY <1>3 DEF r, l

(* After a selection its request is in force.                              *)
LEMMA InForceSelected ==
    ASSUME NEW S, NEW q \in Seq(S), NEW x \in S, NEW a, Switches(x)
    PROVE  InForce(Append(q, x), a, Len(q) + 2, Selected(x))
<1>1. Len(q) \in Nat /\ Append(q, x)[Len(q) + 1] = x
    BY Appended
<1> QED
    BY <1>1 DEF InForce

(* When the first event is delivered, what it selects takes the place of   *)
(* what was in force.                                                      *)
LEMMA InForceDelivered ==
    ASSUME NEW S, NEW q \in Seq(S), q # <<>>, NEW a, NEW n, NEW i \in 1 .. Len(q),
           InForce(q, a, i + 1, n)
    PROVE  InForce(Tail(q), IF Switches(Head(q)) THEN Selected(Head(q)) ELSE a, i, n)
<1> DEFINE b == IF Switches(Head(q)) THEN Selected(Head(q)) ELSE a
           r == Tail(q)
<1>1. /\ Head(q) = q[1] /\ Len(q) \in Nat
      /\ \A j \in 1 .. (i - 1) : r[j] = q[j + 1]
    BY Advanced
<1> HIDE DEF r
<1>2. ASSUME a = n, \A j \in 1 .. i : ~Switches(q[j]) PROVE InForce(r, b, i, n)
  <2>1. b = n /\ \A j \in 1 .. (i - 1) : ~Switches(r[j])
      BY <1>1, <1>2
  <2> QED
      BY <2>1 DEF InForce
<1>3. ASSUME NEW j \in 1 .. i, Switches(q[j]), Selected(q[j]) = n,
             \A k \in (j + 1) .. i : ~Switches(q[k])
      PROVE  InForce(r, b, i, n)
  <2>1. \A k \in j .. (i - 1) : ~Switches(r[k])
      BY <1>1, <1>3
  <2>2. CASE j = 1
      BY <1>1, <1>3, <2>1, <2>2 DEF InForce
  <2>3. CASE j # 1
    <3>1. j - 1 \in 1 .. (i - 1) /\ r[j - 1] = q[j]
        BY <1>1, <2>3
    <3> QED
        BY <1>3, <2>1, <3>1 DEF InForce
  <2> QED
      BY <2>2, <2>3
<1>4. InForce(r, b, i, n)
  <2>1. (i + 1) - 1 = i
      OBVIOUS
  <2> QED
      BY <1>2, <1>3, <2>1 DEF InForce
<1> QED
    BY <1>4 DEF r

(* Before the first event, what is in force is what is announced.          *)
LEMMA InForceNow ==
    ASSUME NEW q, NEW a, NEW n
    PROVE  InForce(q, a, 1, n) <=> a = n
    BY DEF InForce

(* A request the server has heard of, on its way, in a task or in what is  *)
(* sent back.                                                              *)
OnServer(n) ==
    \/ \E i \in DOMAIN up : up[i] = n
    \/ \E t \in Tasks : t[1] = n /\ task[t] # "none"
    \/ \E i \in DOMAIN down : down[i].req = n

(* The server only hears of selections made.  While it may still answer    *)
(* the current one, that one is in force at the end of the browser's       *)
(* queue: this is why dropping the messages of other uuids is enough for   *)
(* what is delivered to be of the selection the sidebar shows.             *)
AnswerInv ==
    /\ \A n \in Requests : OnServer(n) => n <= asked
    /\ current # 0 /\ OnServer(current) => InForce(events, announced, Len(events) + 1, current)
    /\ \A i \in DOMAIN events :
          Answers(events[i]) => InForce(events, announced, i, events[i].msg.req)
    /\ AnswerIsOfTheArea

(* What the server does alone keeps it from hearing of more.               *)
LEMMA ServerAlone ==
    ASSUME AnswerInv, TypeInv, UNCHANGED <<events, announced, sidebar, current, asked>>,
           \A n \in Requests : OnServer(n)' => OnServer(n)
    PROVE  AnswerInv'
<1>1. current # 0 => current \in Requests
  <2>1. asked \in 0 .. MaxRequests /\ current \in 0 .. asked
      BY TypeParts DEF BrowserTyped
  <2> QED
      BY <2>1, BoundsAssumption DEF Requests, BoundsAssumption
<1>2. \A n \in Requests : OnServer(n)' => n <= asked'
    BY DEF AnswerInv
<1>3. current' # 0 /\ OnServer(current)' => OnServer(current)
    BY <1>1 DEF OnServer
<1> QED
    BY <1>2, <1>3 DEF AnswerInv, AnswerIsOfTheArea

(* A step of the server takes up no request the browser has not sent.      *)
LEMMA HeardByTheServer ==
    ASSUME TypeInv,
           \/ HandleRequest \/ HandleInvalid \/ HandleRaises \/ Disconnect
           \/ \E n \in Requests : SendPage(n) \/ QueryFails(n) \/ SendOSM(n) \/ SendAnswer(n)
           \/ \E t \in Tasks : TimeOut(t) \/ TaskFails(t) \/ Terminate(t)
    PROVE  \A n \in Requests : OnServer(n)' => OnServer(n)
<1> SUFFICES ASSUME NEW n \in Requests, OnServer(n)' PROVE OnServer(n)
    OBVIOUS
<1>0. /\ up \in Seq(Requests) /\ down \in Seq(Message)
      /\ task \in [Tasks -> {"none", "running", "ended", "failed", "terminated", "orphaned"}]
    BY DEF TypeInv, TypeOK
<1>1. ASSUME up # <<>>, up' = Tail(up) 
      PROVE  /\ Head(up) = n => OnServer(n)
             /\ (\E i \in DOMAIN up' : up'[i] = n) => OnServer(n)
  <2>1. Head(up) = up[1] /\ 1 \in DOMAIN up
        /\ \A i \in DOMAIN up' : i + 1 \in DOMAIN up /\ up'[i] = up[i + 1]
      BY <1>0, <1>1, Advanced
  <2> QED
      BY <2>1 DEF OnServer
<1>2. CASE HandleRequest
  <2>1. up # <<>> /\ up' = Tail(up) /\ down' = down
        /\ task' = [t \in Tasks |-> IF t[1] = Head(up) THEN "running" ELSE task[t]]
      BY <1>2 DEF HandleRequest, StartTasks
  <2> QED
      BY <1>1, <2>1 DEF OnServer
<1>3. CASE HandleInvalid
  <2> DEFINE m == [type |-> "error", req |-> Head(up), pages |-> {},
                   first |-> FALSE, done |-> FALSE, failed |-> FALSE]
  <2>1. up # <<>> /\ up' = Tail(up) /\ task' = task /\ down' = Append(down, m)
      BY <1>3 DEF HandleInvalid
  <2>2. \A i \in DOMAIN down' : (i \in DOMAIN down /\ down'[i] = down[i]) \/ down'[i].req = Head(up)
      BY <1>0, <2>1
  <2> QED
      BY <1>1, <2>1, <2>2 DEF OnServer
<1>4. CASE HandleRaises \/ Disconnect
  <2>1. HangUp
      BY <1>4 DEF HandleRaises, Disconnect
  <2> QED
      BY <2>1 DEF HangUp, OnServer
<1>5. ASSUME NEW t \in Tasks, Running(t), UNCHANGED up,
             \A u \in Tasks : task'[u] # "none" => task[u] # "none" \/ u = t,
             \A i \in DOMAIN down' : (i \in DOMAIN down /\ down'[i] = down[i]) \/ down'[i].req = t[1]
      PROVE  OnServer(n)
    BY <1>5 DEF OnServer, Running
<1>6. ASSUME NEW t, NEW pages, NEW done, NEW failed, Send(t, pages, done, failed)
      PROVE  \A i \in DOMAIN down' : (i \in DOMAIN down /\ down'[i] = down[i]) \/ down'[i].req = t[1]
  <2> DEFINE m == [type |-> t[2], req |-> t[1], pages |-> pages, done |-> done,
                   failed |-> failed,
                   first |-> /\ t[2] = "buildings" /\ page[t[1]] = 0 /\ ~failed
                             /\ area[t[1]].source = "msft"]
  <2>1. down' = Append(down, m) /\ m.req = t[1]
      BY <1>6 DEF Send
  <2> HIDE DEF m
  <2> QED
      BY <1>0, <2>1
<1>7. ASSUME NEW k \in Requests, SendPage(k) \/ QueryFails(k) \/ SendOSM(k) \/ SendAnswer(k)
      PROVE  OnServer(n)
  <2> DEFINE t == IF SendAnswer(k) THEN <<k, "answer">> ELSE <<k, "buildings">>
  <2>1. t \in Tasks /\ Running(t) /\ t[1] = k /\ UNCHANGED up
      BY <1>7 DEF SendPage, QueryFails, SendOSM, SendAnswer, Running
  <2>2. \E pages, done, failed : Send(t, pages, done, failed)
      BY <1>7 DEF SendPage, QueryFails, SendOSM, SendAnswer
  <2>3. UNCHANGED task \/ End(t)
      BY <1>7 DEF SendPage, QueryFails, SendOSM, SendAnswer
  <2> HIDE DEF t
  <2> QED
      BY <1>0, <1>5, <1>6, <2>1, <2>2, <2>3 DEF End
<1>8. ASSUME NEW t \in Tasks, TimeOut(t) PROVE OnServer(n)
    BY <1>0, <1>5, <1>6, <1>8 DEF TimeOut, End
<1>9. ASSUME NEW t \in Tasks, TaskFails(t) \/ Terminate(t) PROVE OnServer(n)
    BY <1>0, <1>5, <1>9 DEF TaskFails, Terminate
<1> QED
    BY <1>2, <1>3, <1>4, <1>7, <1>8, <1>9

(* What a delivery does to the queue and to the selection in force.        *)
LEMMA Delivery ==
    ASSUME TypeInv, Deliver
    PROVE  LET e == Head(events) IN
           /\ events # <<>> /\ e = events[1] /\ e \in Event
           /\ announced' = IF Switches(e) THEN Selected(e) ELSE announced
           /\ IF e.topic = "buildings"
              THEN \E b \in Event : b.topic = "bounds" /\ events' = Append(Tail(events), b)
              ELSE events' = Tail(events)
           /\ UNCHANGED <<socket, asked, current, area, up, down, server>>
<1> DEFINE e == Head(events)
<1>1. /\ events # <<>> /\ UNCHANGED <<socket, asked, current, area, up, down, server>>
      /\ DeliverSend(e) \/ DeliverNoItems(e) \/ DeliverBuildings(e) \/ DeliverAnswer(e)
            \/ DeliverBounds(e)
    BY DEF Deliver
<1>2. e \in Event /\ e = events[1]
    BY <1>1, Advanced DEF TypeInv
<1>3. CASE DeliverBuildings(e)
  <2>1. e.topic = "buildings" /\ ~Switches(e) /\ announced' = announced
      BY <1>3 DEF DeliverBuildings, Switches
  <2>2. overlay \in SUBSET Pages /\ e.msg \in Message
      BY <1>2, <2>1, EventFields, TypeParts DEF BrowserTyped
  <2>3. overlay' \in SUBSET Pages
      BY <1>3, <2>2, MessageFields DEF DeliverBuildings, Extend
  <2>4. /\ BoundsOf(overlay') \in Event /\ BoundsOf(overlay').topic = "bounds"
        /\ NoBounds \in Event /\ NoBounds.topic = "bounds"
      BY <2>3, EventsMade DEF BoundsOf, NoBounds
  <2>5. \E b \in Event : b.topic = "bounds" /\ events' = Append(Tail(events), b)
      BY <1>3, <2>4 DEF DeliverBuildings
  <2> QED
      BY <1>1, <1>2, <2>1, <2>5
<1>4. CASE DeliverSend(e)
    BY <1>1, <1>2, <1>4 DEF DeliverSend, Switches, Selected
<1>5. CASE DeliverNoItems(e)
    BY <1>1, <1>2, <1>5 DEF DeliverNoItems, Switches, Selected
<1>6. CASE DeliverAnswer(e)
    BY <1>1, <1>2, <1>6 DEF DeliverAnswer, Switches
<1>7. CASE DeliverBounds(e)
    BY <1>1, <1>2, <1>7 DEF DeliverBounds, Switches
<1> QED
    BY <1>1, <1>3, <1>4, <1>5, <1>6, <1>7

(* The queue's part of AnswerInv, after an event joins it ...              *)
LEMMA PublishedInForce ==
    ASSUME TypeInv, AnswerInv, NEW e \in Event, Publish(e), announced' = announced,
           Answers(e) => InForce(events, announced, Len(events) + 1, e.msg.req)
    PROVE  \A i \in DOMAIN events' :
              Answers(events'[i]) => InForce(events', announced', i, events'[i].msg.req)
<1>0. events \in Seq(Event) /\ events' = Append(events, e)
    BY DEF TypeInv, Publish
<1>1. SUFFICES ASSUME NEW i \in DOMAIN events', Answers(events'[i])
               PROVE  InForce(events', announced, i, events'[i].msg.req)
    OBVIOUS
<1>2. CASE i \in DOMAIN events
  <2>1. events'[i] = events[i] /\ i \in 1 .. (Len(events) + 1)
      BY <1>0, <1>2, Appended
  <2>2. InForce(events, announced, i, events[i].msg.req)
      BY <1>1, <1>2, <2>1 DEF AnswerInv
  <2> QED
      BY <1>0, <2>1, <2>2, InForceKept
<1>3. CASE i \notin DOMAIN events
  <2>1. i = Len(events) + 1 /\ events'[i] = e /\ i \in 1 .. (Len(events) + 1)
      BY <1>0, <1>1, <1>3, Appended
  <2>2. InForce(events, announced, i, e.msg.req)
      BY <1>1, <2>1
  <2> QED
      BY <1>0, <2>1, <2>2, InForceKept
<1> QED
    BY <1>2, <1>3

(* ... and after its head is delivered.                                    *)
LEMMA DeliveredInForce ==
    ASSUME TypeInv, AnswerInv, Deliver
    PROVE  /\ \A i \in DOMAIN events' :
                 Answers(events'[i]) => InForce(events', announced', i, events'[i].msg.req)
           /\ current' # 0 /\ OnServer(current)'
                 => InForce(events', announced', Len(events') + 1, current')
           /\ Answers(Head(events)) => Head(events).msg.req = announced
<1> DEFINE e == Head(events)
           r == Tail(events)
<1>0. /\ events \in Seq(Event) /\ events # <<>> /\ e = events[1] /\ r \in Seq(Event)
      /\ 1 \in DOMAIN events /\ Len(r) = Len(events) - 1 /\ Len(events) \in Nat
      /\ \A i \in 1 .. Len(r) : i + 1 \in DOMAIN events /\ r[i] = events[i + 1]
    BY Delivery, Advanced DEF TypeInv
<1>1. /\ announced' = IF Switches(e) THEN Selected(e) ELSE announced
      /\ \/ events' = r
         \/ \E b \in Event : b.topic = "bounds" /\ events' = Append(r, b)
      /\ UNCHANGED <<current, up, down, task>>
    BY Delivery DEF server
<1>2. \A i \in 1 .. Len(r) : Answers(r[i]) => InForce(r, announced', i, r[i].msg.req)
  <2>1. SUFFICES ASSUME NEW i \in 1 .. Len(r), Answers(r[i])
                 PROVE  InForce(r, announced', i, r[i].msg.req)
      OBVIOUS
  <2>2. InForce(events, announced, i + 1, r[i].msg.req) /\ i \in 1 .. Len(events)
      BY <1>0, <2>1 DEF AnswerInv
  <2> QED
      BY <1>0, <1>1, <2>2, InForceDelivered
<1>3. ASSUME current' # 0, OnServer(current)' PROVE InForce(r, announced', Len(r) + 1, current)
  <2>1. current # 0 /\ OnServer(current)
      BY <1>1, <1>3 DEF OnServer
  <2>2. InForce(events, announced, Len(events) + 1, current) /\ Len(events) \in 1 .. Len(events)
      BY <1>0, <2>1 DEF AnswerInv
  <2> QED
      BY <1>0, <1>1, <2>2, InForceDelivered
<1>4. Answers(e) => e.msg.req = announced
  <2>1. Answers(e) => InForce(events, announced, 1, e.msg.req)
      BY <1>0 DEF AnswerInv
  <2> QED
      BY <2>1, InForceNow
<1>5. CASE events' = r
    BY <1>1, <1>2, <1>3, <1>4, <1>5, <1>0
<1>6. ASSUME NEW b \in Event, b.topic = "bounds", events' = Append(r, b)
      PROVE  /\ \A i \in DOMAIN events' :
                   Answers(events'[i]) => InForce(events', announced', i, events'[i].msg.req)
             /\ current' # 0 /\ OnServer(current)'
                   => InForce(events', announced', Len(events') + 1, current')
  <2>1. ~Answers(b) /\ ~Switches(b)
      BY <1>6 DEF Answers, Switches
  <2>2. /\ Len(events') = Len(r) + 1 /\ Len(r) \in Nat /\ events'[Len(r) + 1] = b
        /\ \A i \in 1 .. Len(r) : events'[i] = r[i]
        /\ DOMAIN events' = 1 .. (Len(r) + 1)
      BY <1>0, <1>6, Appended
  <2>3. ASSUME NEW i \in DOMAIN events', Answers(events'[i])
        PROVE  InForce(events', announced', i, events'[i].msg.req)
    <3>1. i \in 1 .. Len(r) /\ events'[i] = r[i] /\ i \in 1 .. (Len(r) + 1)
        BY <2>1, <2>2, <2>3
    <3>2. InForce(r, announced', i, r[i].msg.req)
        BY <1>2, <2>3, <3>1
    <3> QED
        BY <1>0, <1>6, <3>1, <3>2, InForceKept
  <2>4. ASSUME current' # 0, OnServer(current)'
        PROVE  InForce(events', announced', Len(events') + 1, current')
    <3>1. InForce(Append(r, b), announced', Len(r) + 2, current)
        BY <1>0, <1>3, <2>1, <2>4, InForceOn
    <3> QED
        BY <1>1, <1>6, <2>2, <3>1
  <2> QED
      BY <2>3, <2>4
<1> QED
    BY <1>1, <1>4, <1>5, <1>6

(* A new area, or none, leaves every answer with the area it is of.        *)
LEMMA SelectionAnswered ==
    ASSUME TypeInv, AnswerInv, SelectArea \/ SelectNothing
    PROVE  AnswerInv'
<1>0. /\ events \in Seq(Event) /\ up \in Seq(Requests)
      /\ asked \in 0 .. MaxRequests /\ announced \in 0 .. asked
    BY TypeParts DEF EventsTyped, BrowserTyped, ServerTyped
<1>1. asked' = asked + 1 /\ asked' \in Requests /\ UNCHANGED <<announced, sidebar, down, task>>
    BY <1>0, BoundsAssumption DEF SelectArea, SelectNothing, server, Requests, BoundsAssumption
<1>2. AnswerIsOfTheArea'
    BY <1>1 DEF AnswerInv, AnswerIsOfTheArea
<1>3. CASE SelectArea
  <2> DEFINE e == [topic |-> "send", req |-> asked']
  <2>1. e \in Event /\ Switches(e) /\ ~Answers(e) /\ Selected(e) = asked'
      BY <1>1, EventsMade DEF Switches, Answers, Selected
  <2>2. /\ current' = asked'
        /\ UNCHANGED events \/ Publish(e)
        /\ up' = IF socket = "open" THEN Append(up, asked') ELSE up
        /\ socket = "open" => Publish(e)
      BY <1>3 DEF SelectArea
  <2> HIDE DEF e
  <2>3. ASSUME NEW n \in Requests, OnServer(n)' PROVE OnServer(n) \/ (n = asked' /\ socket = "open")
    <3>1. \A i \in DOMAIN up' : (i \in DOMAIN up /\ up'[i] = up[i]) \/ (up'[i] = asked' /\ socket = "open")
        BY <1>0, <2>2
    <3> QED
        BY <1>1, <2>3, <3>1 DEF OnServer
  <2>4. \A n \in Requests : OnServer(n)' => n <= asked'
      BY <1>0, <1>1, <2>3 DEF AnswerInv, Requests, BoundsAssumption
  <2>5. OnServer(current)' => InForce(events', announced', Len(events') + 1, current')
    <3>1. ~OnServer(asked')
        BY <1>0, <1>1 DEF AnswerInv, Requests
    <3>2. \A n : n = current' /\ OnServer(current)' => OnServer(n)'
        BY DEF OnServer
    <3>3. OnServer(current)' => Publish(e)
        BY <1>1, <2>2, <2>3, <3>1, <3>2
    <3>4. Publish(e) => InForce(events', announced', Len(events) + 2, current')
        BY <1>0, <1>1, <2>1, <2>2, InForceSelected DEF Publish
    <3>5. Publish(e) => Len(events') + 1 = Len(events) + 2
        BY <1>0, <2>1, Appended DEF Publish
    <3> QED
        BY <3>3, <3>4, <3>5
  <2>6. \A i \in DOMAIN events' :
            Answers(events'[i]) => InForce(events', announced', i, events'[i].msg.req)
    <3>1. CASE UNCHANGED events
        BY <1>1, <3>1 DEF AnswerInv
    <3>2. CASE Publish(e)
        BY <1>1, <2>1, <3>2, PublishedInForce
    <3> QED
        BY <2>2, <3>1, <3>2
  <2> QED
      BY <1>2, <2>4, <2>5, <2>6 DEF AnswerInv
<1>4. CASE SelectNothing
  <2> DEFINE e == [topic |-> "no_items"]
  <2>1. e \in Event /\ ~Answers(e)
      BY EventsMade DEF Answers
  <2>2. current' = 0 /\ Publish(e) /\ UNCHANGED up
      BY <1>4 DEF SelectNothing
  <2> HIDE DEF e
  <2>3. \A n \in Requests : OnServer(n)' => OnServer(n)
      BY <1>1, <2>2 DEF OnServer
  <2>4. \A n \in Requests : OnServer(n)' => n <= asked'
      BY <1>0, <1>1, <2>3 DEF AnswerInv, Requests, BoundsAssumption
  <2>5. \A i \in DOMAIN events' :
            Answers(events'[i]) => InForce(events', announced', i, events'[i].msg.req)
      BY <1>1, <2>1, <2>2, PublishedInForce
  <2> QED
      BY <1>2, <2>2, <2>4, <2>5 DEF AnswerInv
<1> QED
    BY <1>3, <1>4

(* A message accepted from the websocket is of the request in force behind *)
(* it.                                                                     *)
LEMMA OnMessageAnswered ==
    ASSUME TypeInv, AnswerInv, OnMessage
    PROVE  AnswerInv'
<1> DEFINE m == Head(down)
           e == [topic |-> m.type, msg |-> m]
<1>0. /\ events \in Seq(Event) /\ down \in Seq(Message) /\ down # <<>> /\ down' = Tail(down)
      /\ UNCHANGED <<asked, current, sidebar, announced, up, task>>
      /\ IF m.req = current /\ m.type # "error" THEN Publish(e) ELSE UNCHANGED events
    BY TypeParts DEF EventsTyped, ServerTyped, OnMessage, Accepted, server
<1>1. /\ m \in Message /\ m = down[1] /\ 1 \in DOMAIN down
      /\ \A i \in DOMAIN down' : i + 1 \in DOMAIN down /\ down'[i] = down[i + 1]
    BY <1>0, Advanced
<1>2. m.req \in Requests /\ OnServer(m.req)
    BY <1>1, MessageFields DEF OnServer
<1>3. ASSUME NEW n, OnServer(n)' PROVE OnServer(n)
    BY <1>0, <1>1, <1>3 DEF OnServer
<1>4. \A n \in Requests : OnServer(n)' => n <= asked'
    BY <1>0, <1>3 DEF AnswerInv
<1>5. AnswerIsOfTheArea'
    BY <1>0 DEF AnswerInv, AnswerIsOfTheArea
<1>6. OnServer(current)' => OnServer(current)
  <2>1. \A n : n = current' /\ OnServer(current)' => OnServer(n)'
      BY DEF OnServer
  <2> QED
      BY <1>0, <1>3, <2>1
<1>7. CASE UNCHANGED events
    BY <1>0, <1>4, <1>5, <1>6, <1>7 DEF AnswerInv
<1>8. CASE ~UNCHANGED events
  <2>1. m.req = current /\ m.type # "error" /\ Publish(e) /\ e \in Event
      BY <1>0, <1>1, <1>8, EventsMade
  <2>2. e.topic \notin {"send", "no_items"} /\ e.msg = m
      BY <1>1, MessageFields
  <2>3. ~Switches(e)
      BY <2>2 DEF Switches
  <2>4. current # 0
      BY <1>2, <2>1 DEF Requests, BoundsAssumption
  <2>5. InForce(events, announced, Len(events) + 1, current)
      BY <1>2, <2>1, <2>4 DEF AnswerInv
  <2> HIDE DEF e
  <2>6. \A i \in DOMAIN events' :
            Answers(events'[i]) => InForce(events', announced', i, events'[i].msg.req)
      BY <1>0, <2>1, <2>2, <2>5, PublishedInForce
  <2>7. InForce(events', announced', Len(events) + 2, current')
      BY <1>0, <2>1, <2>3, <2>5, InForceOn DEF Publish
  <2>8. Len(events') + 1 = Len(events) + 2
      BY <1>0, <2>1, Appended DEF Publish
  <2> QED
      BY <1>4, <1>5, <2>6, <2>7, <2>8 DEF AnswerInv
<1> QED
    BY <1>7, <1>8

(* What an event writes into the sidebar is of the area announced there.   *)
LEMMA DeliverAnswered ==
    ASSUME TypeInv, AnswerInv, Deliver
    PROVE  AnswerInv'
<1> DEFINE e == Head(events)
<1>1. UNCHANGED <<asked, up, down, task>>
    BY Delivery DEF server
<1>2. \A n \in Requests : OnServer(n)' => n <= asked'
    BY <1>1 DEF AnswerInv, OnServer
<1>3. AnswerIsOfTheArea'
  <2>1. DeliverSend(e) \/ DeliverNoItems(e) \/ DeliverBuildings(e) \/ DeliverAnswer(e)
        \/ DeliverBounds(e)
      BY DEF Deliver
  <2>2. sidebar \in Sidebar
      BY TypeParts DEF BrowserTyped
  <2>3. CASE DeliverSend(e)
      BY <2>2, <2>3 DEF DeliverSend, ResetSidebar, Mark, Sidebar, AnswerIsOfTheArea
  <2>4. CASE DeliverNoItems(e)
      BY <2>4 DEF DeliverNoItems, AnswerIsOfTheArea
  <2>5. CASE DeliverAnswer(e)
    <3>1. e.msg.req = announced
        BY <2>5, DeliveredInForce DEF DeliverAnswer, Answers
    <3> QED
        BY <2>2, <2>5, <3>1 DEF DeliverAnswer, Sidebar, AnswerIsOfTheArea
  <2>6. ASSUME NEW s \in Sidebar, NEW p PROVE /\ UpdateStats(s, p).answer = s.answer
                                                /\ UpdateStats(s, p).answered = s.answered
      BY <2>6 DEF UpdateStats, Sidebar
  <2>7. CASE DeliverBounds(e)
      BY <2>2, <2>6, <2>7 DEF DeliverBounds, AnswerInv, AnswerIsOfTheArea
  <2>8. CASE DeliverBuildings(e)
    <3> DEFINE s == sidebar  m == e.msg
               u == [s EXCEPT !.loading = ~m.done, !.listed = TRUE, !.list = Extend(s.list, m)]
    <3>1. m \in Message
        BY <2>8, Delivery, EventFields DEF DeliverBuildings
    <3>2. u \in Sidebar /\ u.answer = s.answer /\ u.answered = s.answered
        BY <2>2, <3>1, MessageFields DEF Sidebar, Extend
    <3>3. sidebar'.answer = s.answer /\ sidebar'.answered = s.answered
        BY <2>2, <2>6, <2>8, <3>2, ZenonT(60) DEF DeliverBuildings, SidebarBuildings, Sidebar
    <3> QED
        BY <2>8, <3>3 DEF DeliverBuildings, AnswerInv, AnswerIsOfTheArea
  <2> QED
      BY <2>1, <2>3, <2>4, <2>5, <2>7, <2>8
<1> QED
    BY <1>2, <1>3, DeliveredInForce DEF AnswerInv

(* Every step leaves every answer with the area it is of.                  *)
LEMMA AnswerStep == TypeInv /\ AnswerInv /\ [Next]_vars => AnswerInv'
<1> SUFFICES ASSUME TypeInv, AnswerInv, [Next]_vars PROVE AnswerInv'
    OBVIOUS
<1>1. ASSUME \/ HandleRequest \/ HandleInvalid \/ HandleRaises \/ Disconnect
             \/ \E n \in Requests : SendPage(n) \/ QueryFails(n) \/ SendOSM(n) \/ SendAnswer(n)
             \/ \E t \in Tasks : TimeOut(t) \/ TaskFails(t) \/ Terminate(t)
      PROVE  AnswerInv'
  <2>1. UNCHANGED <<events, announced, sidebar, current, asked>>
      BY <1>1 DEF HandleRequest, HandleInvalid, HandleRaises, Disconnect, HangUp, SendPage,
         QueryFails, SendOSM, SendAnswer, TimeOut, TaskFails, Terminate, browser
  <2> QED
      BY <1>1, <2>1, HeardByTheServer, ServerAlone
<1>2. ASSUME Connect \/ Open \/ UNCHANGED vars PROVE AnswerInv'
  <2>1. UNCHANGED <<events, announced, sidebar, current, asked, up, down, task>>
      BY <1>2 DEF Connect, Open, vars, browser, server
  <2>2. \A n \in Requests : OnServer(n)' => OnServer(n)
      BY <2>1 DEF OnServer
  <2> QED
      BY <2>1, <2>2, ServerAlone
<1> QED
    BY <1>1, <1>2, SelectionAnswered, OnMessageAnswered, DeliverAnswered DEF Next

(* Whatever is lost, refused, delayed or left running, the statistics the  *)
(* sidebar shows beside the count are of the request it was reset for.     *)
THEOREM AnswersOfTheArea == Spec => []AnswerIsOfTheArea
<1>1. Init => TypeInv /\ AnswerInv
  <2>1. Init => TypeInv
      BY InitType, BoundsAssumption
  <2>2. Init => AnswerInv
      BY DEF Init, AnswerInv, AnswerIsOfTheArea, OnServer
  <2> QED
      BY <2>1, <2>2
<1>2. TypeInv /\ AnswerInv /\ [Next]_vars => (TypeInv /\ AnswerInv)'
    BY NextType, AnswerStep, BoundsAssumption, KindsAssumption
<1>3. AnswerInv => AnswerIsOfTheArea
    BY DEF AnswerInv
<1> QED
    BY <1>1, <1>2, <1>3, PTL DEF Spec

(***************************************************************************)
(*                       The buildings of an area                          *)
(*                                                                         *)
(* The count of buildings is exact, and is what AreaCount describes, for   *)
(* any number of selections and pages and for every environment in which   *)
(* no query fails and no area is OpenStreetMap's: for those two the source *)
(* sends pages without saying which is the first, or too few of them.      *)
(*                                                                         *)
(* The argument follows the building messages of a request on their way    *)
(* from its task through the websocket and the browser's queue to the      *)
(* sidebar's list.  Each fits what is before it: the pages before its own  *)
(* are in the list already or in messages it will be delivered after, and  *)
(* nothing comes after the end of a task.                                  *)
(***************************************************************************)

(* No query fails, and no area is OpenStreetMap's.                         *)
WholePages == "dberror" \notin Env /\ "osm" \notin Env

-----------------------------------------------------------------------------
(* Queues as sets: what is in one, and what is before a position of it.    *)

Entries(q)   == {q[j] : j \in 1 .. Len(q)}
Before(q, i) == {q[j] : j \in 1 .. (i - 1)}

(* Queuing an event adds it behind all the others.                         *)
LEMMA EntriesAppended ==
    ASSUME NEW S, NEW q \in Seq(S), NEW x \in S
    PROVE  /\ Entries(Append(q, x)) = Entries(q) \cup {x}
           /\ \A i \in 1 .. (Len(q) + 1) : Before(Append(q, x), i) = Before(q, i)
           /\ Before(q, Len(q) + 1) = Entries(q)
<1> DEFINE r == Append(q, x)
           l == Len(q)
<1>1. /\ l \in Nat /\ Len(r) = l + 1 /\ r[l + 1] = x
      /\ \A j \in 1 .. l : r[j] = q[j]
    BY Appended
<1> HIDE DEF r
<1>2. Entries(r) = Entries(q) \cup {x}
    BY <1>1 DEF Entries
<1>3. \A i \in 1 .. (l + 1) : Before(r, i) = Before(q, i)
  <2>1. SUFFICES ASSUME NEW i \in 1 .. (l + 1) PROVE Before(r, i) = Before(q, i)
      OBVIOUS
  <2>2. \A j \in 1 .. (i - 1) : r[j] = q[j]
      BY <1>1
  <2> QED
      BY <2>2 DEF Before
<1>4. Before(q, l + 1) = Entries(q)
  <2>1. (l + 1) - 1 = Len(q)
      BY <1>1
  <2> QED
      BY <2>1 DEF Before, Entries
<1> QED
    BY <1>2, <1>3, <1>4 DEF r

(* Popping a queue takes its first entry from before all the others.       *)
LEMMA EntriesAdvanced ==
    ASSUME NEW S, NEW q \in Seq(S), q # <<>>
    PROVE  /\ Entries(q) = Entries(Tail(q)) \cup {Head(q)}
           /\ \A i \in 1 .. Len(q) : Before(q, i + 1) = Before(Tail(q), i) \cup {Head(q)}
<1> DEFINE r == Tail(q)
           l == Len(q)
<1>1. /\ Head(q) = q[1] /\ l \in Nat \ {0} /\ Len(r) = l - 1
      /\ \A j \in 1 .. (l - 1) : r[j] = q[j + 1]
    BY Advanced
<1> HIDE DEF r, l
<1>2. \A i \in 1 .. l : \A j \in 1 .. i : q[j] = q[1] \/ (j - 1 \in 1 .. (i - 1) /\ r[j - 1] = q[j])
    BY <1>1
<1>3. \A i \in 1 .. l : {q[j] : j \in 1 .. i} = {r[j] : j \in 1 .. (i - 1)} \cup {q[1]}
  <2>1. SUFFICES ASSUME NEW i \in 1 .. l
                 PROVE  {q[j] : j \in 1 .. i} = {r[j] : j \in 1 .. (i - 1)} \cup {q[1]}
      OBVIOUS
  <2>2. \A j \in 1 .. (i - 1) : j + 1 \in 1 .. i /\ r[j] = q[j + 1]
      BY <1>1
  <2>3. 1 \in 1 .. i
      BY <1>1
  <2>4. {q[j] : j \in 1 .. i} \subseteq {r[j] : j \in 1 .. (i - 1)} \cup {q[1]}
    <3>1. SUFFICES ASSUME NEW j \in 1 .. i PROVE q[j] \in {r[h] : h \in 1 .. (i - 1)} \cup {q[1]}
        OBVIOUS
    <3>2. q[j] = q[1] \/ (j - 1 \in 1 .. (i - 1) /\ r[j - 1] = q[j])
        BY <1>2
    <3> QED
        BY <3>2
  <2>5. \A j \in 1 .. (i - 1) : r[j] \in {q[h] : h \in 1 .. i}
      BY <2>2
  <2>6. q[1] \in {q[h] : h \in 1 .. i}
      BY <2>3
  <2> QED
      BY <2>4, <2>5, <2>6
<1>4. \A i \in 1 .. l : Before(q, i + 1) = Before(r, i) \cup {Head(q)}
  <2>1. SUFFICES ASSUME NEW i \in 1 .. l PROVE Before(q, i + 1) = Before(r, i) \cup {Head(q)}
      OBVIOUS
  <2>2. (i + 1) - 1 = i
      OBVIOUS
  <2> QED
      BY <1>1, <1>3, <2>2 DEF Before
<1>5. Entries(q) = Entries(r) \cup {Head(q)}
  <2>1. l \in 1 .. l /\ Len(q) = l
      BY <1>1 DEF l
  <2> QED
      BY <1>1, <1>3, <2>1 DEF Entries
<1> QED
    BY <1>4, <1>5 DEF r, l

(* The building messages among events, and among the messages of the       *)
(* websocket those of request c.                                           *)
Msgs(E)    == {m \in Message : \E e \in E : e.topic = "buildings" /\ e.msg = m}
Mine(D, c) == {m \in D : m.type = "buildings" /\ m.req = c}

(* The building messages of a set of events and of one event more.         *)
LEMMA MsgsJoined ==
    ASSUME NEW E, NEW e \in Event
    PROVE  Msgs(E \cup {e}) = Msgs(E) \cup (IF e.topic = "buildings" THEN {e.msg} ELSE {})
    BY EventFields DEF Msgs

(* The building messages of a request among some messages and one more.    *)
LEMMA MineJoined ==
    ASSUME NEW D, NEW c, NEW m
    PROVE  Mine(D \cup {m}, c) = Mine(D, c) \cup (IF m.type = "buildings" /\ m.req = c THEN {m} ELSE {})
    BY DEF Mine

-----------------------------------------------------------------------------
(* How a building message fits what is before it.                          *)

Extent(ar, n) == {n} \X (1 .. ar[n].pages)

(* A message of a task over Microsoft's buildings: that it failed, the     *)
(* empty page at the end, or one page.                                     *)
Shaped(ar, m) ==
    /\ m.type = "buildings" /\ m.req \in Requests
    /\ \/ m.failed /\ m.pages = {} /\ ~m.first
       \/ ~m.failed /\ m.done /\ m.pages = {} /\ (m.first <=> ar[m.req].pages = 0)
       \/ /\ ~m.failed /\ ~m.done
          /\ \E k \in 1 .. ar[m.req].pages : m.pages = {<<m.req, k>>} /\ (m.first <=> k = 1)

(* The pages of its request a message comes after.                         *)
Prior(ar, m) ==
    {p \in Extent(ar, m.req) : ~m.failed /\ (m.done \/ \E q \in m.pages : p[2] < q[2])}

(* Of a list s and the messages S before: the pages there will be, whether *)
(* request n has none yet, and whether its task has not ended in them.     *)
Got(S, s)         == s \cup UNION {m.pages : m \in S}
Untouched(S, s, n) == (\A p \in s : p[1] # n) /\ (\A m \in S : m.req # n)
Unended(S, n)     == \A m \in S : m.req = n => ~m.done /\ ~m.failed

Fits(ar, m, S, s) ==
    /\ Shaped(ar, m)
    /\ Prior(ar, m) \subseteq Got(S, s)
    /\ m.first => Untouched(S, s, m.req)
    /\ Unended(S, m.req)

(* The same of the task of n that has sent its pages up to pg.             *)
TaskFits(n, pg, S, s) ==
    /\ {n} \X (1 .. pg) \subseteq Got(S, s)
    /\ pg = 0 => Untouched(S, s, n)
    /\ Unended(S, n)

(* A message m before is delivered, and the list s becomes s2, losing only *)
(* pages of other requests.                                                *)
TakenFor(m, s, s2, n) ==
    /\ \A p \in s \cup m.pages : p \in s2 \/ p[1] # n
    /\ s2 \subseteq s \cup m.pages
    /\ \A p \in m.pages : p[1] = m.req

(* A message that fits what is before it still does when the first of that *)
(* is delivered.                                                           *)
LEMMA FitsTaken ==
    ASSUME NEW ar, NEW x, NEW m, NEW T, NEW s, NEW s2,
           Fits(ar, x, T \cup {m}, s), TakenFor(m, s, s2, x.req)
    PROVE  Fits(ar, x, T, s2)
<1>1. Shaped(ar, x) /\ Unended(T, x.req)
    BY DEF Fits, Unended
<1>2. \A p \in Prior(ar, x) : p[1] = x.req
    BY DEF Prior, Extent
<1>3. Prior(ar, x) \subseteq Got(T, s2)
    BY <1>2 DEF Fits, Got, TakenFor
<1>4. x.first => Untouched(T, s2, x.req)
    BY DEF Fits, Untouched, TakenFor
<1> QED
    BY <1>1, <1>3, <1>4 DEF Fits

(* So does a running task.                                                 *)
LEMMA TaskFitsTaken ==
    ASSUME NEW n, NEW pg, NEW m, NEW T, NEW s, NEW s2,
           TaskFits(n, pg, T \cup {m}, s), TakenFor(m, s, s2, n)
    PROVE  TaskFits(n, pg, T, s2)
<1>1. Unended(T, n)
    BY DEF TaskFits, Unended
<1>2. \A p \in {n} \X (1 .. pg) : p[1] = n
    OBVIOUS
<1>3. {n} \X (1 .. pg) \subseteq Got(T, s2)
    BY <1>2 DEF TaskFits, Got, TakenFor
<1>4. pg = 0 => Untouched(T, s2, n)
    BY DEF TaskFits, Untouched, TakenFor
<1> QED
    BY <1>1, <1>3, <1>4 DEF TaskFits

(* What a running task sends next fits what it has sent.                   *)
LEMMA PageFits ==
    ASSUME NEW ar, NEW n \in Requests, NEW pg \in Nat, NEW S, NEW s, ar[n].pages \in Nat,
           pg <= ar[n].pages, TaskFits(n, pg, S, s), NEW m,
           m.type = "buildings", m.req = n, m.first <=> pg = 0, ~m.failed,
           IF pg + 1 <= ar[n].pages THEN ~m.done /\ m.pages = {<<n, pg + 1>>}
           ELSE m.done /\ m.pages = {}
    PROVE  /\ Fits(ar, m, S, s)
           /\ ~m.done => TaskFits(n, pg + 1, S \cup {m}, s)
<1>1. Shaped(ar, m)
    BY DEF Shaped
<1>2. Prior(ar, m) \subseteq {n} \X (1 .. pg)
    BY DEF Prior, Extent
<1>3. Fits(ar, m, S, s)
    BY <1>1, <1>2 DEF Fits, TaskFits
<1>4. ASSUME ~m.done PROVE TaskFits(n, pg + 1, S \cup {m}, s)
  <2>1. m.pages = {<<n, pg + 1>>}
      BY <1>4
  <2>2. {n} \X (1 .. (pg + 1)) \subseteq ({n} \X (1 .. pg)) \cup m.pages
      BY <2>1
  <2>3. {n} \X (1 .. (pg + 1)) \subseteq Got(S \cup {m}, s)
      BY <2>2 DEF TaskFits, Got
  <2>4. pg + 1 # 0
      OBVIOUS
  <2>5. Unended(S \cup {m}, n)
      BY <1>4 DEF TaskFits, Unended
  <2> QED
      BY <2>3, <2>4, <2>5 DEF TaskFits
<1> QED
    BY <1>3, <1>4

(* The failure a task reports fits wherever its next page would.           *)
LEMMA FailureFits ==
    ASSUME NEW ar, NEW n \in Requests, NEW pg, NEW S, NEW s, TaskFits(n, pg, S, s), NEW m,
           m.type = "buildings", m.req = n, ~m.first, m.failed, m.pages = {}
    PROVE  Fits(ar, m, S, s)
    BY DEF Fits, TaskFits, Shaped, Prior

(* A message that fits depends on the area of its own request only.        *)
LEMMA FitsOfArea ==
    ASSUME NEW ar, NEW ar2, NEW m, NEW S, NEW s, ar2[m.req] = ar[m.req], Fits(ar, m, S, s)
    PROVE  Fits(ar2, m, S, s)
    BY DEF Fits, Shaped, Prior, Extent

-----------------------------------------------------------------------------
(* The invariant.                                                          *)

(* The building task of n has been started.                                *)
Begun(n) == "buildings" \in Kinds /\ task[<<n, "buildings">>] # "none"

(* The building messages queued for the sidebar, and with them those that  *)
(* will be accepted from the websocket unless the user moves on.           *)
Queued == Msgs(Entries(events))
Coming == Queued \cup Mine(Entries(down), current)

InSocket(n) == \E i \in DOMAIN down : down[i].type = "buildings" /\ down[i].req = n

(* The sidebar shows that nothing more is expected.                        *)
Over == ~sidebar.loading \/ sidebar.error

PagesKnown ==
    \A n \in Requests : /\ area[n].source = "msft" /\ page[n] <= area[n].pages
                        /\ ~Begun(n) => page[n] = 0

(* Requests reach the consumer in the order they were made, and have no    *)
(* task before they do.                                                    *)
UpFresh ==
    /\ \A i, j \in DOMAIN up : i < j => up[i] < up[j]
    /\ \A i \in DOMAIN up : \A k \in Kinds : task[<<up[i], k>>] = "none"

(* What there is of a request comes of its task.  What is in the list has  *)
(* been announced.                                                         *)
OnlyBegun ==
    /\ \A m \in Queued : Begun(m.req)
    /\ \A n \in Requests : InSocket(n) => Begun(n)
    /\ \A p \in sidebar.list : Begun(p[1]) /\ p[1] \notin StillToSend /\ p \in PagesOf(p[1])

SendsInOrder ==
    /\ \A i, j \in DOMAIN events :
          i < j /\ events[i].topic = "send" /\ events[j].topic = "send"
              => events[i].req < events[j].req
    /\ \A i \in DOMAIN events : events[i].topic = "send" => announced < events[i].req

QueueFits ==
    \A i \in DOMAIN events :
        events[i].topic = "buildings"
            => Fits(area, events[i].msg, Msgs(Before(events, i)), sidebar.list)

SocketFits ==
    \A i \in DOMAIN down :
        down[i].type = "buildings" /\ down[i].req = current
            => Fits(area, down[i], Queued \cup Mine(Before(down, i), current), sidebar.list)

TaskIsFit ==
    current # 0 /\ Running(<<current, "buildings">>)
        => TaskFits(current, page[current], Coming, sidebar.list)

(* Nothing more comes for the request the sidebar shows.                   *)
Silent ==
    /\ Begun(announced)
    /\ \A m \in Queued : m.req # announced
    /\ announced = current => /\ Mine(Entries(down), current) = {}
                              /\ ~Running(<<current, "buildings">>)

Shown ==
    /\ sidebar.list # {} => sidebar.listed
    /\ (\E p \in sidebar.list : p[1] = announced) => sidebar.list \subseteq PagesOf(announced)
    /\ sidebar.mark = "loading" => sidebar.loading
    /\ sidebar.mark = "final" => ~sidebar.loading /\ ~sidebar.error
    /\ sidebar.mark = "error" => sidebar.error
    /\ announced = 0 => ~sidebar.loading /\ ~sidebar.error
    /\ announced # 0 /\ ~sidebar.loading => sidebar.list = PagesOf(announced) /\ ~sidebar.error

MapShown ==
    /\ announced # 0 /\ announced = current
    /\ ~sidebar.loading \/ \E p \in sidebar.list : p[1] = announced
    => overlay = sidebar.list

CountInv ==
    /\ PagesKnown /\ UpFresh /\ OnlyBegun /\ SendsInOrder
    /\ QueueFits /\ SocketFits /\ TaskIsFit
    /\ announced # 0 /\ Over => Silent
    /\ Shown /\ MapShown

(* Types, again, of what the invariant speaks of.                          *)
LEMMA CountTypes ==
    ASSUME TypeInv
    PROVE  /\ events \in Seq(Event) /\ up \in Seq(Requests) /\ down \in Seq(Message)
           /\ MaxRequests \in Nat /\ MaxPages \in Nat
           /\ asked \in 0 .. MaxRequests /\ current \in 0 .. asked /\ announced \in 0 .. asked
           /\ current # 0 => current \in Requests
           /\ announced # 0 => announced \in Requests
           /\ \A n \in Requests : area[n].pages \in Nat /\ page[n] \in Nat
           /\ area \in [Requests -> [pages : 0 .. MaxPages, source : {"msft", "osm"}]]
           /\ page \in [Requests -> 0 .. MaxPages]
           /\ sidebar \in Sidebar
           /\ task \in [Tasks -> {"none", "running", "ended", "failed", "terminated", "orphaned"}]
<1>1. EventsTyped /\ BrowserTyped /\ ServerTyped
    BY TypeParts
<1>2. current # 0 => current \in Requests
    BY <1>1, BoundsAssumption DEF BrowserTyped, Requests, BoundsAssumption
<1>3. announced # 0 => announced \in Requests
    BY <1>1, BoundsAssumption DEF BrowserTyped, Requests, BoundsAssumption
<1> QED
    BY <1>1, <1>2, <1>3, BoundsAssumption
       DEF EventsTyped, BrowserTyped, ServerTyped, BoundsAssumption

(* A step of the server keeps the invariant if what it sends fits.         *)
LEMMA ServerCounts ==
    ASSUME TypeInv, CountInv,
           UNCHANGED <<asked, current, area, events, sidebar, overlay, announced>>,
           \A n \in Requests : Begun(n) => Begun(n)',
           PagesKnown', UpFresh', SocketFits', TaskIsFit',
           \A n \in Requests : InSocket(n)' => Begun(n)',
           announced # 0 /\ announced = current /\ Over
               => /\ Mine(Entries(down'), current) = {}
                  /\ ~Running(<<current, "buildings">>)'
    PROVE  CountInv'
<1>1. Queued' = Queued /\ (Over' <=> Over) /\ StillToSend' = StillToSend
      /\ \A n : PagesOf(n)' = PagesOf(n)
    BY DEF Queued, Over, StillToSend, PagesOf, Entries
<1>2. OnlyBegun'
  <2>1. \A m \in Queued : m.req \in Requests
      BY MessageFields DEF Queued, Msgs
  <2>2. \A p \in sidebar.list : p[1] \in Requests
      BY CountTypes DEF Sidebar, Pages
  <2> QED
      BY <1>1, <2>1, <2>2 DEF CountInv, OnlyBegun
<1>3. SendsInOrder' /\ QueueFits'
    BY <1>1 DEF CountInv, SendsInOrder, QueueFits, Before
<1>4. Shown' /\ MapShown'
    BY <1>1 DEF CountInv, Shown, MapShown
<1>5. announced' # 0 /\ Over' => Silent'
    BY <1>1, CountTypes DEF CountInv, Silent, Running
<1> QED
    BY <1>2, <1>3, <1>4, <1>5 DEF CountInv

(* Starting the tasks of a request keeps the invariant: they have sent     *)
(* nothing.                                                                *)
LEMMA HandleRequestCounts ==
    ASSUME TypeInv, CountInv, HandleRequest
    PROVE  CountInv'
<1> DEFINE n == Head(up)
<1>0. /\ up \in Seq(Requests) /\ up # <<>> /\ up' = Tail(up)
      /\ task' = [t \in Tasks |-> IF t[1] = n THEN "running" ELSE task[t]]
      /\ UNCHANGED <<asked, current, area, events, sidebar, overlay, announced, down, page>>
    BY CountTypes DEF HandleRequest, StartTasks, browser
<1>1. /\ n \in Requests /\ n = up[1] /\ 1 \in DOMAIN up
      /\ \A i \in DOMAIN up' : i + 1 \in DOMAIN up /\ up'[i] = up[i + 1] /\ i \in Nat /\ 1 < i + 1
    BY <1>0, Advanced
<1>2. \A k \in Kinds : task[<<n, k>>] = "none"
    BY <1>1 DEF CountInv, UpFresh
<1>3. ~Begun(n) /\ page[n] = 0
    BY <1>1, <1>2 DEF Begun, CountInv, PagesKnown
<1>4. \A m \in Requests : /\ Begun(m) => Begun(m)'
                          /\ m # n => (Begun(m)' <=> Begun(m))
    BY <1>0 DEF Begun, Tasks
<1>5. PagesKnown'
    BY <1>0, <1>4 DEF CountInv, PagesKnown
<1>6. UpFresh'
  <2>1. \A i, j \in DOMAIN up' : i < j => up'[i] < up'[j]
      BY <1>1 DEF CountInv, UpFresh
  <2>2. ASSUME NEW i \in DOMAIN up', NEW k \in Kinds PROVE task'[<<up'[i], k>>] = "none"
    <3>1. up'[i] \in Requests /\ n < up'[i] /\ task[<<up'[i], k>>] = "none"
        BY <1>0, <1>1 DEF CountInv, UpFresh
    <3>2. up'[i] # n
        BY <1>1, <3>1 DEF Requests
    <3> QED
        BY <1>0, <3>1, <3>2 DEF Tasks
  <2> QED
      BY <2>1, <2>2 DEF UpFresh
<1>7. SocketFits'
    BY <1>0 DEF CountInv, SocketFits, Queued
<1>8. TaskIsFit'
  <2>1. SUFFICES ASSUME current # 0, Running(<<current, "buildings">>)'
                 PROVE  TaskFits(current, page[current], Coming, sidebar.list)
      BY <1>0 DEF TaskIsFit, Coming, Queued
  <2>2. CASE current = n
    <3>1. \A p \in sidebar.list : p[1] # n
        BY <1>3 DEF CountInv, OnlyBegun
    <3>2. \A m \in Coming : m.req # n
      <4>1. ~InSocket(n)
          BY <1>1, <1>3 DEF CountInv, OnlyBegun
      <4>2. Mine(Entries(down), current) = {}
          BY <2>2, <4>1 DEF Mine, Entries, InSocket
      <4> QED
          BY <1>3, <4>2 DEF CountInv, OnlyBegun, Coming
    <3> QED
        BY <1>3, <2>2, <3>1, <3>2 DEF TaskFits, Untouched, Unended
  <2>3. CASE current # n
    <3>1. Running(<<current, "buildings">>)
        BY <1>0, <2>1, <2>3 DEF Running
    <3> QED
        BY <2>1, <3>1 DEF CountInv, TaskIsFit
  <2> QED
      BY <2>2, <2>3
<1>9. \A m \in Requests : InSocket(m)' => Begun(m)'
    BY <1>0, <1>4 DEF CountInv, OnlyBegun, InSocket
<1>10. announced # 0 /\ announced = current /\ Over
           => /\ Mine(Entries(down'), current) = {}
              /\ ~Running(<<current, "buildings">>)'
    BY <1>0, <1>3 DEF CountInv, Silent, Running
<1> QED
    BY <1>0, <1>4, <1>5, <1>6, <1>7, <1>8, <1>9, <1>10, ServerCounts

(* A message joins the end of the websocket's queue.                       *)
LEMMA SentCounts ==
    ASSUME TypeInv, CountInv, NEW m \in Message, down' = Append(down, m),
           UNCHANGED <<current, area, events, sidebar>>,
           m.type = "buildings" /\ m.req = current => Fits(area, m, Coming, sidebar.list)
    PROVE  /\ SocketFits'
           /\ Mine(Entries(down'), current)
                = Mine(Entries(down), current)
                    \cup (IF m.type = "buildings" /\ m.req = current THEN {m} ELSE {})
           /\ \A n : InSocket(n)' => InSocket(n) \/ (m.type = "buildings" /\ m.req = n)
<1>0. /\ down \in Seq(Message) /\ Len(down) \in Nat
      /\ \A i \in DOMAIN down' : \/ i \in DOMAIN down /\ down'[i] = down[i] /\ i \in 1 .. (Len(down) + 1)
                                 \/ i = Len(down) + 1 /\ down'[i] = m
    BY CountTypes, Appended
<1>1. Entries(down') = Entries(down) \cup {m}
      /\ \A i \in 1 .. (Len(down) + 1) : Before(down', i) = Before(down, i)
      /\ Before(down, Len(down) + 1) = Entries(down)
    BY <1>0, EntriesAppended
<1>2. Mine(Entries(down'), current)
          = Mine(Entries(down), current)
              \cup (IF m.type = "buildings" /\ m.req = current THEN {m} ELSE {})
    BY <1>1, MineJoined
<1>3. SocketFits'
  <2>1. SUFFICES ASSUME NEW i \in DOMAIN down', down'[i].type = "buildings", down'[i].req = current
                 PROVE  Fits(area, down'[i], Queued \cup Mine(Before(down', i), current), sidebar.list)
      BY DEF SocketFits, Queued
  <2>2. CASE i \in DOMAIN down /\ down'[i] = down[i] /\ i \in 1 .. (Len(down) + 1)
      BY <1>1, <2>1, <2>2 DEF CountInv, SocketFits
  <2>3. CASE i = Len(down) + 1 /\ down'[i] = m
    <3>1. Before(down', i) = Entries(down)
        BY <1>0, <1>1, <2>3
    <3> QED
        BY <2>1, <2>3, <3>1 DEF Coming
  <2> QED
      BY <1>0, <2>2, <2>3
<1>4. \A n : InSocket(n)' => InSocket(n) \/ (m.type = "buildings" /\ m.req = n)
    BY <1>0 DEF InSocket
<1> QED
    BY <1>2, <1>3, <1>4

(* So does the answer to an invalid area.                                  *)
LEMMA HandleInvalidCounts ==
    ASSUME TypeInv, CountInv, HandleInvalid
    PROVE  CountInv'
<1> DEFINE m == [type |-> "error", req |-> Head(up), pages |-> {},
                 first |-> FALSE, done |-> FALSE, failed |-> FALSE]
<1>0. /\ up \in Seq(Requests) /\ up # <<>> /\ up' = Tail(up) /\ down' = Append(down, m)
      /\ UNCHANGED <<asked, current, area, events, sidebar, overlay, announced, task, page>>
    BY CountTypes DEF HandleInvalid, browser
<1>1. /\ Head(up) \in Requests
      /\ \A i \in DOMAIN up' : i + 1 \in DOMAIN up /\ up'[i] = up[i + 1] /\ i \in Nat
    BY <1>0, Advanced
<1>2. m \in Message /\ m.type # "buildings"
    BY <1>1 DEF Message
<1> HIDE DEF m
<1>3. /\ SocketFits' /\ Mine(Entries(down'), current) = Mine(Entries(down), current)
      /\ \A n : InSocket(n)' => InSocket(n)
    BY <1>0, <1>2, SentCounts
<1>4. \A n : Begun(n)' <=> Begun(n)
    BY <1>0 DEF Begun
<1>5. PagesKnown'
    BY <1>0, <1>4 DEF CountInv, PagesKnown
<1>6. UpFresh'
    BY <1>0, <1>1 DEF CountInv, UpFresh
<1>7. TaskIsFit'
    BY <1>0, <1>3 DEF CountInv, TaskIsFit, Running, Coming, Queued
<1>8. announced # 0 /\ announced = current /\ Over
           => /\ Mine(Entries(down'), current) = {}
              /\ ~Running(<<current, "buildings">>)'
    BY <1>0, <1>3 DEF CountInv, Silent, Running
<1>9. \A n \in Requests : InSocket(n)' => Begun(n)'
    BY <1>3, <1>4 DEF CountInv, OnlyBegun
<1> QED
    BY <1>0, <1>3, <1>4, <1>5, <1>6, <1>7, <1>8, <1>9, ServerCounts

(* So does the end of the connection, which leaves no task to go on.       *)
LEMMA HangUpCounts ==
    ASSUME TypeInv, CountInv, HangUp
    PROVE  CountInv'
<1>0. /\ up' = <<>> /\ down' = <<>>
      /\ task' = [t \in Tasks |-> IF task[t] = "running" THEN "orphaned" ELSE task[t]]
      /\ UNCHANGED <<asked, current, area, events, sidebar, overlay, announced, page>>
    BY DEF HangUp
<1>1. DOMAIN up' = {} /\ DOMAIN down' = {} /\ Len(down') = 0
    BY <1>0
<1>2. \A t : ~Running(t)'
    BY <1>0 DEF Running, Tasks
<1>3. \A n \in Requests : Begun(n)' <=> Begun(n)
    BY <1>0 DEF Begun, Tasks
<1>4. PagesKnown' /\ UpFresh'
    BY <1>0, <1>1, <1>3 DEF CountInv, PagesKnown, UpFresh
<1>5. SocketFits' /\ TaskIsFit' /\ \A n \in Requests : ~InSocket(n)'
    BY <1>1, <1>2 DEF SocketFits, TaskIsFit, InSocket
<1>6. Mine(Entries(down'), current) = {}
    BY <1>1 DEF Mine, Entries
<1> QED
    BY <1>0, <1>2, <1>3, <1>4, <1>5, <1>6, ServerCounts

(* A running task sends a message that fits.                               *)
LEMMA SendCounts ==
    ASSUME TypeInv, CountInv, NEW t \in Tasks, Running(t), NEW m \in Message,
           down' = Append(down, m), m.type = t[2], m.req = t[1], UNCHANGED <<browser, up>>,
           End(t) \/ UNCHANGED task,
           \A n \in Requests : page'[n] <= area[n].pages /\ (page'[n] = page[n] \/ <<n, "buildings">> = t),
           t = <<current, "buildings">> => Fits(area, m, Coming, sidebar.list),
           t = <<current, "buildings">> /\ UNCHANGED task
               => TaskFits(current, page'[current], Coming \cup {m}, sidebar.list)
    PROVE  CountInv'
<1>0. /\ UNCHANGED <<asked, current, area, events, sidebar, overlay, announced, up>>
      /\ task \in [Tasks -> {"none", "running", "ended", "failed", "terminated", "orphaned"}]
      /\ task[t] = "running" /\ t = <<m.req, m.type>>
    BY CountTypes DEF browser, Running, Tasks
<1>1. /\ \A u \in Tasks : task'[u] = task[u] \/ (u = t /\ task'[u] = "ended")
      /\ End(t) => task'[t] = "ended"
    BY <1>0 DEF End
<1>2. /\ m.type = "buildings" /\ m.req = current <=> t = <<current, "buildings">>
    BY <1>0
<1>3. /\ SocketFits'
      /\ Mine(Entries(down'), current)
           = Mine(Entries(down), current) \cup (IF t = <<current, "buildings">> THEN {m} ELSE {})
      /\ \A n : InSocket(n)' => InSocket(n) \/ (m.type = "buildings" /\ m.req = n)
    BY <1>0, <1>2, SentCounts
<1>4. \A n \in Requests : Begun(n)' <=> Begun(n)
    BY <1>0, <1>1 DEF Begun, Tasks
<1>5. m.type = "buildings" => Begun(m.req)
    BY <1>0 DEF Begun, Tasks
<1>6. PagesKnown'
  <2>1. SUFFICES ASSUME NEW n \in Requests, ~Begun(n) PROVE page'[n] = 0
      BY <1>0, <1>4 DEF CountInv, PagesKnown
  <2>2. <<n, "buildings">> # t
      BY <1>5, <1>0, <2>1
  <2> QED
      BY <2>1, <2>2 DEF CountInv, PagesKnown
<1>7. UpFresh'
  <2>1. ASSUME NEW i \in DOMAIN up, NEW k \in Kinds PROVE task'[<<up[i], k>>] = "none"
    <3>1. task[<<up[i], k>>] = "none" /\ <<up[i], k>> \in Tasks
        BY CountTypes DEF CountInv, UpFresh, Tasks
    <3> QED
        BY <1>0, <1>1, <3>1
  <2> QED
      BY <1>0, <2>1 DEF CountInv, UpFresh
<1>8. ASSUME current # 0, Running(<<current, "buildings">>)'
      PROVE  /\ Running(<<current, "buildings">>)
             /\ t = <<current, "buildings">> => UNCHANGED task
    BY <1>0, <1>1, <1>8 DEF Running
<1>9. TaskIsFit'
  <2>1. SUFFICES ASSUME current # 0, Running(<<current, "buildings">>)'
                 PROVE  TaskFits(current, page'[current], Queued \cup Mine(Entries(down'), current), sidebar.list)
      BY <1>0 DEF TaskIsFit, Coming, Queued
  <2>2. CASE t = <<current, "buildings">>
    <3>1. Queued \cup Mine(Entries(down'), current) = Coming \cup {m}
        BY <1>3, <2>2 DEF Coming
    <3> QED
        BY <1>8, <2>1, <2>2, <3>1
  <2>3. CASE t # <<current, "buildings">>
    <3>1. Queued \cup Mine(Entries(down'), current) = Coming
        BY <1>3, <2>3 DEF Coming
    <3>2. page'[current] = page[current]
        BY <2>1, <2>3, CountTypes
    <3> QED
        BY <1>8, <2>1, <3>1, <3>2 DEF CountInv, TaskIsFit
  <2> QED
      BY <2>2, <2>3
<1>10. \A n \in Requests : InSocket(n)' => Begun(n)'
    BY <1>3, <1>4, <1>5 DEF CountInv, OnlyBegun
<1>11. announced # 0 /\ announced = current /\ Over
           => /\ Mine(Entries(down'), current) = {}
              /\ ~Running(<<current, "buildings">>)'
  <2>1. SUFFICES ASSUME announced # 0, announced = current, Over
                 PROVE  /\ Mine(Entries(down'), current) = {}
                        /\ ~Running(<<current, "buildings">>)'
      OBVIOUS
  <2>2. Mine(Entries(down), current) = {} /\ ~Running(<<current, "buildings">>)
      BY <2>1 DEF CountInv, Silent
  <2> QED
      BY <1>3, <1>8, <2>1, <2>2
<1> QED
    BY <1>0, <1>3, <1>4, <1>6, <1>7, <1>9, <1>10, <1>11, ServerCounts

(* The page a building task sends fits what it has sent before.            *)
LEMMA SendPageCounts ==
    ASSUME TypeInv, CountInv, NEW n \in Requests, SendPage(n)
    PROVE  CountInv'
<1> DEFINE t == <<n, "buildings">>
           k == page[n] + 1
           pages == IF k <= area[n].pages THEN {<<n, k>>} ELSE {}
           done == ~(k <= area[n].pages)
<1>0. /\ t \in Tasks /\ Running(t) /\ t[1] = n /\ t[2] = "buildings" /\ UNCHANGED <<browser, up>>
      /\ Send(t, pages, done, FALSE)
      /\ IF done THEN End(t) /\ UNCHANGED page
         ELSE UNCHANGED task /\ page' = [page EXCEPT ![n] = k]
    BY DEF SendPage, Running
<1>1. /\ page[n] \in Nat /\ area[n].pages \in 0 .. MaxPages /\ MaxPages \in Nat
      /\ page[n] <= area[n].pages /\ area[n].source = "msft" /\ page \in [Requests -> 0 .. MaxPages]
      /\ \A r \in Requests : page[r] <= area[r].pages
    BY CountTypes DEF CountInv, PagesKnown
<1>2. pages \in SUBSET Pages /\ done \in BOOLEAN
    BY <1>1 DEF Pages
<1> DEFINE m == [type |-> "buildings", req |-> n, pages |-> pages, done |-> done,
                 failed |-> FALSE, first |-> page[n] = 0]
<1>3. /\ m \in Message /\ down' = Append(down, m) /\ m.type = "buildings" /\ m.req = n
      /\ m.pages = pages /\ m.done = done /\ ~m.failed /\ (m.first <=> page[n] = 0)
  <2>1. m \in Message
      BY <1>2 DEF Message
  <2>2. down' = Append(down, m)
      BY <1>0, <1>1 DEF Send
  <2> QED
      BY <2>1, <2>2
<1> HIDE DEF m
<1>4. ASSUME n = current
      PROVE  /\ Fits(area, m, Coming, sidebar.list)
             /\ ~done => TaskFits(n, k, Coming \cup {m}, sidebar.list)
  <2>1. current # 0
      BY <1>4 DEF Requests
  <2>2. TaskFits(n, page[n], Coming, sidebar.list)
      BY <1>0, <1>4, <2>1 DEF CountInv, TaskIsFit
  <2>3. IF page[n] + 1 <= area[n].pages THEN ~m.done /\ m.pages = {<<n, page[n] + 1>>}
        ELSE m.done /\ m.pages = {}
      BY <1>3
  <2>4. page[n] \in Nat /\ area[n].pages \in Nat /\ page[n] <= area[n].pages
      BY <1>1
  <2>5. /\ Fits(area, m, Coming, sidebar.list)
        /\ ~m.done => TaskFits(n, page[n] + 1, Coming \cup {m}, sidebar.list)
      BY <1>3, <1>4, <2>2, <2>3, <2>4, PageFits
  <2> QED
      BY <1>3, <2>5
<1>5. \A r \in Requests : page'[r] <= area[r].pages /\ (page'[r] = page[r] \/ <<r, "buildings">> = t)
  <2>1. CASE done
      BY <1>0, <1>1, <2>1
  <2>2. CASE ~done
      BY <1>0, <1>1, <2>2
  <2> QED
      BY <2>1, <2>2
<1>6. UNCHANGED task => ~done /\ page'[n] = k
  <2>1. ~(End(t) /\ UNCHANGED task)
      BY <1>0, CountTypes DEF End, Running
  <2> QED
      BY <1>0, <1>1, <2>1
<1>7. t = <<current, "buildings">> => n = current
    OBVIOUS
<1>8. m.type = t[2] /\ m.req = t[1] /\ (End(t) \/ UNCHANGED task)
    BY <1>0, <1>3
<1> HIDE DEF t, k, pages, done
<1>9. t = <<current, "buildings">> => Fits(area, m, Coming, sidebar.list)
    BY <1>4, <1>7
<1>10. t = <<current, "buildings">> /\ UNCHANGED task
           => TaskFits(current, page'[current], Coming \cup {m}, sidebar.list)
    BY <1>4, <1>6, <1>7
<1> QED
    BY <1>0, <1>3, <1>5, <1>8, <1>9, <1>10, SendCounts

(* An answer of the other tasks, and a time limit.                         *)
LEMMA LastSendCounts ==
    ASSUME TypeInv, CountInv, NEW t \in Tasks, NEW done \in BOOLEAN, NEW failed \in BOOLEAN,
           Running(t), Send(t, {}, done, failed), End(t), UNCHANGED <<browser, up, page>>,
           t[2] = "buildings" => failed
    PROVE  CountInv'
<1>0. t[1] \in Requests /\ t = <<t[1], t[2]>>
    BY DEF Tasks
<1> DEFINE m == [type |-> t[2], req |-> t[1], pages |-> {}, done |-> done, failed |-> failed,
                 first |-> /\ t[2] = "buildings" /\ page[t[1]] = 0 /\ ~failed
                           /\ area[t[1]].source = "msft"]
<1>1. /\ m \in Message /\ down' = Append(down, m) /\ m.type = t[2] /\ m.req = t[1]
      /\ m.pages = {} /\ m.failed = failed /\ (t[2] = "buildings" => ~m.first)
  <2>1. t[1] \in Requests /\ t[2] \in {"buildings", "answer"}
      BY KindsAssumption DEF Tasks, KindsAssumption
  <2>2. m \in Message
      BY <2>1 DEF Message
  <2>3. down' = Append(down, m)
      BY DEF Send
  <2> QED
      BY <2>2, <2>3
<1> HIDE DEF m
<1>2. ASSUME t = <<current, "buildings">> PROVE Fits(area, m, Coming, sidebar.list)
  <2>1. t[1] = current /\ t[2] = "buildings"
      BY <1>2
  <2>2. current # 0 /\ current \in Requests
      BY <1>0, <2>1 DEF Requests
  <2>3. TaskFits(current, page[current], Coming, sidebar.list)
      BY <1>2, <2>2 DEF CountInv, TaskIsFit
  <2> QED
      BY <1>1, <2>1, <2>2, <2>3, FailureFits
<1>3. ~UNCHANGED task
    BY CountTypes DEF End, Running
<1>4. \A n \in Requests : page'[n] <= area[n].pages /\ (page'[n] = page[n] \/ <<n, "buildings">> = t)
    BY DEF CountInv, PagesKnown
<1> QED
    BY <1>1, <1>2, <1>3, <1>4, SendCounts

(* A task ends without a word.                                             *)
LEMMA SilentEndCounts ==
    ASSUME TypeInv, CountInv, NEW t \in Tasks, Running(t), NEW v \in {"failed", "terminated"},
           task' = [task EXCEPT ![t] = v], UNCHANGED <<browser, up, down, page>>
    PROVE  CountInv'
<1>0. /\ UNCHANGED <<asked, current, area, events, sidebar, overlay, announced>>
      /\ task \in [Tasks -> {"none", "running", "ended", "failed", "terminated", "orphaned"}]
      /\ \A u \in Tasks : task'[u] = task[u] \/ (u = t /\ task'[u] = v /\ task[u] = "running")
      /\ UNCHANGED down
    BY CountTypes DEF browser, Running
<1>1. \A u : Running(u)' => Running(u)
    BY <1>0 DEF Running
<1>2. \A n \in Requests : Begun(n)' <=> Begun(n)
    BY <1>0 DEF Begun, Tasks
<1>3. PagesKnown'
    BY <1>0, <1>2 DEF CountInv, PagesKnown
<1>4. UpFresh'
  <2>1. ASSUME NEW i \in DOMAIN up, NEW k \in Kinds PROVE task'[<<up[i], k>>] = "none"
    <3>1. task[<<up[i], k>>] = "none" /\ <<up[i], k>> \in Tasks
        BY CountTypes DEF CountInv, UpFresh, Tasks
    <3> QED
        BY <1>0, <3>1
  <2> QED
      BY <2>1 DEF CountInv, UpFresh
<1>5. SocketFits' /\ TaskIsFit'
    BY <1>0, <1>1 DEF CountInv, SocketFits, TaskIsFit, Coming, Queued
<1>6. \A n \in Requests : InSocket(n)' => Begun(n)'
    BY <1>2 DEF CountInv, OnlyBegun, InSocket
<1>7. announced # 0 /\ announced = current /\ Over
          => /\ Mine(Entries(down'), current) = {}
             /\ ~Running(<<current, "buildings">>)'
    BY <1>0, <1>1 DEF CountInv, Silent
<1> QED
    BY <1>0, <1>2, <1>3, <1>4, <1>5, <1>6, <1>7, ServerCounts

-----------------------------------------------------------------------------
(* The browser's steps: an event joins the queue.                          *)

(* Publishing an event that fits what is queued keeps what is said of the  *)
(* queue.                                                                  *)
LEMMA PublishCounts ==
    ASSUME TypeInv, CountInv, NEW e \in Event, Publish(e), UNCHANGED <<announced, sidebar>>,
           \A n \in Requests : Begun(n) => area'[n] = area[n],
           e.topic = "send" => /\ announced < e.req
                               /\ \A i \in DOMAIN events :
                                     events[i].topic = "send" => events[i].req < e.req,
           e.topic = "buildings" => Fits(area', e.msg, Queued, sidebar.list)
    PROVE  /\ SendsInOrder' /\ QueueFits'
           /\ Queued' = Queued \cup (IF e.topic = "buildings" THEN {e.msg} ELSE {})
           /\ e.topic # "send" /\ UNCHANGED asked => StillToSend' = StillToSend
<1>0. /\ events \in Seq(Event) /\ Len(events) \in Nat /\ events' = Append(events, e)
      /\ \A i \in DOMAIN events : events[i] \in Event
      /\ \A i \in DOMAIN events' : \/ i \in DOMAIN events /\ events'[i] = events[i] /\ i \in 1 .. (Len(events) + 1)
                                   \/ i = Len(events) + 1 /\ events'[i] = e
      /\ \A i \in DOMAIN events : i \in DOMAIN events' /\ i < Len(events) + 1
    BY CountTypes, Appended DEF Publish
<1>1. Entries(events') = Entries(events) \cup {e}
      /\ \A i \in 1 .. (Len(events) + 1) : Before(events', i) = Before(events, i)
      /\ Before(events, Len(events) + 1) = Entries(events)
    BY <1>0, EntriesAppended
<1>2. SendsInOrder'
  <2>1. ASSUME NEW i \in DOMAIN events', NEW j \in DOMAIN events', i < j,
               events'[i].topic = "send", events'[j].topic = "send"
        PROVE  events'[i].req < events'[j].req
    <3>1. CASE i \in DOMAIN events /\ j \in DOMAIN events
        BY <1>0, <2>1, <3>1 DEF CountInv, SendsInOrder
    <3>2. CASE i \in DOMAIN events /\ j = Len(events) + 1
        BY <1>0, <2>1, <3>2
    <3>3. i # Len(events) + 1
        BY <1>0, <2>1
    <3> QED
        BY <1>0, <3>1, <3>2, <3>3
  <2>2. \A i \in DOMAIN events' : events'[i].topic = "send" => announced < events'[i].req
      BY <1>0 DEF CountInv, SendsInOrder
  <2> QED
      BY <2>1, <2>2 DEF SendsInOrder
<1>3. QueueFits'
  <2>1. SUFFICES ASSUME NEW i \in DOMAIN events', events'[i].topic = "buildings"
                 PROVE  Fits(area', events'[i].msg, Msgs(Before(events', i)), sidebar.list)
      BY DEF QueueFits
  <2>2. CASE i \in DOMAIN events /\ events'[i] = events[i] /\ i \in 1 .. (Len(events) + 1)
    <3>1. Fits(area, events[i].msg, Msgs(Before(events, i)), sidebar.list)
        BY <2>1, <2>2 DEF CountInv, QueueFits
    <3>2. events[i].msg \in Queued /\ events[i].msg.req \in Requests
        BY <1>0, <2>1, <2>2, EventFields, MessageFields DEF Queued, Msgs, Entries
    <3>3. area'[events[i].msg.req] = area[events[i].msg.req]
        BY <3>2 DEF CountInv, OnlyBegun
    <3> QED
        BY <1>1, <2>2, <3>1, <3>3, FitsOfArea
  <2>3. CASE i = Len(events) + 1 /\ events'[i] = e
    <3>1. Before(events', i) = Entries(events)
        BY <1>0, <1>1, <2>3
    <3> QED
        BY <2>1, <2>3, <3>1 DEF Queued
  <2> QED
      BY <1>0, <2>2, <2>3
<1>4. Queued' = Queued \cup (IF e.topic = "buildings" THEN {e.msg} ELSE {})
    BY <1>1, MsgsJoined DEF Queued
<1>5. ASSUME e.topic # "send", UNCHANGED asked PROVE StillToSend' = StillToSend
  <2>1. \A n : (\E i \in DOMAIN events' : events'[i].topic = "send" /\ events'[i].req = n)
               <=> (\E i \in DOMAIN events : events[i].topic = "send" /\ events[i].req = n)
      BY <1>0, <1>5
  <2> QED
      BY <1>5, <2>1 DEF StillToSend
<1> QED
    BY <1>2, <1>3, <1>4, <1>5

(* A building message keeps its place on its way from the websocket to the *)
(* queue.                                                                  *)
LEMMA OnMessageCounts ==
    ASSUME TypeInv, CountInv, OnMessage
    PROVE  CountInv'
<1> DEFINE m == Head(down)
           e == [topic |-> m.type, msg |-> m]
           mine == m.type = "buildings" /\ m.req = current
<1>0. /\ down \in Seq(Message) /\ down # <<>> /\ down' = Tail(down)
      /\ UNCHANGED <<asked, current, area, sidebar, overlay, announced, up, task, page>>
      /\ IF m.req = current /\ m.type # "error" THEN Publish(e) ELSE UNCHANGED events
    BY CountTypes DEF OnMessage, Accepted, server
<1>1. /\ m \in Message /\ m = down[1] /\ 1 \in DOMAIN down
      /\ \A i \in DOMAIN down' : i + 1 \in DOMAIN down /\ down'[i] = down[i + 1] /\ i \in 1 .. Len(down)
    BY <1>0, Advanced
<1>2. /\ Entries(down) = Entries(down') \cup {m}
      /\ \A i \in 1 .. Len(down) : Before(down, i + 1) = Before(down', i) \cup {m}
    BY <1>0, EntriesAdvanced
<1>3. ASSUME NEW D PROVE Mine(D \cup {m}, current) = Mine(D, current) \cup (IF mine THEN {m} ELSE {})
    BY MineJoined
<1>4. /\ SendsInOrder' /\ QueueFits' /\ StillToSend' = StillToSend
      /\ Queued' = Queued \cup (IF mine THEN {m} ELSE {})
  <2>1. CASE UNCHANGED events
    <3>1. ~mine
      <4>1. ASSUME mine PROVE FALSE
        <5>1. Publish(e)
            BY <1>0, <4>1
        <5>2. Len(events') = Len(events) + 1 /\ Len(events) \in Nat
            BY <5>1, CountTypes DEF Publish
        <5> QED
            BY <2>1, <5>2
      <4> QED
          BY <4>1
    <3> QED
        BY <1>0, <2>1, <3>1 DEF CountInv, SendsInOrder, QueueFits, StillToSend, Queued
  <2>2. CASE ~UNCHANGED events
    <3>1. e \in Event /\ Publish(e) /\ m.req = current /\ m.type # "error"
        BY <1>0, <1>1, <2>2, EventsMade
    <3>2. e.topic # "send" /\ (e.topic = "buildings" <=> mine) /\ e.msg = m
        BY <1>1, <3>1, MessageFields
    <3>3. ASSUME mine PROVE Fits(area, m, Queued, sidebar.list)
      <4>1. Before(down, 1) = {}
          BY DEF Before
      <4>2. Mine(Before(down, 1), current) = {}
          BY <4>1 DEF Mine
      <4> QED
          BY <1>1, <3>3, <4>2 DEF CountInv, SocketFits
    <3> HIDE DEF e, mine
    <3> QED
        BY <1>0, <3>1, <3>2, <3>3, PublishCounts
  <2> QED
      BY <2>1, <2>2
<1>5. \A n : (Begun(n)' <=> Begun(n)) /\ (InSocket(n)' => InSocket(n)) /\ PagesOf(n)' = PagesOf(n)
    BY <1>0, <1>1 DEF Begun, InSocket, PagesOf
<1>6. mine => InSocket(m.req) /\ m.req \in Requests /\ m \in Mine(Entries(down), current)
    BY <1>1, <1>2, MessageFields DEF InSocket, Mine
<1> HIDE DEF mine
<1>7. Coming' = Coming
    BY <1>0, <1>2, <1>3, <1>4 DEF Coming
<1>8. SocketFits'
  <2>1. SUFFICES ASSUME NEW i \in DOMAIN down', down'[i].type = "buildings", down'[i].req = current
                 PROVE  Fits(area, down'[i], Queued' \cup Mine(Before(down', i), current), sidebar.list)
      BY <1>0 DEF SocketFits
  <2>2. Queued' \cup Mine(Before(down', i), current) = Queued \cup Mine(Before(down, i + 1), current)
      BY <1>1, <1>2, <1>3, <1>4
  <2> QED
      BY <1>1, <2>1, <2>2 DEF CountInv, SocketFits
<1>9. TaskIsFit'
    BY <1>0, <1>7 DEF CountInv, TaskIsFit, Running
<1>10. OnlyBegun'
    BY <1>0, <1>4, <1>5, <1>6 DEF CountInv, OnlyBegun
<1>11. PagesKnown' /\ UpFresh'
    BY <1>0, <1>5 DEF CountInv, PagesKnown, UpFresh
<1>12. (Over' <=> Over) /\ Shown' /\ MapShown'
    BY <1>0, <1>5 DEF CountInv, Over, Shown, MapShown
<1>13. announced' # 0 /\ Over' => Silent'
  <2>1. SUFFICES ASSUME announced # 0, Over PROVE Silent'
      BY <1>0, <1>12
  <2>2. Silent
      BY <2>1 DEF CountInv
  <2>3. mine => m.req # announced
      BY <1>6, <2>2 DEF Silent, mine
  <2>4. Mine(Entries(down'), current) \subseteq Mine(Entries(down), current)
      BY <1>2 DEF Mine
  <2> QED
      BY <1>0, <1>4, <1>5, <2>2, <2>3, <2>4 DEF Silent, Running
<1> QED
    BY <1>4, <1>8, <1>9, <1>10, <1>11, <1>12, <1>13 DEF CountInv

(* A selection: nothing of the new request is anywhere, and what is on the *)
(* websocket will be dropped.                                              *)
LEMMA SelectionCounts ==
    ASSUME TypeInv, AnswerInv, CountInv, SelectArea \/ SelectNothing, WholePages
    PROVE  CountInv' /\ Count!Outline
<1>0. /\ events \in Seq(Event) /\ up \in Seq(Requests) /\ Len(up) \in Nat
      /\ asked \in 0 .. MaxRequests /\ announced \in 0 .. asked /\ MaxRequests \in Nat
      /\ asked' = asked + 1 /\ asked' \in Requests
      /\ UNCHANGED <<sidebar, announced, down, task, page>>
    BY CountTypes, SMTT(30) DEF SelectArea, SelectNothing, server, Requests
<1>1. current' = asked' \/ current' = 0
    BY DEF SelectArea, SelectNothing
<1>2. /\ \A n \in Requests : (OnServer(n) => n # asked') /\ (Begun(n) => OnServer(n))
                             /\ (InSocket(n) => OnServer(n))
      /\ ~Begun(asked') /\ ~InSocket(asked')
  <2>1. \A n \in Requests : (OnServer(n) => n # asked')
      BY <1>0 DEF AnswerInv, Requests
  <2>2. \A n \in Requests : (Begun(n) => OnServer(n)) /\ (InSocket(n) => OnServer(n))
      BY DEF Begun, OnServer, InSocket, Tasks
  <2> QED
      BY <1>0, <2>1, <2>2
<1>3. /\ area' \in [Requests -> [pages : 0 .. MaxPages, source : {"msft", "osm"}]]
      /\ area'[asked'].source = "msft"
      /\ \A n \in Requests : n # asked' => area'[n] = area[n]
  <2>1. CASE SelectArea
    <3>1. PICK n \in (IF "empty" \in Env THEN 0 ELSE 1) .. MaxPages,
               src \in {"msft"} \cup ({"osm"} \cap Env) :
               area' = [area EXCEPT ![asked'] = [pages |-> n, source |-> src]]
        BY <2>1 DEF SelectArea
    <3>2. n \in 0 .. MaxPages /\ src = "msft"
        BY CountTypes DEF WholePages
    <3> QED
        BY <1>0, <3>1, <3>2, CountTypes
  <2>2. CASE SelectNothing
      BY <1>0, <2>2, CountTypes DEF SelectNothing, CountInv, PagesKnown
  <2> QED
      BY <2>1, <2>2
<1>4. \A n \in Requests : (Begun(n)' <=> Begun(n)) /\ (InSocket(n)' <=> InSocket(n))
                          /\ (Begun(n) => area'[n] = area[n] /\ PagesOf(n)' = PagesOf(n))
    BY <1>0, <1>2, <1>3 DEF Begun, InSocket, PagesOf
<1>5. /\ \/ UNCHANGED events
         \/ \E e \in Event : Publish(e) /\ (e = [topic |-> "no_items"] \/ e = [topic |-> "send", req |-> asked'])
      /\ UNCHANGED up \/ up' = Append(up, asked')
    BY <1>0, EventsMade DEF SelectArea, SelectNothing
<1>6. \A i \in DOMAIN events : events[i].topic = "send" => events[i].req < asked'
    BY <1>0, EventFields DEF TypeInv, Requests
<1>7. /\ SendsInOrder' /\ QueueFits' /\ Queued' = Queued
      /\ StillToSend' \subseteq StillToSend
  <2>1. CASE UNCHANGED events
    <3>1. SendsInOrder' /\ Queued' = Queued
        BY <1>0, <2>1 DEF CountInv, SendsInOrder, Queued
    <3>2. QueueFits'
      <4>1. SUFFICES ASSUME NEW i \in DOMAIN events, events[i].topic = "buildings"
                     PROVE  Fits(area', events[i].msg, Msgs(Before(events, i)), sidebar.list)
          BY <1>0, <2>1 DEF QueueFits
      <4>2. Fits(area, events[i].msg, Msgs(Before(events, i)), sidebar.list)
          BY <4>1 DEF CountInv, QueueFits
      <4>3. events[i] \in Event
          BY <1>0
      <4>4. events[i].msg \in Queued /\ events[i].msg.req \in Requests
        <5>1. events[i] \in Entries(events)
            BY <1>0, <4>1 DEF Entries
        <5>2. events[i].msg \in Message
            BY <4>1, <4>3, EventFields
        <5> QED
            BY <4>1, <5>1, <5>2, MessageFields DEF Queued, Msgs
      <4>5. area'[events[i].msg.req] = area[events[i].msg.req]
          BY <1>4, <4>4 DEF CountInv, OnlyBegun
      <4> QED
          BY <4>2, <4>5, FitsOfArea
    <3>3. StillToSend' \subseteq StillToSend
        BY <1>0, <2>1 DEF StillToSend, Requests
    <3> QED
        BY <3>1, <3>2, <3>3
  <2>2. ASSUME NEW e \in Event, Publish(e),
               e = [topic |-> "no_items"] \/ e = [topic |-> "send", req |-> asked']
        PROVE  /\ SendsInOrder' /\ QueueFits' /\ Queued' = Queued
               /\ StillToSend' \subseteq StillToSend
    <3>1. e.topic # "buildings" /\ (e.topic = "send" => e.req = asked' /\ announced < asked')
        BY <1>0, <2>2
    <3>2. SendsInOrder' /\ QueueFits' /\ Queued' = Queued
        BY <1>0, <1>4, <1>6, <2>2, <3>1, PublishCounts
    <3>3. \A i \in DOMAIN events' : (i \in DOMAIN events /\ events'[i] = events[i]) \/ events'[i] = e
        BY <1>0, <2>2 DEF Publish
    <3>4. StillToSend' \subseteq StillToSend
        BY <1>0, <3>1, <3>3 DEF StillToSend, Requests
    <3> QED
        BY <3>2, <3>4
  <2> QED
      BY <1>5, <2>1, <2>2
<1>8. OnlyBegun'
  <2>1. \A m \in Queued : m.req \in Requests
      BY MessageFields DEF Queued, Msgs
  <2>2. \A p \in sidebar.list : p[1] \in Requests
      BY CountTypes DEF Sidebar, Pages
  <2>3. \A m \in Queued' : Begun(m.req)'
      BY <1>4, <1>7, <2>1 DEF CountInv, OnlyBegun
  <2>4. \A n \in Requests : InSocket(n)' => Begun(n)'
      BY <1>4 DEF CountInv, OnlyBegun
  <2>5. \A p \in sidebar'.list : Begun(p[1])' /\ p[1] \notin StillToSend' /\ p \in PagesOf(p[1])'
      BY <1>0, <1>4, <1>7, <2>2 DEF CountInv, OnlyBegun
  <2> QED
      BY <2>3, <2>4, <2>5 DEF OnlyBegun
<1>9. SocketFits' /\ TaskIsFit'
  <2>1. \A i \in DOMAIN down : down[i].type = "buildings" => down[i].req # current'
    <3>1. \A i \in DOMAIN down : down[i].req \in Requests
        BY CountTypes, MessageFields
    <3>2. \A i \in DOMAIN down : down[i].type = "buildings" => InSocket(down[i].req)
        BY DEF InSocket
    <3> QED
        BY <1>1, <1>2, <3>1, <3>2 DEF Requests
  <2>2. SocketFits'
      BY <1>0, <2>1 DEF SocketFits
  <2>3. current' # 0 => ~Running(<<current, "buildings">>)'
      BY <1>0, <1>1, <1>2 DEF Running, Begun, Tasks
  <2>4. TaskIsFit'
      BY <2>3 DEF TaskIsFit
  <2> QED
      BY <2>2, <2>4
<1>10. PagesKnown'
  <2>1. SUFFICES ASSUME NEW n \in Requests
                 PROVE  area'[n].source = "msft" /\ page[n] <= area'[n].pages
                        /\ (~Begun(n) => page[n] = 0)
      BY <1>0, <1>4 DEF PagesKnown
  <2>2. CASE n = asked'
    <3>1. page[n] = 0
        BY <1>2, <2>2 DEF CountInv, PagesKnown
    <3>2. area'[n].pages \in Nat
        BY <1>3, CountTypes
    <3> QED
        BY <1>3, <2>2, <3>1, <3>2
  <2>3. CASE n # asked'
      BY <1>3, <2>3 DEF CountInv, PagesKnown
  <2> QED
      BY <2>2, <2>3
<1>11. UpFresh'
  <2>1. CASE UNCHANGED up
      BY <1>0, <2>1 DEF CountInv, UpFresh
  <2>2. CASE up' = Append(up, asked')
    <3>1. \A i \in DOMAIN up' : \/ i \in DOMAIN up /\ up'[i] = up[i] /\ i < Len(up) + 1 /\ i \in Nat
                                \/ i = Len(up) + 1 /\ up'[i] = asked'
        BY <1>0, <2>2
    <3>2. \A i \in DOMAIN up : up[i] \in Requests /\ OnServer(up[i])
        BY <1>0 DEF OnServer
    <3>3. \A i \in DOMAIN up : up[i] < asked'
        BY <1>0, <3>2 DEF AnswerInv, Requests
    <3>4. \A k \in Kinds : task[<<asked', k>>] = "none"
      <4>1. SUFFICES ASSUME NEW k \in Kinds, task[<<asked', k>>] # "none" PROVE FALSE
          OBVIOUS
      <4>2. OnServer(asked')
        <5> DEFINE t == <<asked', k>>
        <5>1. t \in Tasks /\ t[1] = asked' /\ task[t] # "none"
            BY <1>0, <4>1 DEF Tasks
        <5> QED
            BY <5>1 DEF OnServer
      <4> QED
          BY <1>0, <1>2, <4>2
    <3>5. ASSUME NEW i \in DOMAIN up', NEW j \in DOMAIN up', i < j PROVE up'[i] < up'[j]
      <4>1. i \in DOMAIN up /\ up'[i] = up[i]
          BY <1>0, <3>1, <3>5
      <4>2. CASE j \in DOMAIN up /\ up'[j] = up[j]
          BY <3>5, <4>1, <4>2 DEF CountInv, UpFresh
      <4>3. CASE up'[j] = asked'
          BY <3>3, <4>1, <4>3
      <4> QED
          BY <3>1, <4>2, <4>3
    <3>6. \A i \in DOMAIN up' : \A k \in Kinds : task[<<up'[i], k>>] = "none"
        BY <3>1, <3>4 DEF CountInv, UpFresh
    <3> QED
        BY <1>0, <3>5, <3>6 DEF UpFresh
  <2> QED
      BY <1>5, <2>1, <2>2
<1>12. announced # asked' /\ (announced # 0 => announced \in Requests)
    BY <1>0, CountTypes
<1>13. announced # 0 => PagesOf(announced)' = PagesOf(announced)
    BY <1>0, <1>3, <1>12 DEF PagesOf
<1>14. (Over' <=> Over) /\ Shown'
  <2>1. Over' <=> Over
      BY <1>0 DEF Over
  <2>2. (\E p \in sidebar.list : p[1] = announced) => announced # 0
      BY CountTypes DEF Sidebar, Pages, Requests
  <2> QED
      BY <1>0, <1>13, <2>1, <2>2 DEF CountInv, Shown
<1>15. MapShown'
    BY <1>0, <1>1, <1>12 DEF MapShown
<1>16. announced' # 0 /\ Over' => Silent'
    BY <1>0, <1>1, <1>4, <1>7, <1>12, <1>14 DEF CountInv, Silent
<1>17. Count!Outline
  <2>1. ASSUME NEW n \in Requests \ StillToSend PROVE PagesOf(n)' = PagesOf(n)
    <3>1. n # asked'
        BY <1>0, <2>1 DEF StillToSend
    <3> QED
        BY <1>3, <2>1, <3>1 DEF PagesOf
  <2> QED
      BY <1>0, <1>7, <2>1 DEF Count!Outline
<1> QED
    BY <1>7, <1>8, <1>9, <1>10, <1>11, <1>14, <1>15, <1>16, <1>17 DEF CountInv

-----------------------------------------------------------------------------
(* The browser's steps: an event is delivered.                             *)

(* What is in force anywhere is announced or still to be.                  *)
LEMMA InForceKnown ==
    ASSUME TypeInv, NEW n \in Requests, NEW i \in 1 .. (Len(events) + 1),
           InForce(events, announced, i, n)
    PROVE  n = announced \/ n \in StillToSend
<1>1. CASE announced = n
    BY <1>1
<1>2. ASSUME NEW j \in 1 .. (i - 1), Switches(events[j]), Selected(events[j]) = n
      PROVE  n \in StillToSend
  <2>1. j \in DOMAIN events
      BY CountTypes
  <2>2. events[j].topic = "send" /\ events[j].req = n
      BY <1>2 DEF Switches, Selected, Requests
  <2> QED
      BY <2>1, <2>2 DEF StillToSend
<1> QED
    BY <1>1, <1>2 DEF InForce

(* Why a list that begins anew loses no page anybody still needs.          *)
LEMMA NothingNeededIsLost ==
    ASSUME TypeInv, AnswerInv, CountInv, NEW n \in Requests,
           \/ \E i \in DOMAIN events : events[i].topic = "buildings" /\ events[i].msg.req = n
           \/ n = current /\ OnServer(n),
           NEW m, m = Head(events).msg, events # <<>>, Head(events).topic = "buildings",
           m.first
    PROVE  \A p \in sidebar.list : p[1] # n
<1>0. events \in Seq(Event) /\ Len(events) \in Nat \ {0} /\ Head(events) = events[1] /\ 1 \in DOMAIN events
    BY CountTypes, Advanced
<1>1. n = announced \/ n \in StillToSend
  <2>1. ASSUME NEW i \in DOMAIN events, events[i].topic = "buildings", events[i].msg.req = n
        PROVE  n = announced \/ n \in StillToSend
    <3>1. InForce(events, announced, i, n) /\ i \in 1 .. (Len(events) + 1)
        BY <1>0, <2>1 DEF AnswerInv, Answers
    <3> QED
        BY <3>1, InForceKnown
  <2>2. ASSUME n = current, OnServer(n) PROVE n = announced \/ n \in StillToSend
    <3>1. OnServer(current) /\ current # 0
        BY <2>2 DEF Requests
    <3>2. InForce(events, announced, Len(events) + 1, n) /\ Len(events) + 1 \in 1 .. (Len(events) + 1)
        BY <1>0, <2>2, <3>1 DEF AnswerInv
    <3> QED
        BY <3>2, InForceKnown
  <2> QED
      BY <2>1, <2>2
<1>2. m.req = announced
  <2>1. InForce(events, announced, 1, m.req)
      BY <1>0 DEF AnswerInv, Answers
  <2> QED
      BY <2>1, InForceNow
<1>3. Untouched(Msgs(Before(events, 1)), sidebar.list, m.req)
    BY <1>0 DEF CountInv, QueueFits, Fits
<1> QED
    BY <1>1, <1>2, <1>3 DEF Untouched, CountInv, OnlyBegun

(* The queue and what is to come after a delivery, the list having become  *)
(* what it becomes.                                                        *)
LEMMA DeliveredCounts ==
    ASSUME TypeInv, AnswerInv, CountInv, Deliver, NEW m,
           IF Head(events).topic = "buildings"
           THEN /\ m = Head(events).msg
                /\ \A p \in m.pages : p[1] = m.req
                /\ IF m.first THEN sidebar'.list = m.pages
                   ELSE sidebar'.list = sidebar.list \cup m.pages
           ELSE UNCHANGED sidebar.list
    PROVE  /\ Queued = Queued' \cup (IF Head(events).topic = "buildings" THEN {m} ELSE {})
           /\ QueueFits' /\ SocketFits' /\ TaskIsFit'
<1> DEFINE e == Head(events)
           r == Tail(events)
           B == e.topic = "buildings"
           M == IF B THEN {m} ELSE {}
           list == sidebar.list
<1>0. /\ events \in Seq(Event) /\ events # <<>> /\ e = events[1] /\ e \in Event /\ r \in Seq(Event)
      /\ Len(r) = Len(events) - 1 /\ Len(events) \in Nat \ {0}
      /\ \A i \in 1 .. Len(r) : i + 1 \in DOMAIN events /\ r[i] = events[i + 1] /\ i \in 1 .. Len(events)
      /\ UNCHANGED <<current, area, up, down, task, page>>
    BY Delivery, Advanced, CountTypes DEF server
<1>1. /\ Entries(events) = Entries(r) \cup {e}
      /\ \A i \in 1 .. Len(events) : Before(events, i + 1) = Before(r, i) \cup {e}
    BY <1>0, EntriesAdvanced
<1>2. \/ events' = r
      \/ \E b \in Event : b.topic = "bounds" /\ events' = Append(r, b)
    BY Delivery
<1>3. /\ Msgs(Entries(events')) = Msgs(Entries(r))
      /\ \A i \in DOMAIN events' : events'[i].topic = "buildings"
            => /\ i \in 1 .. Len(r) /\ events'[i] = r[i]
               /\ Before(events', i) = Before(r, i)
  <2>1. CASE events' = r
      BY <1>0, <2>1
  <2>2. ASSUME NEW b \in Event, b.topic = "bounds", events' = Append(r, b)
        PROVE  /\ Msgs(Entries(events')) = Msgs(Entries(r))
               /\ \A i \in DOMAIN events' : events'[i].topic = "buildings"
                     => /\ i \in 1 .. Len(r) /\ events'[i] = r[i]
                        /\ Before(events', i) = Before(r, i)
    <3>1. /\ Entries(events') = Entries(r) \cup {b}
          /\ \A i \in 1 .. (Len(r) + 1) : Before(events', i) = Before(r, i)
      <4> HIDE DEF r
      <4>1. r \in Seq(Event)
          BY <1>0
      <4> QED
          BY <2>2, <4>1, EntriesAppended
    <3>2. Msgs(Entries(events')) = Msgs(Entries(r))
        BY <2>2, <3>1, MsgsJoined
    <3>3. \A i \in DOMAIN events' : (i \in 1 .. Len(r) /\ events'[i] = r[i] /\ i \in 1 .. (Len(r) + 1)) \/ events'[i] = b
        BY <1>0, <2>2, Appended
    <3> QED
        BY <2>2, <3>1, <3>2, <3>3
  <2> QED
      BY <1>2, <2>1, <2>2
<1>4. \A E : Msgs(E \cup {e}) = Msgs(E) \cup M
    BY <1>0, MsgsJoined
<1>5. Queued = Queued' \cup M
    BY <1>1, <1>3, <1>4 DEF Queued
<1>6. ASSUME NEW n \in Requests, B,
             \/ \E i \in DOMAIN events : events[i].topic = "buildings" /\ events[i].msg.req = n
             \/ n = current /\ OnServer(n)
      PROVE  TakenFor(m, list, sidebar'.list, n)
  <2>1. m = Head(events).msg /\ \A p \in m.pages : p[1] = m.req
      BY <1>6
  <2>2. CASE m.first
    <3>1. \A p \in list : p[1] # n
        BY <1>0, <1>6, <2>1, <2>2, NothingNeededIsLost
    <3> QED
        BY <1>6, <2>1, <2>2, <3>1 DEF TakenFor
  <2>3. CASE ~m.first
      BY <1>6, <2>1, <2>3 DEF TakenFor
  <2> QED
      BY <2>2, <2>3
<1> HIDE DEF e, r, M
<1>7. QueueFits'
  <2>1. SUFFICES ASSUME NEW i \in DOMAIN events', events'[i].topic = "buildings"
                 PROVE  Fits(area, events'[i].msg, Msgs(Before(events', i)), sidebar'.list)
      BY <1>0 DEF QueueFits
  <2>2. /\ i \in 1 .. Len(events) /\ i + 1 \in DOMAIN events /\ events'[i] = events[i + 1]
        /\ Before(events', i) = Before(r, i)
      BY <1>0, <1>3, <2>1
  <2> DEFINE x == events'[i].msg
             T == Msgs(Before(events', i))
  <2>3. Fits(area, x, T \cup M, list)
    <3>1. Fits(area, x, Msgs(Before(events, i + 1)), list)
        BY <2>1, <2>2 DEF CountInv, QueueFits
    <3>2. Msgs(Before(events, i + 1)) = T \cup M
        BY <1>1, <1>4, <2>2
    <3> QED
        BY <3>1, <3>2
  <2>4. CASE B
    <3>1. x.req \in Requests
        BY <2>3 DEF Fits, Shaped
    <3>2. TakenFor(m, list, sidebar'.list, x.req)
        BY <1>6, <2>1, <2>2, <2>4, <3>1
    <3> QED
        BY <2>3, <2>4, <3>2, FitsTaken DEF M
  <2>5. CASE ~B
    <3>1. T \cup M = T /\ sidebar'.list = list
        BY <2>5 DEF M, e
    <3> QED
        BY <2>3, <3>1
  <2> QED
      BY <2>4, <2>5
<1>8. SocketFits'
  <2>1. SUFFICES ASSUME NEW i \in DOMAIN down, down[i].type = "buildings", down[i].req = current
                 PROVE  Fits(area, down[i], Queued' \cup Mine(Before(down, i), current), sidebar'.list)
      BY <1>0 DEF SocketFits
  <2> DEFINE T == Queued' \cup Mine(Before(down, i), current)
  <2>2. Fits(area, down[i], T \cup M, list)
    <3>1. Fits(area, down[i], Queued \cup Mine(Before(down, i), current), list)
        BY <2>1 DEF CountInv, SocketFits
    <3>2. Queued \cup Mine(Before(down, i), current) = T \cup M
        BY <1>5
    <3> QED
        BY <3>1, <3>2
  <2>3. CASE B
    <3>1. down[i].req \in Requests /\ OnServer(down[i].req)
        BY <2>2 DEF Fits, Shaped, OnServer
    <3>2. TakenFor(m, list, sidebar'.list, down[i].req)
        BY <1>6, <2>1, <2>3, <3>1
    <3> HIDE DEF T
    <3> QED
        BY <2>2, <2>3, <3>2, FitsTaken DEF M, T
  <2>4. CASE ~B
    <3>1. T \cup M = T /\ sidebar'.list = list
        BY <2>4 DEF M, e
    <3> QED
        BY <2>2, <3>1
  <2> QED
      BY <2>3, <2>4
<1>9. TaskIsFit'
  <2>1. SUFFICES ASSUME current # 0, Running(<<current, "buildings">>)
                 PROVE  TaskFits(current, page[current], Coming', sidebar'.list)
      BY <1>0 DEF TaskIsFit, Running
  <2>2. Coming = Coming' \cup M
      BY <1>0, <1>5 DEF Coming
  <2>3. TaskFits(current, page[current], Coming' \cup M, list)
      BY <2>1, <2>2 DEF CountInv, TaskIsFit
  <2>4. CASE B
    <3>1. current \in Requests /\ OnServer(current)
        BY <2>1 DEF Running, OnServer, Tasks
    <3>2. TakenFor(m, list, sidebar'.list, current)
        BY <1>6, <2>4, <3>1
    <3> QED
        BY <2>3, <2>4, <3>2, TaskFitsTaken DEF M
  <2>5. CASE ~B
    <3>1. Coming' \cup M = Coming' /\ sidebar'.list = list
        BY <2>5 DEF M, e
    <3> QED
        BY <2>3, <3>1
  <2> QED
      BY <2>4, <2>5
<1> QED
    BY <1>5, <1>7, <1>8, <1>9 DEF e, M

(* The requests still to be announced, after a delivery.                   *)
LEMMA DeliveredInOrder ==
    ASSUME TypeInv, CountInv, Deliver
    PROVE  LET e == Head(events) IN
           /\ SendsInOrder'
           /\ StillToSend' = IF e.topic = "send" THEN StillToSend \ {e.req} ELSE StillToSend
           /\ e.topic = "send" => e.req \in StillToSend
<1> DEFINE e == Head(events)
           r == Tail(events)
<1>0. /\ events \in Seq(Event) /\ events # <<>> /\ e = events[1] /\ e \in Event /\ r \in Seq(Event)
      /\ Len(r) = Len(events) - 1 /\ Len(events) \in Nat \ {0} /\ 1 \in DOMAIN events
      /\ \A i \in 1 .. Len(r) : i + 1 \in DOMAIN events /\ r[i] = events[i + 1] /\ i \in Nat
      /\ asked' = asked /\ asked \in Nat
    BY Delivery, Advanced, CountTypes DEF server
<1>1. \/ events' = r
      \/ \E b \in Event : b.topic = "bounds" /\ events' = Append(r, b)
    BY Delivery
<1>2. \A i \in DOMAIN events' : events'[i].topic = "send" =>
          i + 1 \in DOMAIN events /\ events'[i] = events[i + 1] /\ i \in Nat
  <2>1. CASE events' = r
      BY <1>0, <2>1
  <2>2. ASSUME NEW b \in Event, b.topic = "bounds", events' = Append(r, b)
        PROVE  \A i \in DOMAIN events' : events'[i].topic = "send" =>
                   i + 1 \in DOMAIN events /\ events'[i] = events[i + 1] /\ i \in Nat
    <3>1. \A i \in DOMAIN events' : (i \in 1 .. Len(r) /\ events'[i] = r[i]) \/ events'[i] = b
        BY <1>0, <2>2, Appended
    <3> QED
        BY <1>0, <2>2, <3>1
  <2> QED
      BY <1>1, <2>1, <2>2
<1>3. \A j \in DOMAIN events : j # 1 => j - 1 \in DOMAIN events' /\ events'[j - 1] = events[j]
  <2>1. SUFFICES ASSUME NEW j \in DOMAIN events, j # 1
                 PROVE  j - 1 \in DOMAIN events' /\ events'[j - 1] = events[j]
      OBVIOUS
  <2>2. j - 1 \in 1 .. Len(r) /\ r[j - 1] = events[j]
      BY <1>0, <2>1
  <2>3. CASE events' = r
      BY <1>0, <2>2, <2>3
  <2>4. ASSUME NEW b \in Event, events' = Append(r, b)
        PROVE  j - 1 \in DOMAIN events' /\ events'[j - 1] = events[j]
      BY <1>0, <2>2, <2>4, Appended
  <2> QED
      BY <1>1, <2>3, <2>4
<1>4. announced' = IF Switches(e) THEN Selected(e) ELSE announced
    BY Delivery
<1>5. /\ e.topic \in {"send", "no_items", "buildings", "answer", "bounds"}
      /\ e.topic = "send" => e.req \in Requests /\ e.req <= asked
    BY <1>0, EventFields DEF TypeInv
<1>6. SendsInOrder'
  <2>1. \A i, j \in DOMAIN events' :
            i < j /\ events'[i].topic = "send" /\ events'[j].topic = "send"
                => events'[i].req < events'[j].req
      BY <1>0, <1>2 DEF CountInv, SendsInOrder
  <2>2. ASSUME NEW i \in DOMAIN events', events'[i].topic = "send" PROVE announced' < events'[i].req
    <3>1. i + 1 \in DOMAIN events /\ events'[i] = events[i + 1] /\ 1 < i + 1 /\ events[i + 1] \in Event
      <4>1. i + 1 \in DOMAIN events /\ events'[i] = events[i + 1] /\ i \in Nat
          BY <1>2, <2>2
      <4>2. events[i + 1] \in Event
          BY <1>0, <4>1
      <4>3. i \in DOMAIN events' /\ events' \in Seq(Event)
          BY <1>0, <1>1, Appended
      <4>4. 1 <= i
          BY <4>3
      <4> QED
          BY <4>1, <4>2, <4>4
    <3>2. announced < events[i + 1].req /\ events[i + 1].req \in Requests
        BY <2>2, <3>1, EventFields DEF CountInv, SendsInOrder
    <3>3. e.topic = "send" => e.req < events[i + 1].req
        BY <1>0, <2>2, <3>1 DEF CountInv, SendsInOrder
    <3> QED
        BY <1>4, <1>5, <3>1, <3>2, <3>3 DEF Switches, Selected, Requests
  <2> QED
      BY <2>1, <2>2 DEF SendsInOrder
<1>7. e.topic = "send" => e.req \in StillToSend
    BY <1>0, <1>5 DEF StillToSend
<1>8. ASSUME NEW n \in Requests
      PROVE  n \in StillToSend' <=> n \in StillToSend /\ ~(e.topic = "send" /\ e.req = n)
  <2>1. n \in StillToSend' <=> \/ n > asked
                               \/ \E i \in DOMAIN events' : events'[i].topic = "send" /\ events'[i].req = n
      BY <1>0 DEF StillToSend
  <2>2. n \in StillToSend <=> \/ n > asked
                              \/ \E i \in DOMAIN events : events[i].topic = "send" /\ events[i].req = n
      BY DEF StillToSend
  <2>3. ASSUME NEW i \in DOMAIN events', events'[i].topic = "send", events'[i].req = n
        PROVE  n \in StillToSend /\ ~(e.topic = "send" /\ e.req = n)
    <3>1. i + 1 \in DOMAIN events /\ events'[i] = events[i + 1] /\ 1 < i + 1 /\ i \in Nat
        BY <1>0, <1>2, <2>3
    <3>2. e.topic = "send" => e.req < n
        BY <1>0, <2>3, <3>1 DEF CountInv, SendsInOrder
    <3> QED
        BY <1>5, <2>2, <2>3, <3>1, <3>2 DEF Requests
  <2>4. n > asked => ~(e.topic = "send" /\ e.req = n)
      BY <1>0, <1>5 DEF Requests
  <2>5. ASSUME NEW j \in DOMAIN events, events[j].topic = "send", events[j].req = n,
               ~(e.topic = "send" /\ e.req = n)
        PROVE  n \in StillToSend'
    <3>1. j # 1
        BY <1>0, <2>5
    <3> QED
        BY <1>3, <2>1, <2>5, <3>1
  <2> QED
      BY <2>1, <2>2, <2>3, <2>4, <2>5
<1>9. StillToSend \subseteq Requests /\ StillToSend' \subseteq Requests
    BY DEF StillToSend
<1> QED
    BY <1>6, <1>7, <1>8, <1>9

(* What the sidebar and the map make of a building message.                *)
LEMMA BuildingsCounted ==
    ASSUME TypeInv, AnswerInv, CountInv, NEW m, m = Head(events).msg, events # <<>>,
           DeliverBuildings(Head(events))
    PROVE  /\ m \in Queued /\ m.req = announced /\ announced \in Requests /\ Begun(announced)
           /\ \A p \in m.pages : p[1] = m.req
           /\ sidebar.loading /\ ~sidebar.error /\ sidebar.mark = "loading"
           /\ IF m.first THEN sidebar'.list = m.pages
              ELSE sidebar'.list = sidebar.list \cup m.pages
           /\ sidebar' \in Sidebar
           /\ \A p \in m.pages : p \in PagesOf(announced)
           /\ IF m.failed
              THEN sidebar' = [sidebar EXCEPT !.error = TRUE] /\ UNCHANGED overlay
              ELSE /\ sidebar'.listed /\ ~sidebar'.error
                   /\ announced = current => overlay' = sidebar'.list
                   /\ IF m.done
                      THEN /\ ~sidebar'.loading /\ sidebar'.mark = "final"
                           /\ PagesOf(announced) \subseteq sidebar.list
                           /\ sidebar'.list = PagesOf(announced)
                      ELSE /\ sidebar'.loading /\ sidebar'.mark = "loading"
                           /\ sidebar'.list \subseteq PagesOf(announced)
                           /\ sidebar.list \cap PagesOf(announced) \subseteq sidebar'.list
<1> DEFINE e == Head(events)
           s == sidebar
<1>0. /\ events \in Seq(Event) /\ Len(events) \in Nat \ {0} /\ e = events[1] /\ 1 \in DOMAIN events
      /\ e \in Event /\ e.topic = "buildings"
    BY CountTypes, Advanced DEF DeliverBuildings
<1>1. m \in Message /\ m.req \in Requests /\ m \in Queued
  <2>1. m \in Message
      BY <1>0, EventFields
  <2>2. e \in Entries(events)
      BY <1>0 DEF Entries
  <2> QED
      BY <1>0, <2>1, <2>2, MessageFields DEF Queued, Msgs
<1>2. m.req = announced
  <2>1. InForce(events, announced, 1, m.req)
      BY <1>0 DEF AnswerInv, Answers
  <2> QED
      BY <2>1, InForceNow
<1>3. announced # 0 /\ announced \in Requests
    BY <1>1, <1>2 DEF Requests
<1>4. ~Over
    BY <1>1, <1>2, <1>3 DEF CountInv, Silent
<1>5. s \in Sidebar /\ s.loading = TRUE /\ s.error = FALSE /\ s.mark = "loading"
  <2>1. s \in Sidebar
      BY CountTypes
  <2>2. s.loading \in BOOLEAN /\ s.error \in BOOLEAN /\ s.mark \in {"loading", "final", "error"}
      BY <2>1 DEF Sidebar
  <2> QED
      BY <1>4, <2>1, <2>2 DEF Over, CountInv, Shown
<1>6. Fits(area, m, {}, s.list)
  <2>1. Msgs(Before(events, 1)) = {}
      BY DEF Before, Msgs
  <2>2. Fits(area, m, Msgs(Before(events, 1)), s.list)
      BY <1>0 DEF CountInv, QueueFits
  <2> QED
      BY <2>1, <2>2
<1>7. Extent(area, m.req) = PagesOf(announced)
    BY <1>2 DEF Extent, PagesOf
<1>8. Prior(area, m) \subseteq s.list
    BY <1>6 DEF Fits, Got
<1>9. /\ \A p \in m.pages : p[1] = m.req /\ p \in PagesOf(announced)
      /\ m.failed => m.pages = {} /\ ~m.first
    BY <1>2, <1>6 DEF Fits, Shaped, PagesOf
<1>10. m.done \in BOOLEAN /\ m.failed \in BOOLEAN /\ m.first \in BOOLEAN
    BY <1>1, MessageFields
<1>11. sidebar' = SidebarBuildings(s, m)
       /\ overlay' = IF m.failed THEN overlay ELSE Extend(overlay, m)
    BY <1>0 DEF DeliverBuildings
<1>12. sidebar' \in Sidebar
    BY <1>1, <1>5, <1>11, BuildingsShown, TypeParts, BoundsAssumption DEF BrowserTyped
<1>13. CASE m.failed
  <2>1. sidebar' = [s EXCEPT !.error = TRUE] /\ sidebar'.list = s.list
      BY <1>5, <1>11, <1>13 DEF SidebarBuildings, Sidebar
  <2>2. s.list = s.list \cup m.pages /\ ~m.first
      BY <1>9, <1>13
  <2> QED
      BY <1>1, <1>2, <1>3, <1>5, <1>9, <1>11, <1>12, <1>13, <2>1, <2>2 DEF CountInv, OnlyBegun
<1>14. CASE ~m.failed
  <2>1. ASSUME ~m.first
        PROVE  /\ s.list \subseteq PagesOf(announced) /\ s.listed
               /\ announced = current => overlay = s.list
    <3>1. area[m.req].pages \in Nat
        BY <1>1, CountTypes
    <3>2. <<m.req, 1>> \in Prior(area, m)
      <4>1. CASE m.done
        <5>1. area[m.req].pages # 0
            BY <1>6, <1>14, <2>1, <4>1 DEF Fits, Shaped
        <5>2. <<m.req, 1>> \in Extent(area, m.req)
            BY <3>1, <5>1 DEF Extent
        <5> QED
            BY <1>14, <4>1, <5>2 DEF Prior
      <4>2. CASE ~m.done
        <5>1. PICK k \in 1 .. area[m.req].pages : m.pages = {<<m.req, k>>} /\ k # 1
            BY <1>6, <1>14, <2>1, <4>2 DEF Fits, Shaped
        <5>2. <<m.req, 1>> \in Extent(area, m.req) /\ 1 < k
            BY <3>1, <5>1 DEF Extent
        <5>3. <<m.req, k>> \in m.pages /\ <<m.req, 1>>[2] < <<m.req, k>>[2]
            BY <5>1, <5>2
        <5> QED
            BY <1>14, <5>2, <5>3 DEF Prior
      <4> QED
          BY <4>1, <4>2
    <3>3. <<m.req, 1>> \in s.list /\ <<m.req, 1>>[1] = announced
        BY <1>2, <1>8, <3>2
    <3> QED
        BY <1>3, <3>3 DEF CountInv, Shown, MapShown
  <2> DEFINE u == [s EXCEPT !.loading = ~m.done, !.listed = TRUE, !.list = Extend(s.list, m)]
  <2>2. /\ sidebar' = UpdateStats(u, slider.passes)
        /\ u.loading = ~m.done /\ u.listed = TRUE /\ u.error = FALSE /\ u.list = Extend(s.list, m)
    <3>1. s.listed = TRUE \/ m.first
        BY <1>5, <1>10, <2>1 DEF Sidebar
    <3>2. sidebar' = UpdateStats(u, slider.passes)
        BY <1>11, <1>14, <3>1 DEF SidebarBuildings
    <3> QED
        BY <1>5, <3>2 DEF Sidebar
  <2>3. u \in Sidebar
      BY <1>1, <1>5, <1>10, MessageFields DEF Sidebar, Extend
  <2>4. /\ sidebar'.loading = ~m.done /\ sidebar'.listed = TRUE /\ sidebar'.error = FALSE
        /\ sidebar'.list = Extend(s.list, m) /\ sidebar'.mark = Mark(~m.done)
    <3> HIDE DEF u
    <3> QED
        BY <2>2, <2>3 DEF UpdateStats, Sidebar
  <2>5. sidebar'.list = IF m.first THEN m.pages ELSE s.list \cup m.pages
      BY <2>4 DEF Extend
  <2>6. announced = current => overlay' = sidebar'.list
      BY <1>11, <1>14, <2>1, <2>5 DEF Extend
  <2>7. Begun(announced)
      BY <1>1, <1>2 DEF CountInv, OnlyBegun
  <2>8. CASE m.done
    <3>1. m.pages = {} /\ (m.first <=> area[m.req].pages = 0)
        BY <1>6, <1>14, <2>8 DEF Fits, Shaped
    <3>2. PagesOf(announced) \subseteq s.list
        BY <1>7, <1>8, <1>14, <2>8 DEF Prior
    <3>3. sidebar'.list = PagesOf(announced)
      <4>1. CASE m.first
        <5>1. PagesOf(announced) = {}
            BY <1>2, <3>1, <4>1 DEF PagesOf
        <5> QED
            BY <2>5, <3>1, <4>1, <5>1
      <4>2. CASE ~m.first
          BY <2>1, <2>5, <3>1, <3>2, <4>2
      <4> QED
          BY <4>1, <4>2
    <3> QED
        BY <1>1, <1>2, <1>3, <1>5, <1>9, <1>12, <1>14, <2>4, <2>5, <2>6, <2>7, <2>8, <3>2, <3>3 DEF Mark
  <2>9. CASE ~m.done
    <3>1. sidebar'.list \subseteq PagesOf(announced)
        BY <1>9, <2>1, <2>5
    <3>2. s.list \cap PagesOf(announced) \subseteq sidebar'.list
      <4>1. CASE m.first
        <5>1. \A p \in s.list : p[1] # announced
            BY <1>2, <1>6, <4>1 DEF Fits, Untouched
        <5>2. \A p \in PagesOf(announced) : p[1] = announced
            BY DEF PagesOf
        <5> QED
            BY <5>1, <5>2
      <4>2. CASE ~m.first
          BY <2>5, <4>2
      <4> QED
          BY <4>1, <4>2
    <3> QED
        BY <1>1, <1>2, <1>3, <1>5, <1>9, <1>12, <1>14, <2>4, <2>5, <2>6, <2>7, <2>9, <3>1, <3>2 DEF Mark
  <2> QED
      BY <2>8, <2>9
<1> QED
    BY <1>13, <1>14

(* What is still queued after a delivery was queued behind the head.       *)
LEMMA DeliveredFrom ==
    ASSUME TypeInv, Deliver
    PROVE  \A i \in DOMAIN events' :
              events'[i].topic # "bounds"
                  => \E j \in DOMAIN events : j # 1 /\ events[j] = events'[i]
<1> DEFINE r == Tail(events)
<1>0. /\ events \in Seq(Event) /\ events # <<>> /\ r \in Seq(Event)
      /\ \A i \in 1 .. Len(r) : i + 1 \in DOMAIN events /\ r[i] = events[i + 1] /\ i + 1 # 1
    BY Delivery, Advanced, CountTypes
<1>1. CASE events' = r
    BY <1>0, <1>1
<1>2. ASSUME NEW b \in Event, b.topic = "bounds", events' = Append(r, b)
      PROVE  \A i \in DOMAIN events' :
                events'[i].topic # "bounds"
                    => \E j \in DOMAIN events : j # 1 /\ events[j] = events'[i]
  <2>1. \A i \in DOMAIN events' : (i \in 1 .. Len(r) /\ events'[i] = r[i]) \/ events'[i] = b
      BY <1>0, <1>2, Appended
  <2> QED
      BY <1>0, <1>2, <2>1
<1> QED
    BY <1>1, <1>2, Delivery

(* A building message that is delivered makes the list what it fits, and   *)
(* that is a step of AreaCount, or none.                                   *)
LEMMA DeliverBuildingsCounts ==
    ASSUME TypeInv, AnswerInv, CountInv, Deliver, DeliverBuildings(Head(events))
    PROVE  CountInv' /\ [Count!CountNext]_(Count!countVars)
<1> DEFINE e == Head(events)
           m == e.msg
           s == sidebar
<1>0. /\ events # <<>> /\ e.topic = "buildings" /\ announced' = announced
      /\ UNCHANGED <<asked, current, area, up, down, task, page>>
    BY Delivery DEF DeliverBuildings, server
<1>1. /\ m \in Queued /\ m.req = announced /\ announced \in Requests /\ announced # 0 /\ Begun(announced)
      /\ \A p \in m.pages : p[1] = m.req /\ p \in PagesOf(announced)
      /\ s.loading /\ ~s.error /\ s.mark = "loading"
      /\ IF m.first THEN sidebar'.list = m.pages ELSE sidebar'.list = s.list \cup m.pages
      /\ sidebar' \in Sidebar /\ s \in Sidebar
    BY <1>0, BuildingsCounted, CountTypes DEF Requests
<1>2. IF m.failed
      THEN sidebar' = [s EXCEPT !.error = TRUE] /\ UNCHANGED overlay
      ELSE /\ sidebar'.listed /\ ~sidebar'.error
           /\ announced = current => overlay' = sidebar'.list
           /\ IF m.done
              THEN /\ ~sidebar'.loading /\ sidebar'.mark = "final"
                   /\ PagesOf(announced) \subseteq s.list
                   /\ sidebar'.list = PagesOf(announced)
              ELSE /\ sidebar'.loading /\ sidebar'.mark = "loading"
                   /\ sidebar'.list \subseteq PagesOf(announced)
                   /\ s.list \cap PagesOf(announced) \subseteq sidebar'.list
    BY <1>0, BuildingsCounted
<1>3. /\ Queued = Queued' \cup {m}
      /\ QueueFits' /\ SocketFits' /\ TaskIsFit'
    BY <1>0, <1>1, DeliveredCounts
<1>4. SendsInOrder' /\ StillToSend' = StillToSend
    BY <1>0, DeliveredInOrder
<1>5. \A n : (Begun(n)' <=> Begun(n)) /\ (InSocket(n)' <=> InSocket(n)) /\ PagesOf(n)' = PagesOf(n)
    BY <1>0 DEF Begun, InSocket, PagesOf
<1>6. announced \notin StillToSend
  <2>1. announced <= asked /\ announced \in Int /\ asked \in Int
      BY CountTypes
  <2>2. \A i \in DOMAIN events : events[i].topic = "send" => announced < events[i].req
      BY DEF CountInv, SendsInOrder
  <2>3. \A i \in DOMAIN events : events[i].topic = "send" => events[i].req \in Int
      BY CountTypes, EventFields DEF Requests
  <2> QED
      BY <2>1, <2>2, <2>3 DEF StillToSend
<1>7. OnlyBegun'
  <2>1. \A p \in sidebar'.list : p \in s.list \/ p \in m.pages
      BY <1>1
  <2>2. \A p \in sidebar'.list : Begun(p[1]) /\ p[1] \notin StillToSend /\ p \in PagesOf(p[1])
      BY <1>1, <1>6, <2>1 DEF CountInv, OnlyBegun
  <2> QED
      BY <1>3, <1>4, <1>5, <2>2 DEF CountInv, OnlyBegun
<1>8. PagesKnown' /\ UpFresh'
    BY <1>0, <1>5 DEF CountInv, PagesKnown, UpFresh
<1>9. announced' # 0 /\ (m.done \/ m.failed) => Silent'
  <2>1. SUFFICES ASSUME m.done \/ m.failed PROVE Silent'
      OBVIOUS
  <2>2. ASSUME NEW x \in Queued' PROVE x.req # announced
    <3>1. PICK i \in DOMAIN events' : events'[i].topic = "buildings" /\ events'[i].msg = x
        BY <2>2 DEF Queued, Msgs, Entries
    <3>2. PICK j \in DOMAIN events : j # 1 /\ events[j] = events'[i]
        BY <3>1, Delivery, DeliveredFrom
    <3>3. Fits(area, x, Msgs(Before(events, j)), s.list)
        BY <3>1, <3>2 DEF CountInv, QueueFits
    <3>4. m \in Msgs(Before(events, j))
      <4>1. e = events[1] /\ 1 \in 1 .. (j - 1) /\ e \in Event
          BY <1>0, <3>2, CountTypes, Advanced
      <4>2. e \in Before(events, j) /\ m \in Message
          BY <1>0, <4>1, EventFields DEF Before
      <4> QED
          BY <1>0, <4>2 DEF Msgs
    <3> QED
        BY <1>1, <2>1, <3>3, <3>4 DEF Fits, Unended
  <2>3. ASSUME announced = current PROVE Mine(Entries(down), current) = {}
    <3>1. ASSUME NEW i \in DOMAIN down, down[i].type = "buildings", down[i].req = current PROVE FALSE
      <4>1. Fits(area, down[i], Queued \cup Mine(Before(down, i), current), s.list)
          BY <3>1 DEF CountInv, SocketFits
      <4> QED
          BY <1>1, <2>1, <2>3, <3>1, <4>1 DEF Fits, Unended
    <3> QED
        BY <3>1 DEF Mine, Entries
  <2>4. ASSUME announced = current PROVE ~Running(<<current, "buildings">>)
    <3>1. ASSUME Running(<<current, "buildings">>) PROVE FALSE
      <4>1. TaskFits(current, page[current], Coming, s.list)
          BY <1>1, <2>4, <3>1 DEF CountInv, TaskIsFit
      <4> QED
          BY <1>1, <2>1, <2>4, <4>1 DEF TaskFits, Unended, Coming
    <3> QED
        BY <3>1
  <2> QED
      BY <1>0, <1>1, <1>5, <2>2, <2>3, <2>4 DEF Silent, Running
<1>10. CASE m.failed
  <2>1. /\ sidebar'.list = s.list /\ sidebar'.loading = s.loading /\ sidebar'.mark = s.mark
        /\ sidebar'.listed = s.listed /\ sidebar'.error = TRUE
      BY <1>1, <1>2, <1>10 DEF Sidebar
  <2>2. Shown'
      BY <1>0, <1>1, <1>5, <2>1 DEF CountInv, Shown
  <2>3. MapShown'
      BY <1>0, <1>2, <1>10, <2>1 DEF CountInv, MapShown
  <2>4. UNCHANGED Count!countVars
      BY <1>0, <1>4, <1>5, <2>1 DEF Count!countVars
  <2> QED
      BY <1>3, <1>4, <1>7, <1>8, <1>9, <1>10, <2>2, <2>3, <2>4 DEF CountInv
<1>11. CASE ~m.failed
  <2>1. sidebar'.listed /\ ~sidebar'.error /\ (announced = current => overlay' = sidebar'.list)
      BY <1>2, <1>11
  <2>2. MapShown'
      BY <1>0, <2>1 DEF MapShown
  <2>3. CASE m.done
    <3>1. /\ ~sidebar'.loading /\ sidebar'.mark = "final"
          /\ PagesOf(announced) \subseteq s.list /\ sidebar'.list = PagesOf(announced)
        BY <1>2, <1>11, <2>3
    <3>2. Shown'
        BY <1>0, <1>1, <1>5, <2>1, <3>1 DEF Shown
    <3>3. Count!Finish
        BY <1>0, <1>1, <1>4, <1>5, <3>1 DEF Count!Finish
    <3> QED
        BY <1>3, <1>4, <1>7, <1>8, <1>9, <2>2, <2>3, <3>2, <3>3 DEF CountInv, Count!CountNext
  <2>4. CASE ~m.done
    <3>1. /\ sidebar'.loading /\ sidebar'.mark = "loading"
          /\ sidebar'.list \subseteq PagesOf(announced)
          /\ s.list \cap PagesOf(announced) \subseteq sidebar'.list
        BY <1>2, <1>11, <2>4
    <3>2. Shown'
        BY <1>0, <1>1, <1>5, <2>1, <3>1 DEF Shown
    <3>3. ~Over'
        BY <2>1, <3>1 DEF Over
    <3>4. Count!Gather
        BY <1>0, <1>1, <1>4, <1>5, <3>1 DEF Count!Gather
    <3> QED
        BY <1>3, <1>4, <1>7, <1>8, <2>2, <3>2, <3>3, <3>4 DEF CountInv, Count!CountNext
  <2> QED
      BY <2>3, <2>4
<1> QED
    BY <1>10, <1>11

(* The other deliveries leave the list alone.                              *)
LEMMA OtherDeliveriesCount ==
    ASSUME TypeInv, AnswerInv, CountInv, Deliver, Head(events).topic # "buildings"
    PROVE  CountInv' /\ [Count!CountNext]_(Count!countVars)
<1> DEFINE e == Head(events)
           s == sidebar
<1>0. /\ DeliverSend(e) \/ DeliverNoItems(e) \/ DeliverAnswer(e) \/ DeliverBounds(e)
      /\ UNCHANGED <<asked, current, area, overlay, up, down, task, page>>
      /\ s \in Sidebar /\ s.loading \in BOOLEAN /\ s.error \in BOOLEAN
      /\ s.mark \in {"loading", "final", "error"}
      /\ e \in Event
    BY Delivery, CountTypes
       DEF Deliver, DeliverSend, DeliverNoItems, DeliverBuildings, DeliverAnswer, DeliverBounds,
           server, Sidebar
<1>1. sidebar'.list = s.list /\ sidebar'.listed = s.listed
    BY <1>0 DEF DeliverSend, DeliverNoItems, DeliverAnswer, DeliverBounds, ResetSidebar,
       UpdateStats, Sidebar
<1>2. Queued' = Queued /\ QueueFits' /\ SocketFits' /\ TaskIsFit'
    BY <1>1, DeliveredCounts
<1>3. /\ SendsInOrder'
      /\ StillToSend' = IF e.topic = "send" THEN StillToSend \ {e.req} ELSE StillToSend
      /\ e.topic = "send" => e.req \in StillToSend
    BY DeliveredInOrder
<1>4. \A n : (Begun(n)' <=> Begun(n)) /\ (InSocket(n)' <=> InSocket(n)) /\ PagesOf(n)' = PagesOf(n)
    BY <1>0 DEF Begun, InSocket, PagesOf
<1>5. OnlyBegun'
    BY <1>1, <1>2, <1>3, <1>4 DEF CountInv, OnlyBegun
<1>6. PagesKnown' /\ UpFresh'
    BY <1>0, <1>4 DEF CountInv, PagesKnown, UpFresh
<1>7. CASE DeliverSend(e)
  <2>1. /\ sidebar'.loading = TRUE /\ sidebar'.error = FALSE /\ sidebar'.mark = "loading"
        /\ announced' = e.req /\ e.topic = "send" /\ e.req \in Requests /\ e.req # 0
      BY <1>0, <1>7, EventFields DEF DeliverSend, ResetSidebar, Mark, Sidebar, Requests
  <2>2. \A p \in s.list : p[1] # e.req
      BY <1>3, <2>1 DEF CountInv, OnlyBegun
  <2>3. Shown' /\ MapShown' /\ ~Over'
      BY <1>1, <2>1, <2>2 DEF CountInv, Shown, MapShown, Over
  <2>4. Count!TakeUp(e.req)
      BY <1>0, <1>1, <1>3, <1>4, <2>1 DEF Count!TakeUp
  <2> QED
      BY <1>2, <1>3, <1>5, <1>6, <2>1, <2>3, <2>4 DEF CountInv, Count!CountNext
<1>8. CASE DeliverNoItems(e)
  <2>1. /\ sidebar'.loading = FALSE /\ sidebar'.error = FALSE /\ sidebar'.mark = "final"
        /\ announced' = 0 /\ e.topic = "no_items"
      BY <1>0, <1>8 DEF DeliverNoItems, ResetSidebar, Mark, Sidebar
  <2>2. \A p \in s.list : p[1] # 0
      BY <1>0 DEF Sidebar, Pages, Requests
  <2>3. Shown' /\ MapShown'
      BY <1>1, <2>1, <2>2 DEF CountInv, Shown, MapShown
  <2>4. Count!Clear
      BY <1>0, <1>1, <1>3, <1>4, <2>1 DEF Count!Clear
  <2> QED
      BY <1>2, <1>3, <1>5, <1>6, <2>1, <2>3, <2>4 DEF CountInv, Count!CountNext
<1>9. ASSUME DeliverAnswer(e) \/ DeliverBounds(e)
      PROVE  /\ sidebar'.loading = s.loading /\ sidebar'.error = s.error
             /\ announced' = announced /\ e.topic # "send"
             /\ IF DeliverBounds(e) /\ s.error THEN sidebar'.mark = "error"
                ELSE sidebar'.mark = s.mark
  <2>1. CASE DeliverAnswer(e)
      BY <1>0, <2>1 DEF DeliverAnswer, DeliverBounds, Sidebar
  <2>2. CASE DeliverBounds(e)
    <3>1. sidebar' = UpdateStats(s, slider'.passes) /\ announced' = announced /\ e.topic # "send"
        BY <2>2 DEF DeliverBounds
    <3>2. sidebar'.loading = s.loading /\ sidebar'.error = s.error
        BY <1>0, <3>1 DEF UpdateStats, Sidebar
    <3>3. CASE s.error
        BY <1>0, <2>2, <3>1, <3>2, <3>3 DEF UpdateStats, Sidebar
    <3>4. CASE ~s.error
      <4>1. s.mark = Mark(s.loading)
          BY <1>0, <3>4 DEF CountInv, Shown, Mark
      <4>2. sidebar'.mark = s.mark
          BY <1>0, <3>1, <3>4, <4>1 DEF UpdateStats, Sidebar
      <4> QED
          BY <3>1, <3>2, <3>4, <4>2
    <3> QED
        BY <3>3, <3>4
  <2> QED
      BY <1>9, <2>1, <2>2
<1>10. CASE DeliverAnswer(e) \/ DeliverBounds(e)
  <2>1. /\ sidebar'.loading = s.loading /\ sidebar'.error = s.error
        /\ announced' = announced /\ e.topic # "send"
        /\ sidebar'.mark = s.mark \/ (s.error /\ sidebar'.mark = "error")
      BY <1>9, <1>10
  <2>2. Shown' /\ MapShown' /\ (Over' <=> Over)
      BY <1>0, <1>1, <1>4, <2>1 DEF CountInv, Shown, MapShown, Over
  <2>3. announced' # 0 /\ Over' => Silent'
      BY <1>0, <1>2, <1>4, <2>1, <2>2 DEF CountInv, Silent, Running
  <2>4. CASE sidebar'.mark = s.mark
    <3>1. UNCHANGED Count!countVars
        BY <1>1, <1>3, <1>4, <2>1, <2>4 DEF Count!countVars
    <3> QED
        BY <1>2, <1>3, <1>5, <1>6, <2>2, <2>3, <3>1 DEF CountInv
  <2>5. CASE sidebar'.mark # s.mark
    <3>1. s.error /\ s.mark = "loading" /\ sidebar'.mark = "error" /\ announced # 0
        BY <1>0, <2>1, <2>5 DEF CountInv, Shown
    <3>2. Count!GiveUp
        BY <1>1, <1>3, <1>4, <2>1, <3>1 DEF Count!GiveUp
    <3> QED
        BY <1>2, <1>3, <1>5, <1>6, <2>2, <2>3, <3>2 DEF CountInv, Count!CountNext
  <2> QED
      BY <2>4, <2>5
<1> QED
    BY <1>0, <1>7, <1>8, <1>10

-----------------------------------------------------------------------------
(* The results.                                                            *)

(* The page as it is opened has the invariant, and maps to an initial      *)
(* state of AreaCount.                                                     *)
LEMMA CountInit ==
    ASSUME WholePages, Init
    PROVE  CountInv /\ Count!CountInit
<1>0. /\ events = <<>> /\ up = <<>> /\ down = <<>>
      /\ asked = 0 /\ current = 0 /\ announced = 0
      /\ sidebar.list = {} /\ ~sidebar.loading /\ ~sidebar.error /\ sidebar.mark = "final"
      /\ \A n \in Requests : area[n].pages = 0 /\ area[n].source = "msft" /\ page[n] = 0
      /\ DOMAIN events = {} /\ DOMAIN up = {} /\ DOMAIN down = {} /\ Len(events) = 0
    BY DEF Init
<1>1. Queued = {}
    BY <1>0 DEF Queued, Msgs, Entries
<1>2. PagesKnown /\ UpFresh /\ OnlyBegun /\ SendsInOrder
    BY <1>0, <1>1 DEF PagesKnown, UpFresh, OnlyBegun, SendsInOrder, InSocket
<1>3. QueueFits /\ SocketFits /\ TaskIsFit
    BY <1>0 DEF QueueFits, SocketFits, TaskIsFit
<1>4. Shown /\ MapShown
    BY <1>0 DEF Shown, MapShown
<1>5. StillToSend = Requests
    BY <1>0 DEF StillToSend, Requests
<1>6. [n \in Requests |-> PagesOf(n)] \in [Requests -> {{}}]
    BY <1>0 DEF PagesOf
<1> QED
    BY <1>0, <1>2, <1>3, <1>4, <1>5, <1>6 DEF CountInv, Count!CountInit

(* Every step keeps the invariant, and maps to a step of AreaCount or to   *)
(* none.                                                                   *)
LEMMA CountStep ==
    ASSUME WholePages, TypeInv, AnswerInv, CountInv, [Next]_vars
    PROVE  CountInv' /\ [Count!CountNext]_(Count!countVars)
<1>1. CASE SelectArea \/ SelectNothing
    BY <1>1, SelectionCounts DEF Count!CountNext
<1>2. CASE Deliver
  <2>1. CASE Head(events).topic = "buildings"
      BY <1>2, <2>1, DeliverBuildingsCounts
         DEF Deliver, DeliverSend, DeliverNoItems, DeliverAnswer, DeliverBounds
  <2>2. CASE Head(events).topic # "buildings"
      BY <1>2, <2>2, OtherDeliveriesCount
  <2> QED
      BY <2>1, <2>2
<1>3. CASE OnMessage
  <2>1. CountInv'
      BY <1>3, OnMessageCounts
  <2>2. UNCHANGED <<asked, area, sidebar, announced>> /\ StillToSend' = StillToSend
    <3>1. UNCHANGED <<asked, area, sidebar, announced>>
        BY <1>3 DEF OnMessage
    <3>2. CASE UNCHANGED events
        BY <3>1, <3>2 DEF StillToSend
    <3>3. CASE ~UNCHANGED events
      <4> DEFINE e == [topic |-> Head(down).type, msg |-> Head(down)]
      <4>1. /\ Publish(e) /\ Head(down).type # "error" /\ Head(down) \in Message
          BY <1>3, <3>3, Advanced, CountTypes DEF OnMessage
      <4>2. \A i \in DOMAIN events' : (i \in DOMAIN events /\ events'[i] = events[i]) \/ events'[i] = e
          BY <4>1, CountTypes DEF Publish
      <4>3. \A i \in DOMAIN events : i \in DOMAIN events' /\ events'[i] = events[i]
          BY <4>1, CountTypes DEF Publish
      <4>4. e.topic # "send"
          BY <4>1, MessageFields
      <4> QED
          BY <3>1, <4>2, <4>3, <4>4 DEF StillToSend
    <3> QED
        BY <3>1, <3>2, <3>3
  <2> QED
      BY <2>1, <2>2 DEF Count!countVars, PagesOf
<1>4. ASSUME UNCHANGED <<asked, area, sidebar, announced, events>> PROVE UNCHANGED Count!countVars
    BY <1>4 DEF Count!countVars, PagesOf, StillToSend
<1>5. CASE HandleRequest
    BY <1>4, <1>5, HandleRequestCounts DEF HandleRequest, browser
<1>6. CASE HandleInvalid
    BY <1>4, <1>6, HandleInvalidCounts DEF HandleInvalid, browser
<1>7. CASE HandleRaises \/ Disconnect
  <2>1. HangUp
      BY <1>7 DEF HandleRaises, Disconnect
  <2> QED
      BY <1>4, <2>1, HangUpCounts DEF HangUp
<1>8. ASSUME NEW n \in Requests, SendPage(n)
      PROVE  CountInv' /\ UNCHANGED Count!countVars
    BY <1>4, <1>8, SendPageCounts DEF SendPage, browser
<1>9. ASSUME NEW n \in Requests PROVE ~QueryFails(n) /\ ~SendOSM(n)
    BY DEF QueryFails, SendOSM, WholePages, CountInv, PagesKnown
<1>10. ASSUME NEW n \in Requests, SendAnswer(n)
       PROVE  CountInv' /\ UNCHANGED Count!countVars
  <2> DEFINE t == <<n, "answer">>
  <2>1. t \in Tasks /\ Running(t) /\ Send(t, {}, TRUE, FALSE) /\ End(t)
        /\ t[2] # "buildings" /\ UNCHANGED <<browser, up, page>>
      BY <1>10 DEF SendAnswer, Running
  <2>2. UNCHANGED <<asked, area, sidebar, announced, events>>
      BY <2>1 DEF browser
  <2> HIDE DEF t
  <2> QED
      BY <1>4, <2>1, <2>2, LastSendCounts
<1>11. ASSUME NEW t \in Tasks, TimeOut(t) PROVE CountInv' /\ UNCHANGED Count!countVars
    BY <1>4, <1>11, LastSendCounts DEF TimeOut, browser
<1>12. ASSUME NEW t \in Tasks, TaskFails(t) \/ Terminate(t)
       PROVE  CountInv' /\ UNCHANGED Count!countVars
    BY <1>4, <1>12, SilentEndCounts DEF TaskFails, Terminate, browser
<1>13. ASSUME Connect \/ Open \/ UNCHANGED vars PROVE CountInv' /\ UNCHANGED Count!countVars
  <2>1. UNCHANGED <<asked, current, area, events, sidebar, overlay, announced, up, down, task, page>>
      BY <1>13 DEF Connect, Open, vars, browser, server
  <2>2. /\ \A n : (Begun(n)' <=> Begun(n)) /\ (InSocket(n)' <=> InSocket(n))
        /\ PagesKnown' /\ UpFresh' /\ SocketFits' /\ TaskIsFit'
      BY <2>1 DEF Begun, InSocket, CountInv, PagesKnown, UpFresh, SocketFits, TaskIsFit, Queued,
         Coming, Running
  <2>3. announced # 0 /\ announced = current /\ Over
            => /\ Mine(Entries(down'), current) = {}
               /\ ~Running(<<current, "buildings">>)'
      BY <2>1 DEF CountInv, Silent, Running
  <2>4. \A n \in Requests : InSocket(n)' => Begun(n)'
      BY <2>2 DEF CountInv, OnlyBegun
  <2> QED
      BY <1>4, <2>1, <2>2, <2>3, <2>4, ServerCounts
<1> QED
    BY <1>1, <1>2, <1>3, <1>5, <1>6, <1>7, <1>8, <1>9, <1>10, <1>11, <1>12, <1>13 DEF Next

(* The invariant holds throughout, with the two it rests on.               *)
LEMMA CountInvariant ==
    ASSUME WholePages
    PROVE  Spec => [](TypeInv /\ AnswerInv /\ CountInv)
<1>1. Init => TypeInv /\ AnswerInv /\ CountInv
  <2>1. Init => TypeInv
      BY InitType, BoundsAssumption
  <2>2. Init => AnswerInv
      BY DEF Init, AnswerInv, AnswerIsOfTheArea, OnServer
  <2> QED
      BY <2>1, <2>2, CountInit
<1>2. TypeInv /\ AnswerInv /\ CountInv /\ [Next]_vars => (TypeInv /\ AnswerInv /\ CountInv)'
    BY NextType, AnswerStep, CountStep, BoundsAssumption, KindsAssumption
<1> QED
    BY <1>1, <1>2, PTL DEF Spec

(* A count without its loading mark is over all the buildings of the area  *)
(* the sidebar was reset for, whatever is lost, late or left running.      *)
THEOREM FinalListsAreExact ==
    ASSUME WholePages
    PROVE  Spec => []FinalListIsExact
<1>1. TypeInv /\ CountInv => FinalListIsExact
    BY DEF CountInv, Shown, FinalListIsExact
<1> QED
    BY <1>1, CountInvariant, PTL

(* The map then holds the buildings of the list.                           *)
THEOREM MapsHoldTheList ==
    ASSUME WholePages
    PROVE  Spec => []MapHoldsTheList
<1>1. TypeInv /\ CountInv => MapHoldsTheList
    BY DEF CountInv, Shown, MapShown, MapHoldsTheList
<1> QED
    BY <1>1, CountInvariant, PTL

(* The evaluator implements AreaCount: each request is taken up once, the  *)
(* buildings gathered for it are its own and none is lost again, and a     *)
(* count that is final or in error stays so until the sidebar is reset.    *)
THEOREM EvaluatorImplementsAreaCount ==
    ASSUME WholePages
    PROVE  Spec => ImplementsAreaCount
<1>1. Init => Count!CountInit
    BY CountInit
<1>2. TypeInv /\ AnswerInv /\ CountInv /\ [Next]_vars => [Count!CountNext]_(Count!countVars)
    BY CountStep
<1> QED
    BY <1>1, <1>2, CountInvariant, PTL DEF Spec, ImplementsAreaCount, Count!CountSpec
=============================================================================
