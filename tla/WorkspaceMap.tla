---------------------------- MODULE WorkspaceMap ----------------------------
(***************************************************************************)
(* The network editor's features: a tower, customers (CPEs) and the links  *)
(* between them, on the map and on the server.  Every change on the map is *)
(* an AJAX request of its own, handlers run when the replies come in, and  *)
(* most of them change the map and send further requests.  Deleting a row  *)
(* cascades on the server; the page repeats the cascade feature by feature.*)
(*                                                                         *)
(* A handler that reads a property of something that is not there throws:  *)
(* what it did before stays done and the rest of it is not.                *)
(***************************************************************************)
EXTENDS Integers, Sequences, FiniteSets, SequencesExt

CONSTANTS Customers, Tower,
          Weathers,    \* what may happen together, see Weather
          MaxEdits     \* bound on what the user does

LinkTo(c) == <<"link", c>>
LinksTo(S) == {LinkTo(c) : c \in S}
Features  == {Tower} \cup Customers \cup LinksTo(Customers)

\* What may happen: the user adds or deletes before the replies to the last edit
\* are in, or deletes several features at once; requests overtake each other or
\* fail; rows are deleted by the tables' views.
Weather == {"hasty", "several", "overtake", "fail", "table"}

ASSUME WeathersAssumption == Weathers \subseteq SUBSET Weather
ASSUME CustomersAssumption == Tower \notin Customers /\ MaxEdits \in Nat

VARIABLES
    weather, \* which of these may happen
    map,     \* the page, see MapInit
    rows,    \* the features the database has
    edits    \* number of edits of the user

mapVars == <<weather, map, rows, edits>>

MapOf(S) == [drawn |-> S,        \* Mapbox Draw's features
             saved |-> S,        \* those with a uuid
             known |-> S,        \* BaseWorkspaceManager.features
             links |-> SetToSeq(S \cap Customers), \* AccessPoint.links, in insertion order
             ap    |-> S \cap Customers,           \* customers with CPE.ap set
             previous |-> S,     \* previousState
             ajax  |-> <<>>,     \* requests and replies on their way
             thrown |-> FALSE]

MapInit == \E S \in SUBSET Customers :
    /\ weather \in Weathers
    /\ rows = {Tower} \cup S \cup LinksTo(S)
    /\ map = MapOf(rows)
    /\ edits = 0

------------------------------------------------------------------------------
(* The page's operations, from page to page *)

Throw(p) == [p EXCEPT !.thrown = TRUE]

\* The next statement, given the page that the ones before have left.
Then(p, Statement(_)) == IF p.thrown THEN p ELSE Statement(p)

Need(p, condition) == IF p.thrown \/ condition THEN p ELSE Throw(p)

\* A request; back: what its error handler puts back; managed: whether the
\* manager's success handler is called.
Send(p, op, f, back, managed) ==
    [p EXCEPT !.ajax = Append(@, [op |-> op, feature |-> f, back |-> back,
                                  managed |-> managed, reply |-> "none"])]

Erase(p, S) == [p EXCEPT !.drawn = @ \ S]

AcceptNewState(p) == [p EXCEPT !.previous = p.drawn]

Forget(p, f) == AcceptNewState([p EXCEPT !.known = @ \ {f}])

RevertOperation_Unchecked(p, back) == [p EXCEPT !.drawn = @ \cup back]

RevertOperation(p, back) == [p EXCEPT !.drawn = @ \cup (back \cap p.previous)]

\* drawDeleteCallback: only what has a uuid; a link of a customer or tower that is
\* off the map goes with it on the server.
DeleteLink(p, c, event) ==
    IF LinkTo(c) \notin p.saved THEN p
    ELSE Then(Need(p, LinkTo(c) \in p.known),
              LAMBDA q : IF {Tower, c} \subseteq q.drawn
                         THEN Send(q, "delete", LinkTo(c), event, TRUE)
                         ELSE [q EXCEPT !.known = @ \ {LinkTo(c)}])

DeleteCpe(p, c, event) ==
    IF c \notin p.saved THEN p
    ELSE Then(Need(p, c \in p.known), LAMBDA q : Send(q, "delete", c, event, TRUE))

\* AccessPoint.delete for one of its links: draw.delete is fired for both features.
DeleteCascade(p, c) ==
    LET event == {LinkTo(c), c}
        q == Erase([p EXCEPT !.ap = @ \ {c}], event)
    IN  IF LinkTo(c) \notin p.drawn THEN q
        ELSE Then(Then(Need(q, c \in p.drawn), LAMBDA r : DeleteLink(r, c, event)),
                  LAMBDA r : DeleteCpe(r, c, event))

DeleteTower(p, managed) ==
    Then(FoldLeft(LAMBDA q, c : Then(q, LAMBDA r : DeleteCascade(r, c)), p, p.links),
         LAMBDA q : Send([q EXCEPT !.links = <<>>], "delete", Tower, {}, managed))

\* Links before the tower before customers.
DrawDelete(p, event) ==
    LET Strands(q) == FoldLeft(LAMBDA r, c : Then(r, LAMBDA t : DeleteLink(t, c, event)), q,
                             SetToSeq({c \in Customers : LinkTo(c) \in event}))
        Towers(q) == IF Tower \notin event THEN q
                     ELSE Then(Need(q, Tower \in q.known), LAMBDA t : DeleteTower(t, TRUE))
        Cpes(q) == FoldLeft(LAMBDA r, c : Then(r, LAMBDA t : DeleteCpe(t, c, event)), q,
                            SetToSeq(Customers \cap event))
    IN  Cpes(Towers(Strands(p)))

\* moveVertex: the link's feature is changed and draw.update fired for it.
MoveLink(p, c) ==
    Then(Need(p, LinkTo(c) \in p.drawn /\ (LinkTo(c) \in p.saved => LinkTo(c) \in p.known)),
         LAMBDA q : IF LinkTo(c) \in q.saved
                    THEN Send(q, "update", LinkTo(c), {LinkTo(c)}, TRUE) ELSE q)

MoveLinks(p) == FoldLeft(MoveLink, p, p.links)

\* drawUpdateCallback: a customer's new address is looked up first.
DrawUpdate(p, f) ==
    IF f \notin p.saved THEN p
    ELSE Send(p, IF f \in Customers THEN "geocode" ELSE "update", f, {f}, TRUE)

\* CPE.linkAP, AccessPoint.linkCPE and the request for the new link.
LinkAP(p, c) ==
    Then(Need(p, Tower \in p.known \cap p.drawn),
         LAMBDA q : Send(DrawUpdate([q EXCEPT !.ap = @ \cup {c}, !.links = Append(@, c),
                                              !.drawn = @ \cup {LinkTo(c)}], c),
                         "create", LinkTo(c), {}, TRUE))

------------------------------------------------------------------------------
(* Replies *)

Created(p, f) ==
    Then(Need(p, f \in p.drawn),
         LAMBDA q : LET r == AcceptNewState([q EXCEPT !.saved = @ \cup {f},
                                                      !.known = @ \cup {f}])
                    IN  IF f \in Customers THEN LinkAP(r, f) ELSE r)

Read(p, f) ==   \* of the tower: setCoordinates moves it to where it is
    Then(Need(p, f \in p.drawn), LAMBDA q : MoveLinks(DrawUpdate(q, f)))

Updated_ReadAgain(p, f) ==
    Then(Need(p, f \in p.drawn), LAMBDA q : Then(DrawUpdate(q, f), AcceptNewState))

Updated(p, f) ==
    Then(Need(p, f \in p.drawn),
         LAMBDA q : Then(IF f = Tower THEN MoveLinks(q) ELSE q, AcceptNewState))

Geocoded(p, f) ==
    Then(Need(p, f \in p.drawn),
         LAMBDA q : Then(IF f \in q.ap /\ f \in Range(q.links) THEN MoveLink(q, f) ELSE q,
                         LAMBDA r : Send(r, "update", f, {f}, TRUE)))

\* CPE.delete: the link of a customer that has a tower goes too.
DeletedCpe(p, c) ==
    IF c \notin p.ap THEN p
    ELSE Then(Need(p, c \in Range(p.links)),
              LAMBDA q :
                LET r == [q EXCEPT !.links = SelectSeq(@, LAMBDA d : d # c), !.ap = @ \ {c}]
                IN  IF LinkTo(c) \in r.drawn
                    THEN DeleteLink(Erase(r, {LinkTo(c)}), c, {LinkTo(c)}) ELSE r)

\* APToCPELink.delete: its customer goes too.
DeletedLink(p, c) ==
    Then(Need([p EXCEPT !.ap = @ \ {c}, !.links = SelectSeq(@, LAMBDA d : d # c)],
              c \in p.drawn),
         LAMBDA q : DeleteCpe(Erase(q, {c}), c, {c}))

Deleted(p, r) ==
    LET f == r.feature
        q == Erase(p, {f})
    IN  Then(CASE f = Tower         -> q
               [] f \in Customers   -> DeletedCpe(q, f)
               [] OTHER             -> DeletedLink(q, f[2]),
             LAMBDA s : IF r.managed THEN Forget(s, f) ELSE s)

\* The handlers of done and fail.  A DELETE that fails is taken for one that
\* was done, unless there was nothing to delete.
Replied(p, r) ==
    CASE r.reply = "ok" ->
           (CASE r.op = "create"  -> Created(p, r.feature)
              [] r.op = "read"    -> Read(p, r.feature)
              [] r.op = "update"  -> Updated(p, r.feature)
              [] r.op = "geocode" -> Geocoded(p, r.feature)
              [] r.op = "delete"  -> Deleted(p, r))
      [] r.op = "create" -> Erase(p, {r.feature})
      [] r.op = "read"   -> IF r.reply = "missing" THEN DeleteTower(p, FALSE) ELSE p
      [] r.op = "delete" /\ r.reply = "failed" -> Deleted(p, r)
      [] OTHER           -> RevertOperation(p, r.back)

\* What a handler leaves behind, whether it came to its end or not.
Handled(p) == map' = [p EXCEPT !.thrown = FALSE]

------------------------------------------------------------------------------
(* The user *)

MayMove == edits < MaxEdits

MayEdit == MayMove /\ ("hasty" \in weather \/ map.ajax = <<>>)

\* The customer popup draws a customer and links it to the tower.
AddCustomer(c) ==
    /\ MayEdit /\ edits' = edits + 1
    /\ Tower \in map.drawn
    /\ c \notin rows \cup map.drawn \cup map.known
    /\ Handled(Send([map EXCEPT !.drawn = @ \cup {c}], "create", c, {}, TRUE))
    /\ UNCHANGED <<weather, rows>>

\* The delete control takes the selected features, or all of them, off the map and
\* fires draw.delete.
DeleteSelected(S) ==
    /\ MayEdit /\ edits' = edits + 1
    /\ S # {} /\ S \subseteq map.drawn
    /\ Cardinality(S) = 1 \/ S = map.drawn \/ "several" \in weather
    /\ Handled(DrawDelete(Erase(map, S), S))
    /\ UNCHANGED <<weather, rows>>

\* The tower's popup fires draw.delete and leaves the tower where it is.
DeleteFromPopup ==
    /\ MayEdit /\ edits' = edits + 1
    /\ Tower \in map.drawn
    /\ Handled(DrawDelete(map, {Tower}))
    /\ UNCHANGED <<weather, rows>>

Drag(f) ==
    /\ MayMove /\ edits' = edits + 1
    /\ f \in map.drawn /\ f \in Customers \cup {Tower}
    /\ Handled(Then(Need(map, f \in map.saved => f \in map.known), LAMBDA p : DrawUpdate(p, f)))
    /\ UNCHANGED <<weather, rows>>

\* The tower is read again: a form has saved it, or its popup adds a sector.
Refresh ==
    /\ MayMove /\ edits' = edits + 1
    /\ Tower \in map.known
    /\ Handled(Send(map, "read", Tower, {}, FALSE))
    /\ UNCHANGED <<weather, rows>>

Cascade(f) == IF f = Tower THEN Features
              ELSE IF f \in Customers THEN {f, LinkTo(f)} ELSE {f}

\* The tower is deleted by its form, and then on the map; or by another page.
DeleteForm ==
    /\ MayEdit /\ "table" \in weather /\ edits' = edits + 1
    /\ Tower \in rows
    /\ rows' = rows \ Cascade(Tower)
    /\ \/ Tower \in map.known /\ Handled(DeleteTower(map, FALSE))
       \/ UNCHANGED map
    /\ UNCHANGED weather

------------------------------------------------------------------------------
(* The server, and the replies' arrival *)

Valid(f) == Tower \in rows /\ (f \in Customers \/ f[2] \in rows)

\* The first request that has no reply, or any other when they overtake.
Turn(i, waiting(_)) ==
    /\ waiting(map.ajax[i])
    /\ "overtake" \in weather \/ \A j \in 1 .. i - 1 : ~waiting(map.ajax[j])

Serve(i) ==
    LET r == map.ajax[i]
        Answer(reply) == map' = [map EXCEPT !.ajax[i].reply = reply]
    IN  /\ Turn(i, LAMBDA q : q.reply = "none")
        /\ \/ /\ r.op = "create"
              /\ rows' = IF Valid(r.feature) THEN rows \cup {r.feature} ELSE rows
              /\ Answer(IF Valid(r.feature) THEN "ok" ELSE "failed")
           \/ /\ r.op = "delete" /\ r.feature \in rows
              /\ rows' = rows \ Cascade(r.feature)
              /\ Answer("ok")
           \/ /\ r.op = "geocode" \/ (r.op \in {"read", "update"} /\ r.feature \in rows)
              /\ Answer("ok")
              /\ UNCHANGED rows
           \/ /\ r.op \in {"read", "update", "delete"} /\ r.feature \notin rows
              /\ Answer("missing")
              /\ UNCHANGED rows
           \/ /\ "fail" \in weather
              /\ Answer("failed")
              /\ UNCHANGED rows
        /\ UNCHANGED <<weather, edits>>

Receive(i) ==
    /\ Turn(i, LAMBDA q : TRUE)
    /\ map.ajax[i].reply # "none"
    /\ Handled(Replied([map EXCEPT !.ajax = RemoveAt(@, i)], map.ajax[i]))
    /\ UNCHANGED <<weather, rows, edits>>

MapUser ==
    \/ \E c \in Customers : AddCustomer(c)
    \/ \E S \in SUBSET map.drawn : DeleteSelected(S)
    \/ \E f \in map.drawn : Drag(f)
    \/ DeleteFromPopup \/ Refresh \/ DeleteForm

MapSystem == \E i \in 1 .. Len(map.ajax) : Serve(i) \/ Receive(i)

MapNext == MapUser \/ MapSystem

MapSpec == MapInit /\ [][MapNext]_mapVars

MapFairness == WF_mapVars(MapSystem)

FairMapSpec == MapSpec /\ MapFairness

------------------------------------------------------------------------------
(* Properties *)

AtRest == map.ajax = <<>>

\* A user who adds and deletes only when the page has settled, but drags at any
\* time, sees what the database has whenever the page settles again: no feature a
\* cascade has taken stays or is put back by the error handler of a late update, and
\* none that is gone from the map is still a row.
MapShowsTheServer == AtRest /\ weather = {} => map.drawn = rows

\* The page settles: handlers that send requests whose handlers send requests
\* come to an end, whatever is deleted, refused or moved meanwhile.
RequestsEnd == []<>AtRest
=============================================================================
