-------------------------- MODULE CoverageDisplay ---------------------------
(***************************************************************************)
(* How the coverage of sectors reaches the map.  A worker computes a       *)
(* sector's viewshed and then its buildings and says over the socket how   *)
(* far it is; the page answers what it is told with AJAX requests, draws   *)
(* what it holds of the selected sectors, spins over the towers of those   *)
(* being computed and lays the tiles of one viewshed over the map.         *)
(*                                                                         *)
(* SectorCoverage has the worker's statements; here a task is the steps    *)
(* the page can tell apart, and a sector is saved when its last task has   *)
(* ended.  PubSub delivers what the socket brings in the same step.        *)
(***************************************************************************)
EXTENDS Integers, Sequences, SequencesExt

CONSTANTS Sectors,
          Skies       \* what may happen together, see Sky, and a bound on what the user does

\* A task runs before the replies of the save are in; the name alone is saved; AJAX
\* requests overtake each other; tasks fail; the socket closes for a while; sectors
\* are deleted; a selected sector is clicked again or its tower selected with tiles
\* still to come.
Sky == {"swift", "rename", "overtake", "fail", "disconnect", "delete", "restless"}

ASSUME SkiesAssumption == Skies \subseteq (SUBSET Sky) \X Nat

VARIABLES
    sky,
    server,   \* per sector: the version of its parameters, 0 if deleted; its rows; its task
    socket,   \* messages on their way to the page
    display,  \* the page, see PageLoaded
    moves     \* that are left to the user

displayVars == <<sky, server, socket, display, moves>>

Mast == "tower"          \* the tower's own coverage stays empty

ASSUME SectorsAssumption == Mast \notin Sectors

NoCoverage == <<0, 0>>   \* EMPTY_BUILDING_COVERAGE
Listed == 1              \* how far the buildings of a version are judged
Begun  == 2
Judged == 3

PageLoaded ==
    /\ server = [s \in Sectors |-> [version |-> 1, viewshed |-> 1, coverage |-> <<1, Judged>>,
                                    task |-> "none"]]
    /\ socket = <<>>
    /\ display = [known |-> Sectors, drawn |-> Sectors, selected |-> {},
                  held |-> [s \in Sectors |-> NoCoverage],  \* AccessPointSector.coverage
                  shown |-> [s \in Sectors |-> NoCoverage], \* the building source
                  loading |-> {}, spinning |-> {},          \* uuidsLoading and its layer
                  overlay |-> [of |-> {}, version |-> 0, visible |-> FALSE, tiles |-> FALSE],
                  last |-> {},                              \* last_selection
                  ajax |-> <<>>]

DisplayInit ==
    /\ \E day \in Skies : sky = day[1] /\ moves = day[2]
    /\ PageLoaded

------------------------------------------------------------------------------
(* The page *)

Ask(p, op, s) == [p EXCEPT !.ajax = Append(@, [op |-> op, sector |-> s, done |-> FALSE, reply |-> "none"])]

RenderBuildings(p) ==
    [p EXCEPT !.shown = [s \in IF p.selected = {} THEN p.drawn ELSE p.selected \ {Mast} |->
                           IF s \in p.known THEN p.held[s] ELSE NoCoverage]]

SetVisible(p, visible) ==   \* there may be no layer yet
    IF p.overlay.of = {} THEN p ELSE [p EXCEPT !.overlay.visible = visible]

UpdateViewshedImage_Any(p, s, version) ==
    [p EXCEPT !.overlay = [of |-> {s}, version |-> version, visible |-> TRUE, tiles |-> TRUE]]

\* Only when the sector is still selected.
UpdateViewshedImage(p, s, version) ==
    IF s \notin p.selected THEN p
    ELSE [p EXCEPT !.overlay = [of |-> {s}, version |-> version, visible |-> TRUE,
                                tiles |-> TRUE]]

UpdateSpinners_AddOnly(p) == [p EXCEPT !.spinning = @ \cup p.loading]

\* A deleted sector that is still loading: nothing is drawn any more.
UpdateSpinners(p) == IF p.loading \subseteq p.known THEN [p EXCEPT !.spinning = p.loading] ELSE p

AccessPointStatus(p, s) == Ask(p, "coverage", s)

\* The viewshed tool and the renderer, on a selection.  The same one again is taken
\* for a drag; a tower asks for its own coverage, and the overlay goes.
SelectionChange(p, S) ==
    LET again  == S = p.last
        single == \E x \in Sectors : S = {x}
        s == CHOOSE x \in S : TRUE
        Overlay(q) == IF single /\ again THEN SetVisible(q, FALSE)
                      ELSE IF single THEN Ask(q, "overlay", s)
                      ELSE IF Mast \in S /\ ~again THEN SetVisible(q, FALSE) ELSE q
        Buildings(q) == IF again THEN q ELSE RenderBuildings(q)
        Status(q) == IF single THEN AccessPointStatus(q, s) ELSE q
    IN  Status(Buildings(Overlay([p EXCEPT !.selected = S, !.last = S])))

Told_EndUnread(p, m) ==
    CASE m.type = "progress" -> UpdateSpinners([p EXCEPT !.loading = @ \cup {m.sector}])
      [] m.type = "viewshed" -> UpdateViewshedImage(p, m.sector, m.version)
      [] m.type = "status"   -> AccessPointStatus(p, m.sector)
      [] m.type = "complete" -> UpdateSpinners([p EXCEPT !.loading = @ \ {m.sector}])

\* Handlers of the socket's messages.
Told(p, m) ==
    CASE m.type = "progress" ->
           IF m.sector \in p.loading THEN p
           ELSE UpdateSpinners([p EXCEPT !.loading = @ \cup {m.sector}])
      [] m.type = "viewshed" -> UpdateViewshedImage(p, m.sector, m.version)
      [] m.type = "status"   -> AccessPointStatus(p, m.sector)
      [] m.type = "complete" ->
           LET q == AccessPointStatus(p, m.sector)
           IN  IF m.sector \in q.loading
               THEN UpdateSpinners([q EXCEPT !.loading = @ \ {m.sector}]) ELSE q

\* The sector was read after a form has saved it.  Its handlers run first, and draw
\* what onUpdate then forgets.
SectorRead(p, s) ==
    IF s \notin p.drawn THEN p
    ELSE [RenderBuildings(Ask(p, "overlay", s)) EXCEPT !.held[s] = NoCoverage]

Answered(p, r) ==
    CASE r.op \in {"save", "rename"} -> IF r.reply = "ok" THEN Ask(p, "read", r.sector) ELSE p
      [] r.op = "read" -> IF r.reply = "ok" THEN SectorRead(p, r.sector) ELSE p
      [] r.op = "overlay" -> IF r.reply = 0 THEN SetVisible(p, FALSE)
                             ELSE UpdateViewshedImage(p, r.sector, r.reply)
      [] r.op = "coverage" ->
           IF r.reply = NoCoverage THEN p
           ELSE RenderBuildings(IF r.sector \in p.known
                                THEN [p EXCEPT !.held[r.sector] = r.reply] ELSE p)
      [] r.op = "delete" ->
           RenderBuildings([p EXCEPT !.known = @ \ {r.sector}])

\* The viewshed tool, the renderer and the manager, on draw.delete.
SectorDelete(p, s) ==
    LET q == [p EXCEPT !.drawn = @ \ {s}, !.selected = @ \ {s}]
        r == IF s \in q.overlay.of THEN SetVisible(q, FALSE) ELSE q
    IN  Ask(RenderBuildings(r), "delete", s)

------------------------------------------------------------------------------
(* The user *)

UserMoves ==
    /\ moves > 0 /\ moves' = moves - 1
    /\ "restless" \in sky \/ (display.ajax = <<>> /\ ~display.overlay.tiles)
    /\ UNCHANGED <<sky, server, socket>>

Select(S) ==
    /\ UserMoves
    /\ S # display.selected \/ "restless" \in sky
    /\ Mast \in S => S = {Mast} /\ "restless" \in sky
    /\ display' = SelectionChange(display, S)

Saving(s) == \E i \in 1 .. Len(display.ajax) :
    display.ajax[i].sector = s /\ display.ajax[i].op \in {"save", "rename", "read"}

\* The sector's popup posts its form; the name is a form of its own.
Submit(s, form) ==
    /\ UserMoves
    /\ form = "rename" => "rename" \in sky
    /\ s \in display.selected /\ server[s].task = "none" /\ ~Saving(s)
    /\ display' = Ask(display, form, s)

Delete(s) ==
    /\ UserMoves
    /\ "delete" \in sky /\ s \in display.selected
    /\ display' = SectorDelete(display, s)

DisplayUser ==
    \/ \E S \in SUBSET (display.drawn \cup {Mast}) : Select(S)
    \/ \E s \in display.drawn : \E form \in {"save", "rename"} : Submit(s, form)
    \/ \E s \in display.drawn : Delete(s)

------------------------------------------------------------------------------
(* The server *)

Arrive(i, reply) ==
    Answered([display EXCEPT !.ajax = RemoveAt(@, i)], [display.ajax[i] EXCEPT !.reply = reply])

\* The reply is in at once, or waits to be received.
Reply(i, reply) ==
    display' = IF "overtake" \notin sky THEN Arrive(i, reply)
               ELSE [display EXCEPT !.ajax[i].done = TRUE, !.ajax[i].reply = reply]

CoverageOf(s) ==
    IF server[s].coverage[1] = server[s].version THEN server[s].coverage ELSE NoCoverage

Respond(i) ==
    LET op == display.ajax[i].op
        s  == display.ajax[i].sector
        alive == server[s].version > 0
    IN  /\ ~display.ajax[i].done
        /\ i = 1 \/ "overtake" \in sky
        /\ \/ /\ op \in {"save", "rename"} /\ alive
              /\ server' = [server EXCEPT ![s].task = "queued",
                                          ![s].version = IF op = "save" THEN @ + 1 ELSE @]
              /\ Reply(i, "ok")
           \/ /\ op = "delete" /\ alive
              /\ server' = [server EXCEPT ![s] = [version |-> 0, viewshed |-> 0,
                                                  coverage |-> NoCoverage, task |-> "none"]]
              /\ Reply(i, "ok")
           \/ /\ op \in {"save", "rename", "read", "delete"} /\ (op = "read" \/ ~alive)
              /\ Reply(i, IF alive THEN "ok" ELSE "missing")
              /\ UNCHANGED server
           \/ /\ op \in {"coverage", "overlay"}
              /\ Reply(i, IF op = "coverage" THEN CoverageOf(s)
                          ELSE IF server[s].viewshed = server[s].version
                               THEN server[s].version ELSE 0)
              /\ UNCHANGED server
        /\ UNCHANGED <<sky, socket, moves>>

\* One step of the worker: a task at `from`, its messages and rows, and where it goes.
Work(s, from, to, type, row) ==
    /\ server[s].task = from
    /\ server' = [server EXCEPT ![s] = [row EXCEPT !.task = to]]
    /\ socket' = IF type = "none" THEN socket
                 ELSE Append(socket, [type |-> type, sector |-> s,
                                      version |-> server[s].version])
    /\ UNCHANGED <<sky, display, moves>>

Task(s) ==
    LET row == server[s]
        With(level) == [row EXCEPT !.coverage = <<row.version, level>>]
    IN  \/ /\ "swift" \in sky \/ ~Saving(s)
           /\ IF row.viewshed = row.version THEN Work(s, "queued", "none", "none", row)
              ELSE Work(s, "queued", "remade", "none",
                        [row EXCEPT !.viewshed = 0, !.coverage = NoCoverage])
        \/ Work(s, "remade", "viewshed", "progress", [row EXCEPT !.viewshed = row.version])
        \/ Work(s, "viewshed", "nearby", "viewshed", row)
        \/ Work(s, "nearby", "coverage", "status", With(Listed))
        \/ Work(s, "coverage", "judging", "status", With(Begun))
        \/ Work(s, "judging", "none", "complete", With(Judged))
        \/ /\ "fail" \in sky
           /\ \E task \in {"viewshed", "nearby", "coverage", "judging"} :
                 Work(s, task, "none", "progress", row)

------------------------------------------------------------------------------
(* Messages, replies and tiles arrive *)

Hear ==
    /\ socket # <<>>
    /\ socket' = Tail(socket)
    /\ \/ display' = Told(display, Head(socket))
       \/ "disconnect" \in sky /\ UNCHANGED display
    /\ UNCHANGED <<sky, server, moves>>

Receive(i) ==
    /\ display.ajax[i].done
    /\ display' = Arrive(i, display.ajax[i].reply)
    /\ UNCHANGED <<sky, server, socket, moves>>

TilesLoaded ==
    /\ display.overlay.tiles
    /\ display' = SetVisible([display EXCEPT !.overlay.tiles = FALSE], TRUE)
    /\ UNCHANGED <<sky, server, socket, moves>>

DisplaySystem ==
    \/ \E i \in 1 .. Len(display.ajax) : Respond(i) \/ Receive(i)
    \/ \E s \in Sectors : Task(s)
    \/ Hear \/ TilesLoaded

DisplayNext == DisplayUser \/ DisplaySystem

DisplaySpec == DisplayInit /\ [][DisplayNext]_displayVars

------------------------------------------------------------------------------
(* Properties *)

Settled == /\ display.ajax = <<>> /\ socket = <<>> /\ ~display.overlay.tiles
           /\ \A s \in Sectors : server[s].task = "none"

Sole(s) == display.selected = {s} /\ display.last = {s}

\* Once everything has settled, the buildings drawn for the selected sector are those
\* the server has for its present parameters, judged to the last: no early list of them
\* stays, and none of a computation before.
SelectedCoverageIsCurrent ==
    Settled /\ sky \cap {"swift", "rename", "overtake", "fail", "disconnect"} = {} =>
        \A s \in Sectors : Sole(s) => display.shown[s] = CoverageOf(s)

\* Nothing spins when nothing is computed, whatever the order of replies.
SpinnersEnd ==
    Settled /\ sky \cap {"fail", "disconnect", "delete"} = {} =>
        display.loading = {} /\ display.spinning = {}

\* The tiles over the map are the selected sector's, of its last viewshed.
OverlayIsOfTheSelected ==
    Settled /\ sky \cap {"overtake", "fail", "disconnect", "restless"} = {} =>
        \A s \in Sectors : Sole(s) =>
            display.overlay = [of |-> {s}, version |-> server[s].viewshed, visible |-> TRUE,
                               tiles |-> FALSE]
=============================================================================
