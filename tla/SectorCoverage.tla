--------------------------- MODULE SectorCoverage ---------------------------
(***************************************************************************)
(* The coverage pipeline of one access point sector.                       *)
(*                                                                         *)
(* Saving a sector, or the tower it hangs on, sends a Celery task          *)
(* calculateSectorViewshed; a task that gets through sends                 *)
(* calculateSectorNearby.  Tasks of several saves run in several worker    *)
(* processes at once and meet in the sector's two one-to-one rows          *)
(* (Viewshed and AccessPointCoverageBuildings), in the S3 object of the    *)
(* viewshed raster, and in Celery's revocations.                           *)
(*                                                                         *)
(* Every access to the database, to S3 or to the broker is an action of    *)
(* its own; what a task computes between two accesses belongs to the       *)
(* earlier one.  A Django instance is a private copy of a row: it is read  *)
(* whole and saved whole.                                                  *)
(***************************************************************************)
EXTENDS Naturals, FiniteSets

CONSTANTS
    Circles,    \* values of the tower's place, the height, the radius and the customers' height
    Wedges,     \* values of heading and azimuth
    None,       \* an empty hash, a missing object
    MaxTasks,   \* bound: saves of the sector or its tower, the creation included
    Env         \* what the environment of the pipeline may do (a set of Hazards)

(* "overlap": a save may come while tasks of earlier saves are queued or   *)
(* running.  "create": a worker may take the first task before the request *)
(* that creates the sector ends.  "fail": a computation raises.  "crash":  *)
(* a worker process dies.  "delete": the sector is deleted.  "lostwrite":  *)
(* an upload to S3 fails, which writeS3Object only logs.                   *)
Hazards == {"overlap", "create", "fail", "crash", "delete", "lostwrite"}

(* What a sector's coverage depends on.  The viewshed's hash is made of all *)
(* of it, that of the coverage row leaves out where the sector looks.      *)
Params == [circle : Circles, wedge : Wedges]
ViewshedHash(p) == p
CoverageHash(p) == IF p = None THEN None ELSE p.circle

ASSUME ParamsAssumption ==
    Circles # {} /\ Wedges # {} /\ None \notin Params \cup Circles
ASSUME MaxTasksAssumption == MaxTasks \in Nat \ {0}
ASSUME EnvAssumption == Env \subseteq Hazards

Tasks   == 1 .. MaxTasks
Tables  == {"viewshed", "coverage"}
Worker  == Tables \X Tasks       \* <<"viewshed", n>> is the task of the nth save,
Table(x) == x[1]                 \* <<"coverage", n>> the one it sends when done
NoTask  == <<"none", 0>>
User    == <<"user", 0>>
Keys    == Params \cup {None}
Hashes  == Keys \cup Circles

Statuses == {"Started", "Complete"}
Row   == [id : Nat, task : Worker \cup {NoTask}, hash : Hashes, status : Statuses]
Blank(id) == [id |-> id, task |-> NoTask, hash |-> None, status |-> "Started"]
NoRow == Blank(0)

Ended   == {"done", "failed", "killed"}
Compute == {"wtif", "tiles", "list", "load", "judge"}
PC == {"idle", "queued", "lookup", "resave", "check", "cancel", "drop",
       "recreate", "refresh", "read", "register", "claim", "report", "reported",
       "cache", "publish", "send", "clear", "complete", "raise", "raised"}
      \cup Compute \cup Ended

(* The locals of a task: pc, where to go after a subroutine, the table a   *)
(* "try" block works on, the sector it holds in memory, the hash it        *)
(* computes (a coverage task may re-read the sector for it), its row, the  *)
(* copy _update_status reads, the key of the row to delete, the raster.    *)
Local == [pc : PC, then : PC, on : Tables, sector : Keys, key : Hashes, row : Row,
          buf : Row, old : Nat, tif : Keys]
Fresh == [pc |-> "idle", then |-> "idle", on |-> "viewshed", sector |-> None,
          key |-> None, row |-> NoRow, buf |-> NoRow, old |-> 0, tif |-> None]

Building == [by : Tasks, area : Keys, tif : Keys]

VARIABLES
    alive,      \* the sector row exists
    params,     \* its current parameters
    web,        \* the row the request creating the sector makes next, or how it ended
    towerJobs,  \* updateSectors tasks not yet run
    db,         \* the sector's Viewshed row and its coverage row
    nextId,     \* per table, the primary key of the next new row
    tiles,      \* parameters of the ViewshedTile rows of the viewshed row
    buildings,  \* the BuildingCoverage rows of the coverage row
    tif,        \* parameters of the raster stored under the sector's S3 key
    w,          \* locals of each task
    revoked,    \* revoked[b]: who revoked task b
    stamp,      \* history: when a task wrote its id into its row, 0 if not yet
    clock       \* history: registrations so far

site == <<alive, params, web, towerJobs>>
hist == <<revoked, stamp, clock>>
vars == <<alive, params, web, towerJobs, db, nextId, tiles, buildings, tif, w,
          revoked, stamp, clock>>

Init ==
    /\ alive = TRUE
    /\ params \in Params
    /\ web = "coverage"          \* post_save has already sent the first task
    /\ towerJobs = 0
    /\ db = [k \in Tables |-> NoRow]
    /\ nextId = [k \in Tables |-> 1]
    /\ tiles = {}
    /\ buildings = {}
    /\ tif = None
    /\ w = [x \in Worker |->
               IF x = <<"viewshed", 1>> THEN [Fresh EXCEPT !.pc = "queued"] ELSE Fresh]
    /\ revoked = [x \in Worker |-> {}]
    /\ stamp = [x \in Worker |-> 0]
    /\ clock = 0

-----------------------------------------------------------------------------
(* What the actions are made of.                                           *)

Goto(x, label) == w' = [w EXCEPT ![x].pc = label]
Raise(x) == Goto(x, "raise")

(* The locals die with the task; sector and key stay, for the properties.  *)
Finish(x, how) ==
    w' = [w EXCEPT ![x] = [Fresh EXCEPT !.pc = how, !.sector = w[x].sector,
                                        !.key = w[x].key]]

(* INSERT: the sector must exist (foreign key) and have no row (one-to-one) *)
CanInsert(k) == alive /\ db[k] = NoRow

(* Model.save() of an instance read from the database: UPDATE by primary   *)
(* key and, when no row has that key, INSERT.                              *)
CanSave(k, r) == alive /\ (db[k].id = r.id \/ db[k] = NoRow)

SaveRow(x, k, r, local) ==
    \/ /\ CanSave(k, r)
       /\ db' = [db EXCEPT ![k] = r]
       /\ w' = [w EXCEPT ![x] = local]
    \/ /\ ~CanSave(k, r)
       /\ Raise(x)
       /\ UNCHANGED db

InsertRow(k) ==
    /\ db' = [db EXCEPT ![k] = Blank(nextId[k])]
    /\ nextId' = [nextId EXCEPT ![k] = @ + 1]

(* Deleting a row deletes what points to it; deleting a row that is not    *)
(* there is no error.                                                      *)
DeleteRow(k, id) ==
    /\ db' = [db EXCEPT ![k] = IF @.id = id THEN NoRow ELSE @]
    /\ tiles' = IF k = "viewshed" /\ db[k].id = id THEN {} ELSE tiles
    /\ buildings' = IF k = "coverage" /\ db[k].id = id THEN {} ELSE buildings

(* cancel_task *)
CancelTask(who, r) ==
    revoked' = IF r.task = NoTask THEN revoked
               ELSE [revoked EXCEPT ![r.task] = @ \cup {who}]

(* The hash a task stores: a coverage task's is the key of CheckCoverage.  *)
HashOf(x) == IF Table(x) = "viewshed" THEN ViewshedHash(w[x].sector) ELSE w[x].key

Idle == {n \in Tasks : w[<<"viewshed", n>>].pc = "idle"}
Quiescent == /\ web \in {"ok", "error"}
             /\ towerJobs = 0
             /\ \A x \in Worker : w[x].pc \in Ended \cup {"idle"}

(* send_task: the next save's task, in order (they are alike until they    *)
(* start).                                                                 *)
SendViewshed ==
    \E n \in Idle : /\ \A m \in Idle : n <= m
                    /\ Goto(<<"viewshed", n>>, "queued")
-----------------------------------------------------------------------------
(* The web requests.                                                       *)

(* The receivers of a new sector's post_save run in the order they were    *)
(* connected: send the task (in Init), then create the coverage row, then  *)
(* the viewshed row.  An IntegrityError ends the request.                  *)
CreateRow(k, next) ==
    /\ web = k
    /\ \/ CanInsert(k) /\ InsertRow(k) /\ web' = next
       \/ ~CanInsert(k) /\ web' = "error" /\ UNCHANGED <<db, nextId>>
    /\ UNCHANGED <<alive, params, towerJobs, tiles, buildings, tif, w, hist>>
CreateCoverageRow == CreateRow("coverage", "viewshed")
CreateViewshedRow == CreateRow("viewshed", "ok")

MayEdit == /\ alive
           /\ web \in {"ok", "error"}
           /\ Cardinality(Idle) > towerJobs
           /\ "overlap" \in Env \/ Quiescent

(* A save may leave the parameters as they are.                            *)
SaveSector(p) ==
    /\ MayEdit
    /\ params' = p
    /\ SendViewshed
    /\ UNCHANGED <<alive, web, towerJobs, db, nextId, tiles, buildings, tif, hist>>

SaveTower(p) ==
    /\ MayEdit
    /\ params' = p
    /\ towerJobs' = towerJobs + 1
    /\ UNCHANGED <<alive, web, db, nextId, tiles, buildings, tif, w, hist>>

(* Mutant: an updateSectors task nobody sent.                              *)
UpdateSectors_Unsent ==
    /\ towerJobs' = towerJobs - 1
    /\ IF alive THEN SendViewshed ELSE UNCHANGED w
    /\ UNCHANGED <<alive, params, web, db, nextId, tiles, buildings, tif, hist>>

(* updateSectors: a task for every sector the tower still has.             *)
UpdateSectors ==
    /\ towerJobs > 0
    /\ towerJobs' = towerJobs - 1
    /\ IF alive THEN SendViewshed ELSE UNCHANGED w
    /\ UNCHANGED <<alive, params, web, db, nextId, tiles, buildings, tif, hist>>

(* The pre_delete receivers cancel the tasks the rows name; the rows go    *)
(* with the sector, the raster stays in S3.                                *)
DeleteSector ==
    /\ "delete" \in Env /\ alive /\ web \in {"ok", "error"}
    /\ alive' = FALSE
    /\ revoked' = [x \in Worker |->
                     IF \E k \in Tables : db[k].task = x THEN revoked[x] \cup {User}
                     ELSE revoked[x]]
    /\ db' = [k \in Tables |-> NoRow]
    /\ tiles' = {}
    /\ buildings' = {}
    /\ UNCHANGED <<params, web, towerJobs, nextId, tif, w, stamp, clock>>

-----------------------------------------------------------------------------
(* calculateSectorViewshed and the first lines of calculateSectorNearby.   *)

(* AccessPointSector.objects.get *)
GetSector(x) ==
    /\ w[x].pc = "queued"
    /\ "create" \in Env \/ web \in {"ok", "error"}
    /\ \/ /\ alive
          /\ w' = [w EXCEPT ![x].pc = "lookup", ![x].sector = params]
       \/ ~alive /\ Raise(x)
    /\ UNCHANGED <<site, db, nextId, tiles, buildings, tif, hist>>

(* objects.get_or_create; the viewshed task checks the hash of the row it  *)
(* reads next, or of the one it made.                                      *)
GetOrCreateViewshed(x) ==
    /\ w[x].pc = "lookup" /\ Table(x) = "viewshed"
    /\ \/ /\ db["viewshed"] # NoRow
          /\ w' = [w EXCEPT ![x].pc = "resave", ![x].then = "check",
                            ![x].row = db["viewshed"]]
          /\ UNCHANGED <<db, nextId>>
       \/ /\ CanInsert("viewshed")
          /\ InsertRow("viewshed")
          /\ w' = [w EXCEPT ![x].pc = "resave", ![x].then = "cancel",
                            ![x].row = Blank(nextId["viewshed"])]
       \/ ~alive /\ Raise(x) /\ UNCHANGED <<db, nextId>>
    /\ UNCHANGED <<site, tiles, buildings, tif, hist>>

(* viewshed.save() *)
ResaveViewshed(x) ==
    /\ w[x].pc = "resave"
    /\ SaveRow(x, "viewshed", w[x].row, [w[x] EXCEPT !.pc = w[x].then])
    /\ UNCHANGED <<site, nextId, tiles, buildings, tif, hist>>

(* Mutant: any hash is a hit.                                              *)
CheckViewshed_AnyHash(x) ==
    /\ w[x].pc = "check" /\ Table(x) = "viewshed"
    /\ \/ db["viewshed"] = NoRow /\ Raise(x)
       \/ /\ db["viewshed"] # NoRow
          /\ \/ db["viewshed"].hash # None /\ Finish(x, "done")
             \/ db["viewshed"].hash = None /\ Goto(x, "cancel")
    /\ UNCHANGED <<site, db, nextId, tiles, buildings, tif, hist>>

(* sector.viewshed.result_cached() *)
CheckViewshed(x) ==
    /\ w[x].pc = "check" /\ Table(x) = "viewshed"
    /\ \/ db["viewshed"] = NoRow /\ Raise(x)
       \/ /\ db["viewshed"] # NoRow
          /\ \/ db["viewshed"].hash = ViewshedHash(w[x].sector) /\ Finish(x, "done")
             \/ db["viewshed"].hash # ViewshedHash(w[x].sector) /\ Goto(x, "cancel")
    /\ UNCHANGED <<site, db, nextId, tiles, buildings, tif, hist>>

(* The two "try" blocks, first on the viewshed row and then on the         *)
(* coverage row: cancel the task of the old row ...                        *)
CancelOld(x) ==
    /\ w[x].pc = "cancel"
    /\ \/ ~alive /\ Raise(x) /\ UNCHANGED revoked
       \/ /\ alive /\ db[w[x].on] = NoRow
          /\ Goto(x, "recreate")
          /\ UNCHANGED revoked
       \/ /\ alive /\ db[w[x].on] # NoRow
          /\ CancelTask(x, db[w[x].on])
          /\ w' = [w EXCEPT ![x].pc = "drop", ![x].old = db[w[x].on].id]
    /\ UNCHANGED <<site, db, nextId, tiles, buildings, tif, stamp, clock>>

(* ... delete it ...                                                       *)
DropOld(x) ==
    /\ w[x].pc = "drop"
    /\ DeleteRow(w[x].on, w[x].old)
    /\ Goto(x, "recreate")
    /\ UNCHANGED <<site, nextId, tif, hist>>

(* Mutant: the coverage row is kept, complete as it is.                    *)
Recreate_KeepCoverage(x) ==
    /\ w[x].pc = "recreate"
    /\ \/ /\ CanInsert(w[x].on)
          /\ InsertRow(w[x].on)
          /\ Goto(x, "refresh")
       \/ ~CanInsert(w[x].on) /\ Raise(x) /\ UNCHANGED <<db, nextId>>
    /\ UNCHANGED <<site, tiles, buildings, tif, hist>>

(* ... and make a new one.                                                 *)
Recreate(x) ==
    /\ w[x].pc = "recreate"
    /\ \/ /\ CanInsert(w[x].on)
          /\ InsertRow(w[x].on)
          /\ IF w[x].on = "viewshed"
             THEN w' = [w EXCEPT ![x].pc = "cancel", ![x].on = "coverage"]
             ELSE Goto(x, "refresh")
       \/ ~CanInsert(w[x].on) /\ Raise(x) /\ UNCHANGED <<db, nextId>>
    /\ UNCHANGED <<site, tiles, buildings, tif, hist>>

(* sector.refresh_from_db() *)
RefreshSector(x) ==
    /\ w[x].pc = "refresh"
    /\ \/ alive /\ w' = [w EXCEPT ![x].pc = "read", ![x].sector = params]
       \/ ~alive /\ Raise(x)
    /\ UNCHANGED <<site, db, nextId, tiles, buildings, tif, hist>>

(* Mutant: the id is set before the cancellation.                          *)
ReadViewshed_IdFirst(x) ==
    /\ w[x].pc = "read"
    /\ \/ db["viewshed"] = NoRow /\ Raise(x) /\ UNCHANGED revoked
       \/ /\ db["viewshed"] # NoRow
          /\ CancelTask(x, [db["viewshed"] EXCEPT !.task = x])
          /\ w' = [w EXCEPT ![x].pc = "register", ![x].row = db["viewshed"]]
    /\ UNCHANGED <<site, db, nextId, tiles, buildings, tif, stamp, clock>>

(* sector.viewshed.on_task_start: read the row, which may by now be one    *)
(* that another task made, cancel the task it names ...                    *)
ReadViewshed(x) ==
    /\ w[x].pc = "read"
    /\ \/ db["viewshed"] = NoRow /\ Raise(x) /\ UNCHANGED revoked
       \/ /\ db["viewshed"] # NoRow
          /\ CancelTask(x, db["viewshed"])
          /\ w' = [w EXCEPT ![x].pc = "register", ![x].row = db["viewshed"]]
    /\ UNCHANGED <<site, db, nextId, tiles, buildings, tif, stamp, clock>>

(* ... and save it with this task's id.                                    *)
Register(x) ==
    LET mine == [w[x].row EXCEPT !.task = x]
        next == IF Table(x) = "viewshed" THEN "claim" ELSE "check"
    IN  /\ w[x].pc = "register"
        /\ SaveRow(x, Table(x), mine, [w[x] EXCEPT !.pc = next, !.row = mine])
        /\ IF CanSave(Table(x), mine)
           THEN stamp' = [stamp EXCEPT ![x] = clock + 1] /\ clock' = clock + 1
           ELSE UNCHANGED <<stamp, clock>>
        /\ UNCHANGED <<site, nextId, tiles, buildings, tif, revoked>>

(* Mutant: only the hash is saved, into whatever row has the key.          *)
ClaimHash_OneField(x) ==
    LET k == Table(x)
    IN  /\ w[x].pc = "claim"
        /\ \/ /\ db[k].id = w[x].row.id
              /\ db' = [db EXCEPT ![k].hash = HashOf(x)]
              /\ w' = [w EXCEPT ![x].pc = IF k = "viewshed" THEN "report" ELSE "list",
                                ![x].then = "wtif", ![x].row.hash = HashOf(x)]
           \/ db[k].id # w[x].row.id /\ Raise(x) /\ UNCHANGED db
        /\ UNCHANGED <<site, nextId, tiles, buildings, tif, hist>>

(* cache_result(), before the work it vouches for.                         *)
ClaimHash(x) ==
    LET claimed == [w[x].row EXCEPT !.hash = HashOf(x)]
    IN  /\ w[x].pc = "claim"
        /\ SaveRow(x, Table(x), claimed,
                   IF Table(x) = "viewshed"
                   THEN [w[x] EXCEPT !.pc = "report", !.then = "wtif", !.row = claimed]
                   ELSE [w[x] EXCEPT !.pc = "list", !.row = claimed])
        /\ UNCHANGED <<site, nextId, tiles, buildings, tif, hist>>

-----------------------------------------------------------------------------
(* Viewshed.calculateViewshed and the end of calculateSectorViewshed.      *)

(* _update_status: read the row again ...                                  *)
Report(x) ==
    /\ w[x].pc = "report"
    /\ \/ db["viewshed"] = NoRow /\ Raise(x)
       \/ /\ db["viewshed"] # NoRow
          /\ w' = [w EXCEPT ![x].pc = "reported", ![x].buf = db["viewshed"]]
    /\ UNCHANGED <<site, db, nextId, tiles, buildings, tif, hist>>

(* ... and save the copy, with the progress message in it.                 *)
SaveReport(x) ==
    /\ w[x].pc = "reported"
    /\ SaveRow(x, "viewshed", w[x].buf, [w[x] EXCEPT !.pc = w[x].then, !.buf = NoRow])
    /\ UNCHANGED <<site, nextId, tiles, buildings, tif, hist>>

(* write_object(tif=True): the key is the sector's, not the row's.         *)
WriteTif(x) ==
    /\ w[x].pc = "wtif"
    /\ \/ tif' = w[x].sector
       \/ "lostwrite" \in Env /\ UNCHANGED tif
    /\ w' = [w EXCEPT ![x].pc = "report", ![x].then = "tiles"]
    /\ UNCHANGED <<site, db, nextId, tiles, buildings, hist>>

(* One ViewshedTile per picture, unique for a row and a position: a second *)
(* rendering of the same place fails, one of another place may not.        *)
SaveTiles(x) ==
    /\ w[x].pc = "tiles"
    /\ \/ /\ db["viewshed"].id = w[x].row.id /\ w[x].sector \notin tiles
          /\ tiles' = tiles \cup {w[x].sector}
          /\ w' = [w EXCEPT ![x].pc = "report", ![x].then = "cache"]
       \/ /\ db["viewshed"].id # w[x].row.id \/ tiles # {}
          /\ Raise(x)
          /\ UNCHANGED tiles
    /\ UNCHANGED <<site, db, nextId, buildings, tif, hist>>

(* cache_result() once more, with the work done.                           *)
CacheResult(x) ==
    /\ w[x].pc = "cache"
    /\ SaveRow(x, "viewshed", w[x].row, [w[x] EXCEPT !.pc = "publish"])
    /\ UNCHANGED <<site, nextId, tiles, buildings, tif, hist>>

(* The ap.viewshed message, then the save that clears the progress.        *)
Publish(x) ==
    /\ w[x].pc = "publish"
    /\ SaveRow(x, "viewshed", w[x].row, [w[x] EXCEPT !.pc = "send"])
    /\ UNCHANGED <<site, nextId, tiles, buildings, tif, hist>>

(* send_task("calculateSectorNearby") *)
SendNearby(x) ==
    /\ w[x].pc = "send" /\ Table(x) = "viewshed"
    /\ w' = [w EXCEPT ![x] = [Fresh EXCEPT !.pc = "done", !.sector = w[x].sector],
                      ![<<"coverage", x[2]>>].pc = "queued"]
    /\ UNCHANGED <<site, db, nextId, tiles, buildings, tif, hist>>

-----------------------------------------------------------------------------
(* calculateSectorNearby and calculateSectorCoverage.                      *)

(* objects.get_or_create and the cancel_task of on_task_start.             *)
GetOrCreateCoverage(x) ==
    /\ w[x].pc = "lookup" /\ Table(x) = "coverage"
    /\ \/ /\ db["coverage"] # NoRow
          /\ CancelTask(x, db["coverage"])
          /\ w' = [w EXCEPT ![x].pc = "register", ![x].row = db["coverage"]]
          /\ UNCHANGED <<db, nextId>>
       \/ /\ CanInsert("coverage")
          /\ InsertRow("coverage")
          /\ w' = [w EXCEPT ![x].pc = "register", ![x].key = CoverageHash(w[x].sector),
                            ![x].row = Blank(nextId["coverage"])]
          /\ UNCHANGED revoked
       \/ ~alive /\ Raise(x) /\ UNCHANGED <<db, nextId, revoked>>
    /\ UNCHANGED <<site, tiles, buildings, tif, stamp, clock>>

(* building_coverage.result_cached(): a row that was read has no sector in *)
(* memory and reads it, later than the task read its own; a row that was   *)
(* made has the task's.                                                    *)
CheckCoverage(x) ==
    LET read == w[x].key = None
        key  == IF read THEN CoverageHash(params) ELSE w[x].key
    IN  /\ w[x].pc = "check" /\ Table(x) = "coverage"
        /\ \/ read /\ ~alive /\ Raise(x)
           \/ /\ read => alive
              /\ w' = [w EXCEPT ![x].key = key,
                                ![x].pc = IF w[x].row.hash = key THEN "load" ELSE "clear"]
        /\ UNCHANGED <<site, db, nextId, tiles, buildings, tif, hist>>

ClearBuildings(x) ==
    /\ w[x].pc = "clear"
    /\ buildings' = IF db["coverage"].id = w[x].row.id THEN {} ELSE buildings
    /\ Goto(x, "claim")
    /\ UNCHANGED <<site, db, nextId, tiles, tif, hist>>

(* The pages of building outlines that intersect the sector in memory.     *)
ListBuildings(x) ==
    /\ w[x].pc = "list"
    /\ \/ /\ db["coverage"].id = w[x].row.id
          /\ buildings' = buildings \cup {[by |-> x[2], area |-> w[x].sector, tif |-> None]}
          /\ Goto(x, "load")
       \/ /\ db["coverage"].id # w[x].row.id
          /\ Raise(x)
          /\ UNCHANGED buildings
    /\ UNCHANGED <<site, db, nextId, tiles, tif, hist>>

(* sector.viewshed and read_object(tif=True) *)
LoadTif(x) ==
    /\ w[x].pc = "load"
    /\ \/ /\ db["viewshed"] # NoRow /\ tif # None
          /\ w' = [w EXCEPT ![x].pc = "judge", ![x].tif = tif]
       \/ (db["viewshed"] = NoRow \/ tif = None) /\ Raise(x)
    /\ UNCHANGED <<site, db, nextId, tiles, buildings, tif, hist>>

(* Each building of the row gets its status from the raster; one that is   *)
(* deleted under the loop fails it.                                        *)
JudgeBuildings(x) ==
    LET mine == db["coverage"].id = w[x].row.id
    IN  /\ w[x].pc = "judge"
        /\ buildings' = IF mine THEN {[b EXCEPT !.tif = w[x].tif] : b \in buildings}
                        ELSE buildings
        /\ Goto(x, "complete") \/ (~mine /\ Raise(x))
        /\ UNCHANGED <<site, db, nextId, tiles, tif, hist>>

CompleteCoverage(x) ==
    LET complete == [w[x].row EXCEPT !.status = "Complete"]
    IN  /\ w[x].pc = "complete"
        /\ \/ /\ CanSave("coverage", complete)
              /\ db' = [db EXCEPT !["coverage"] = complete]
              /\ Finish(x, "done")
           \/ ~CanSave("coverage", complete) /\ Raise(x) /\ UNCHANGED db
        /\ UNCHANGED <<site, nextId, tiles, buildings, tif, hist>>

-----------------------------------------------------------------------------
(* The ends of a task that are not its last line.                          *)

(* A raster that cannot be fetched or computed, a subprocess that fails.   *)
Fail(x) ==
    /\ "fail" \in Env
    /\ w[x].pc \in Compute
    /\ Raise(x)
    /\ UNCHANGED <<site, db, nextId, tiles, buildings, tif, hist>>

(* The wrapper of _sector_task: _update_status("Task Failed") ...          *)
ReportFailure(x) ==
    /\ w[x].pc = "raise"
    /\ \/ db["viewshed"] = NoRow /\ Finish(x, "failed")
       \/ /\ db["viewshed"] # NoRow
          /\ w' = [w EXCEPT ![x].pc = "raised", ![x].buf = db["viewshed"]]
    /\ UNCHANGED <<site, db, nextId, tiles, buildings, tif, hist>>

(* ... saves the copy of the row, and the exception goes on.               *)
SaveFailure(x) ==
    /\ w[x].pc = "raised"
    /\ db' = IF CanSave("viewshed", w[x].buf)
             THEN [db EXCEPT !["viewshed"] = w[x].buf] ELSE db
    /\ Finish(x, "failed")
    /\ UNCHANGED <<site, nextId, tiles, buildings, tif, hist>>

(* Celery delivers the revocation: SIGTERM, and no handler runs.           *)
Kill(x) ==
    /\ revoked[x] # {}
    /\ w[x].pc \notin Ended \cup {"idle"}
    /\ Finish(x, "killed")
    /\ UNCHANGED <<site, db, nextId, tiles, buildings, tif, hist>>

(* The worker process dies; its message was acknowledged when it started.  *)
Crash(x) ==
    /\ "crash" \in Env
    /\ w[x].pc \notin Ended \cup {"idle", "queued"}
    /\ Finish(x, "killed")
    /\ UNCHANGED <<site, db, nextId, tiles, buildings, tif, hist>>

-----------------------------------------------------------------------------

(* What a worker process does with task x, left to itself.                 *)
Step(x) ==
    \/ GetSector(x) \/ GetOrCreateViewshed(x) \/ ResaveViewshed(x)
    \/ CheckViewshed(x) \/ CancelOld(x) \/ DropOld(x) \/ Recreate(x)
    \/ RefreshSector(x) \/ ReadViewshed(x) \/ Register(x) \/ ClaimHash(x)
    \/ Report(x) \/ SaveReport(x) \/ WriteTif(x) \/ SaveTiles(x)
    \/ CacheResult(x) \/ Publish(x) \/ SendNearby(x)
    \/ GetOrCreateCoverage(x) \/ CheckCoverage(x) \/ ClearBuildings(x)
    \/ ListBuildings(x) \/ LoadTif(x) \/ JudgeBuildings(x) \/ CompleteCoverage(x)
    \/ ReportFailure(x) \/ SaveFailure(x)

Request == CreateCoverageRow \/ CreateViewshedRow
Edit == \/ \E p \in Params : SaveSector(p) \/ SaveTower(p)
        \/ DeleteSector
Stop(x) == Fail(x) \/ Kill(x) \/ Crash(x)

Next == \/ Request \/ Edit \/ UpdateSectors
        \/ \E x \in Worker : Step(x) \/ Stop(x)

Spec == Init /\ [][Next]_vars

(* Requests end, and workers take what is queued and finish what they      *)
(* start, unless they are stopped: nobody owes an edit, a failure or a     *)
(* delivered revocation.                                                   *)
Fairness == /\ WF_vars(Request)
            /\ WF_vars(UpdateSectors)
            /\ \A x \in Worker : WF_vars(Step(x))

FairSpec == Spec /\ Fairness

-----------------------------------------------------------------------------
(* Properties.                                                             *)

(* Every variable has its type: rows are whole rows, every task is at one  *)
(* of its statements, and only tasks (or the user) revoke tasks.           *)
TypeOK ==
    /\ alive \in BOOLEAN
    /\ params \in Params
    /\ web \in Tables \cup {"ok", "error"}
    /\ towerJobs \in Nat
    /\ db \in [Tables -> Row]
    /\ nextId \in [Tables -> Nat]
    /\ tiles \subseteq Keys
    /\ buildings \subseteq Building
    /\ tif \in Keys
    /\ w \in [Worker -> Local]
    /\ revoked \in [Worker -> SUBSET (Worker \cup {User})]
    /\ stamp \in [Worker -> Nat]
    /\ clock \in Nat

(* Revocation follows registration: a task revokes only tasks that wrote   *)
(* their id into a row before it wrote its own.  So a save's task is never *)
(* cancelled before it starts, and however the tasks of overlapping saves  *)
(* interleave, no group of them kill each other off.                       *)
RevokedEarlier(a, b) == stamp[b] # 0 /\ (stamp[a] = 0 \/ stamp[b] < stamp[a])
RevocationFollowsRegistration ==
    \A a, b \in Worker : a \in revoked[b] => RevokedEarlier(a, b)

(* No cached result is orphaned: the hash in a row was put there by a task *)
(* that the row names, so that the next save can cancel it, or that has    *)
(* been revoked.  It rests on saves writing whole rows.                    *)
Accountable(k, r) ==
    r.hash # None =>
        \E n \in Tasks : LET x == <<k, n>> IN
            /\ stamp[x] # 0
            /\ r.hash = HashOf(x)
            /\ r.task = x \/ revoked[x] # {}
CachedHashIsAccountable == \A k \in Tables : Accountable(k, db[k])

(* Saves that wait for each other get what they asked for, whatever fails  *)
(* or dies on the way: once nothing runs, a viewshed whose task finished   *)
(* and whose hash is the sector's has its tiles and its raster.  A         *)
(* coverage marked complete lists the buildings of a sector its hash is    *)
(* of, judged by that sector's raster; and it is the sector as it is now,  *)
(* if such a viewshed is there.  (Without one it need not be: the hash     *)
(* says nothing of the wedge, so the old wedge's buildings look current    *)
(* when the worker that should replace them dies before it drops the row.) *)
FinishedViewshed == LET r == db["viewshed"] IN
    /\ r.hash = ViewshedHash(params)
    /\ r.task # NoTask
    /\ w[r.task].pc = "done"
JudgedBuildings == /\ buildings # {}
                   /\ \A b \in buildings : b.area = params /\ b.tif = params
FinishedResultsAreCurrent ==
    Quiescent =>
        /\ FinishedViewshed => tiles = {params} /\ tif = params
        /\ db["coverage"].status = "Complete" =>
              /\ buildings # {}
              /\ \A b \in buildings : /\ b.tif = b.area
                                     /\ db["coverage"].hash = CoverageHash(b.area)
              /\ FinishedViewshed => JudgedBuildings

(* When saves wait for each other and nothing fails, every save is served  *)
(* in the end: viewshed and coverage of the saved parameters are there,    *)
(* unless the sector is deleted first.                                     *)
Served ==
    /\ db["viewshed"].hash = ViewshedHash(params)
    /\ tiles = {params}
    /\ db["coverage"].hash = CoverageHash(params)
    /\ db["coverage"].status = "Complete"
    /\ JudgedBuildings
EverySaveIsServed ==
    \A p \in Params : params = p ~> (Served \/ params # p \/ ~alive)

(* What task_models.py says of the hash: "This hash helps determine if the *)
(* task result has already been computed".  When nothing runs, a hash that *)
(* is the sector's stands for tiles that exist.  The code stores the hash  *)
(* before the work (cache_result in calculateSectorViewshed), so a failed  *)
(* task leaves a hit behind.                                               *)
CachedMeansComputed ==
    Quiescent /\ db["viewshed"].hash = ViewshedHash(params) => tiles = {params}

(* What network_models.py says of the post_save receiver: "Calculate       *)
(* coverage for sector after saving".  When nothing fails and nothing      *)
(* runs, the sector's viewshed is that of its last save.  Overlapping      *)
(* saves break it: their tasks delete, make and save the same rows.        *)
SavedSectorIsCovered ==
    Quiescent /\ alive => db["viewshed"].hash = ViewshedHash(params)

=============================================================================
