---------------------------- MODULE TowerCoverage ----------------------------
(***************************************************************************)
(* The coverage of a tower, which the page shows for towers without        *)
(* sectors.  Each request for it, sent when the tower is made, changed or  *)
(* selected, starts two tasks side by side: one lists the buildings around *)
(* the tower, the other computes its viewshed and judges what is listed by *)
(* then.  They share the coverage row's buildings and nothing orders them. *)
(*                                                                         *)
(* A tower's form is its place, height and radius, one number, and also    *)
(* its hash, its raster and its tiles.  A task reads the tower once; rows  *)
(* are read and saved whole.  Statements fail when the tower is gone.      *)
(***************************************************************************)
EXTENDS Integers

CONSTANTS Forms,      \* positive numbers
          MaxAsks,    \* bound on requests
          Mishaps     \* what may happen together, see Mishap, and how many requests there are

\* The user does not wait for tasks; another page asks; statements fail; the socket
\* closes; the tower is deleted; an upload to S3 fails, which writeS3Object only logs.
Mishap == {"impatient", "elsewhere", "fail", "close", "remove", "lose"}

ASSUME TowerAssumption ==
    Forms \subseteq Nat \ {0} /\ MaxAsks \in Nat /\ Mishaps \subseteq (SUBSET Mishap) \X (0 .. MaxAsks)

VARIABLES
    mishap,    \* what may happen
    askable,   \* requests left
    mast,      \* the tower's form, 0 once it is deleted
    ask,       \* [n: requests, owed: whether the page has one to send, heard: the last one
               \* the consumer can cancel]
    listing,   \* the coverage row [task, hash], or NoRecord
    sight,     \* the viewshed row [id, task, hash, tiles], or NoRecord
    rasterOf,  \* the form of the raster in S3, 0 for none; its key is the tower's
    nearby,    \* the buildings listed: [by: the task, area: a form, seen: a form or 0]
    crew,      \* the tasks
    stops      \* tasks being revoked

towerVars == <<mishap, askable, mast, ask, listing, sight, rasterOf, nearby, crew, stops>>

Job == {"list", "see"} \X (1 .. MaxAsks)

NoRecord == <<>>
NoJob    == <<"none", 0>>
Blank0   == [task |-> NoJob, hash |-> 0]

Unborn == [at |-> "unborn", form |-> 0, row |-> NoRecord, todo |-> {}, early |-> FALSE]

Underway(x) == crew[x].at \notin {"unborn", "done", "failed", "killed"}
NoneAtWork  == \A x \in Job : ~Underway(x)

TowerQuiet ==
    /\ ask = [n |-> 0, owed |-> FALSE, heard |-> 0]
    /\ listing = NoRecord /\ sight = NoRecord /\ rasterOf = 0 /\ nearby = {}
    /\ crew = [x \in Job |-> Unborn] /\ stops = {}

TowerInit ==
    /\ \E m \in Mishaps : mishap = m[1] /\ askable = m[2]
    /\ mast \in Forms /\ TowerQuiet

------------------------------------------------------------------------------
(* The page and the consumer *)

TasksOf(n) == {<<"list", n>>, <<"see", n>>} \cap Job

MayTurn == mast # 0 /\ ("impatient" \in mishap \/ NoneAtWork)

\* Saved, and answered: the page asks for the coverage when the answer comes.
ChangeTower(f) ==
    /\ MayTurn /\ ~ask.owed /\ askable > 0
    /\ mast' = f /\ ask' = [ask EXCEPT !.owed = TRUE]
    /\ UNCHANGED <<mishap, askable, listing, sight, rasterOf, nearby, crew, stops>>

StartBoth(n) == crew' = [x \in Job |-> IF x \in TasksOf(n) THEN [Unborn EXCEPT !.at = "queued"]
                                       ELSE crew[x]]

\* receive_json: the tower's tasks of before are revoked.  A selection asks too.
AskCoverage ==
    /\ MayTurn /\ askable > 0 /\ askable' = askable - 1
    /\ stops' = stops \cup TasksOf(ask.heard)
    /\ StartBoth(ask.n + 1)
    /\ ask' = [n |-> ask.n + 1, owed |-> FALSE, heard |-> ask.n + 1]
    /\ UNCHANGED <<mishap, mast, listing, sight, rasterOf, nearby>>

\* Another page's consumer knows its own tasks only.
AskElsewhere ==
    /\ "elsewhere" \in mishap /\ mast # 0 /\ askable > 0 /\ askable' = askable - 1
    /\ StartBoth(ask.n + 1)
    /\ ask' = [ask EXCEPT !.n = @ + 1]
    /\ UNCHANGED <<mishap, mast, listing, sight, rasterOf, nearby, stops>>

Disconnect ==
    /\ "close" \in mishap /\ ask.heard # 0
    /\ stops' = stops \cup TasksOf(ask.heard) /\ ask' = [ask EXCEPT !.heard = 0]
    /\ UNCHANGED <<mishap, askable, mast, listing, sight, rasterOf, nearby, crew>>

Named(row) == IF row = NoRecord THEN {} ELSE {row.task} \ {NoJob}

\* The receivers cancel, the rows cascade; the raster stays.
RemoveTower ==
    /\ "remove" \in mishap /\ mast # 0
    /\ stops' = stops \cup Named(listing) \cup Named(sight)
    /\ mast' = 0 /\ listing' = NoRecord /\ sight' = NoRecord /\ nearby' = {}
    /\ UNCHANGED <<mishap, askable, ask, rasterOf, crew>>

------------------------------------------------------------------------------
(* The tasks *)

At(x, place) == crew[x].at = place /\ mast # 0 /\ UNCHANGED <<mishap, askable, mast, ask>>

Becomes(x, place) ==
    crew' = [crew EXCEPT ![x] = IF place \in {"done", "failed", "killed"}
                                THEN [Unborn EXCEPT !.at = place, !.early = crew[x].early]
                                ELSE [@ EXCEPT !.at = place]]

Fails(x) ==
    /\ Underway(x) /\ (mast = 0 \/ "fail" \in mishap)
    /\ Becomes(x, "failed")
    /\ UNCHANGED <<mishap, askable, mast, ask, listing, sight, rasterOf, nearby, stops>>

Stopped(x) ==
    /\ Underway(x) /\ x \in stops
    /\ Becomes(x, "killed")
    /\ UNCHANGED <<mishap, askable, mast, ask, listing, sight, rasterOf, nearby, stops>>

\* AccessPointLocation.objects.get
GetTower(x) ==
    /\ At(x, "queued")
    /\ crew' = [crew EXCEPT ![x].at = "row", ![x].form = mast]
    /\ UNCHANGED <<listing, sight, rasterOf, nearby, stops>>

------------------------------------------------------------------------------
(* generateAccessPointCoverage *)

\* get_or_create.  A row that is made is saved without the task's id; a row that was
\* there gets its tower anew, and on_task_start cancels, then saves.
GetListing(x) ==
    /\ At(x, "row") /\ x[1] = "list"
    /\ IF listing = NoRecord
       THEN /\ listing' = Blank0
            /\ crew' = [crew EXCEPT ![x].at = "start", ![x].row = Blank0]
            /\ UNCHANGED stops
       ELSE /\ stops' = stops \cup Named(listing)
            /\ crew' = [crew EXCEPT ![x].at = "start", ![x].row = [listing EXCEPT !.task = x],
                                    ![x].form = 0]
            /\ UNCHANGED listing
    /\ UNCHANGED <<sight, rasterOf, nearby>>

StartListing(x) ==
    /\ At(x, "start") /\ x[1] = "list"
    /\ listing' = crew[x].row
    /\ Becomes(x, "check")
    /\ UNCHANGED <<sight, rasterOf, nearby, stops>>

CheckListing(x) ==
    /\ At(x, "check")
    /\ LET form == IF crew[x].form = 0 THEN mast ELSE crew[x].form
       IN  IF crew[x].row.hash = form THEN Becomes(x, "done")
           ELSE crew' = [crew EXCEPT ![x].form = form, ![x].at = "clear"]
    /\ UNCHANGED <<listing, sight, rasterOf, nearby, stops>>

ClearNearby(x) ==
    /\ At(x, "clear")
    /\ nearby' = {}
    /\ Becomes(x, "fill")
    /\ UNCHANGED <<listing, sight, rasterOf, stops>>

FillNearby(x) ==
    /\ At(x, "fill")
    /\ nearby' = nearby \cup {[by |-> x, area |-> crew[x].form, seen |-> 0]}
    /\ Becomes(x, "hash")
    /\ UNCHANGED <<listing, sight, rasterOf, stops>>

\* Status and hash, once the buildings are there.
FinishListing(x) ==
    /\ At(x, "hash") /\ x[1] = "list"
    /\ listing' = [crew[x].row EXCEPT !.hash = crew[x].form]
    /\ Becomes(x, "done")
    /\ UNCHANGED <<sight, rasterOf, nearby, stops>>

------------------------------------------------------------------------------
(* computeViewshed *)

NewSight(x, k) == [id |-> <<x, k>>, task |-> NoJob, hash |-> 0, tiles |-> 0]

\* Django's save(): inserts what it cannot update.
SaveSight(x, row, next) ==
    IF sight = NoRecord \/ sight.id = row.id
    THEN /\ sight' = [row EXCEPT !.tiles = IF sight = NoRecord THEN 0 ELSE sight.tiles]
         /\ crew' = [crew EXCEPT ![x].at = next, ![x].row = row]
    ELSE Becomes(x, "failed") /\ UNCHANGED sight

\* ap.viewshed: cancelled if it is there, made if not.
GetSight(x) ==
    /\ At(x, "row") /\ x[1] = "see"
    /\ IF sight = NoRecord
       THEN SaveSight(x, NewSight(x, 1), "drop") /\ UNCHANGED stops
       ELSE /\ stops' = stops \cup Named(sight)
            /\ crew' = [crew EXCEPT ![x].row = sight,
                                    ![x].at = IF sight.hash = crew[x].form THEN "load" ELSE "drop"]
            /\ UNCHANGED sight
    /\ UNCHANGED <<listing, rasterOf, nearby>>

\* The row and its tiles; of the files in S3, the .png and not the .tif.
DropSight(x) ==
    /\ At(x, "drop")
    /\ sight' = IF sight # NoRecord /\ sight.id = crew[x].row.id THEN NoRecord ELSE sight
    /\ Becomes(x, "insert")
    /\ UNCHANGED <<listing, rasterOf, nearby, stops>>

InsertSight(x) ==
    /\ At(x, "insert")
    /\ IF sight = NoRecord THEN SaveSight(x, NewSight(x, 2), "start")
                           ELSE Becomes(x, "failed") /\ UNCHANGED sight
    /\ UNCHANGED <<listing, rasterOf, nearby, stops>>

\* Mutant: the hash goes with the start, as for sectors.
StartSightCached(x) ==
    /\ At(x, "start") /\ x[1] = "see"
    /\ SaveSight(x, [crew[x].row EXCEPT !.task = x, !.hash = crew[x].form], "raster")
    /\ UNCHANGED <<listing, rasterOf, nearby, stops>>

StartSight(x) ==
    /\ At(x, "start") /\ x[1] = "see"
    /\ SaveSight(x, [crew[x].row EXCEPT !.task = x], "raster")
    /\ UNCHANGED <<listing, rasterOf, nearby, stops>>

\* write_object(tif=True), whose answer nobody reads.
WriteRaster(x) ==
    /\ At(x, "raster")
    /\ \/ rasterOf' = crew[x].form
       \/ "lose" \in mishap /\ UNCHANGED rasterOf
    /\ Becomes(x, "tiles")
    /\ UNCHANGED <<listing, sight, nearby, stops>>

WriteTiles(x) ==
    /\ At(x, "tiles")
    /\ IF sight # NoRecord /\ sight.id = crew[x].row.id
       THEN sight' = [sight EXCEPT !.tiles = crew[x].form] /\ Becomes(x, "hash")
       ELSE Becomes(x, "failed") /\ UNCHANGED sight
    /\ UNCHANGED <<listing, rasterOf, nearby, stops>>

\* cache_result, with the work done.
FinishSight(x) ==
    /\ At(x, "hash") /\ x[1] = "see"
    /\ SaveSight(x, [crew[x].row EXCEPT !.hash = crew[x].form], "load")
    /\ UNCHANGED <<listing, rasterOf, nearby, stops>>

------------------------------------------------------------------------------
(* calculateCoverage *)

\* The raster, whoever's it is.
LoadRaster(x) ==
    /\ At(x, "load")
    /\ IF sight # NoRecord /\ rasterOf # 0
       THEN crew' = [crew EXCEPT ![x].at = "judge", ![x].form = rasterOf]
       ELSE Becomes(x, "failed")
    /\ UNCHANGED <<listing, sight, rasterOf, nearby, stops>>

\* What is listed now; nothing may be.
ListToJudge(x) ==
    /\ At(x, "judge")
    /\ IF listing = NoRecord THEN Becomes(x, "failed")
       ELSE crew' = [crew EXCEPT ![x].at = "save",
                                 ![x].todo = {b.by : b \in nearby},
                                 ![x].early = crew[<<"list", x[2]>>].at # "done"]
    /\ UNCHANGED <<listing, sight, rasterOf, nearby, stops>>

\* save(update_fields) of a building that is gone raises.
Judge(x) ==
    /\ At(x, "save")
    /\ IF crew[x].todo = {} THEN Becomes(x, "done") /\ UNCHANGED nearby
       ELSE \E t \in crew[x].todo :
              IF t \in {b.by : b \in nearby}
              THEN /\ nearby' = {IF b.by = t THEN [b EXCEPT !.seen = crew[x].form] ELSE b : b \in nearby}
                   /\ crew' = [crew EXCEPT ![x].todo = @ \ {t}]
              ELSE Becomes(x, "failed") /\ UNCHANGED nearby
    /\ UNCHANGED <<listing, sight, rasterOf, stops>>

TowerTask(x) ==
    \/ GetTower(x) \/ GetListing(x) \/ StartListing(x) \/ CheckListing(x) \/ ClearNearby(x)
    \/ FillNearby(x) \/ FinishListing(x)
    \/ GetSight(x) \/ DropSight(x) \/ InsertSight(x) \/ StartSight(x) \/ WriteRaster(x)
    \/ WriteTiles(x) \/ FinishSight(x) \/ LoadRaster(x) \/ ListToJudge(x) \/ Judge(x)

TowerNext ==
    \/ AskCoverage \/ AskElsewhere \/ Disconnect \/ RemoveTower
    \/ \E f \in Forms : ChangeTower(f)
    \/ \E x \in Job : TowerTask(x) \/ Fails(x) \/ Stopped(x)

TowerSpec == TowerInit /\ [][TowerNext]_towerVars

------------------------------------------------------------------------------
(* Properties *)

EndedWell(n) == \A x \in TasksOf(n) : crew[x].at = "done"

\* Whatever became of viewsheds before: when the tasks of the last request have ended
\* well, the buildings listed before they were judged, the tower's buildings are listed,
\* all are judged by the raster that is stored, and the tiles are the tower's own.  The
\* raster is its own too, unless an upload was lost: then one of another form may judge
\* them, under the tower's hash.  (A listing that was cut short leaves an old hash over
\* the wrong buildings; one that ends after the judgement, no verdicts.)
VerdictsAreOfTheTower ==
    /\ NoneAtWork /\ mast # 0 /\ ask.n > 0 /\ ~ask.owed /\ EndedWell(ask.n)
    /\ mishap \cap {"impatient", "elsewhere"} = {}
    /\ \A x \in Job : x[1] = "list" => crew[x].at \notin {"failed", "killed"}
    /\ ~crew[<<"see", ask.n>>].early
    => /\ listing.hash = mast /\ nearby # {}
       /\ \A b \in nearby : b.area = mast /\ b.seen = rasterOf
       /\ sight.hash = mast /\ sight.tiles = mast
       /\ rasterOf # 0 /\ ("lose" \notin mishap => rasterOf = mast)
=============================================================================
