------------------------ MODULE SectorCoverage_proofs ------------------------
(***************************************************************************)
(* Theorems about SectorCoverage, for every set of parameters, every       *)
(* number of saves and every environment.                                  *)
(***************************************************************************)
EXTENDS SectorCoverage, TLAPS

-----------------------------------------------------------------------------
(* Workers, rows and locals.                                               *)

(* A worker is a task of one of the two kinds; it is neither the user nor  *)
(* the absent task.                                                        *)
LEMMA WorkerFacts ==
    /\ NoTask \notin Worker
    /\ User \notin Worker
    /\ \A x \in Worker : /\ Table(x) \in Tables /\ x[2] \in Tasks
                         /\ <<"coverage", x[2]>> \in Worker
    /\ \A k \in Tables, n \in Tasks : <<k, n>> \in Worker /\ Table(<<k, n>>) = k
BY DEF Worker, NoTask, User, Tables, Tasks, Table

(* A blank row is a row.                                                   *)
LEMMA BlankIsRow == \A id \in Nat : Blank(id) \in Row
BY DEF Blank, Row, Hashes, Keys, Statuses

(* The absent row is one, so a copy of it is well-typed.                   *)
LEMMA NoRowIsRow == NoRow \in Row
BY BlankIsRow DEF NoRow

(* The locals of a task not yet sent are locals.                           *)
LEMMA FreshIsLocal == Fresh \in Local
BY NoRowIsRow DEF Fresh, Local, PC, Tables, Hashes, Keys

(* The labels the actions use are program counters.                        *)
LEMMA Labels ==
    /\ {"idle", "queued", "lookup", "resave", "check", "cancel", "drop",
        "recreate", "refresh", "read", "register", "claim", "report", "reported",
        "cache", "publish", "send", "clear", "complete", "raise", "raised",
        "wtif", "tiles", "list", "load", "judge", "done", "failed", "killed"}
         \subseteq PC
    /\ {"done", "failed", "killed"} \subseteq Ended
BY DEF PC, Compute, Ended

(* Ending a task leaves a well-typed record of it.                         *)
LEMMA FinishType ==
    ASSUME NEW x \in Worker, NEW how \in Ended, w \in [Worker -> Local], Finish(x, how)
    PROVE  w' \in [Worker -> Local]
<1>1. how \in PC
  BY DEF PC
<1>2. [Fresh EXCEPT !.pc = how, !.sector = w[x].sector, !.key = w[x].key] \in Local
  BY <1>1, FreshIsLocal DEF Local
<1> QED BY <1>2 DEF Finish

(* Moving the program counter keeps the locals well-typed.                 *)
LEMMA GotoType ==
    ASSUME NEW x \in Worker, NEW l \in PC, w \in [Worker -> Local], Goto(x, l)
    PROVE  w' \in [Worker -> Local]
BY DEF Goto, Local

(* A save keeps the tables and the locals well-typed.                      *)
LEMMA SaveRowType ==
    ASSUME TypeOK, NEW x \in Worker, NEW k \in Tables, NEW r \in Row,
           NEW local \in Local, SaveRow(x, k, r, local)
    PROVE  db' \in [Tables -> Row] /\ w' \in [Worker -> Local]
<1>1. "raise" \in PC
  BY DEF PC
<1> QED BY <1>1, GotoType DEF SaveRow, TypeOK, Raise

(* An insert keeps the tables and the key counters well-typed.             *)
LEMMA InsertRowType ==
    ASSUME TypeOK, NEW k \in Tables, InsertRow(k)
    PROVE  db' \in [Tables -> Row] /\ nextId' \in [Tables -> Nat]
BY BlankIsRow DEF InsertRow, TypeOK

(* A cancellation keeps the revocations well-typed.                        *)
LEMMA CancelTaskType ==
    ASSUME TypeOK, NEW x \in Worker, NEW r \in Row, CancelTask(x, r)
    PROVE  revoked' \in [Worker -> SUBSET (Worker \cup {User})]
BY DEF CancelTask, TypeOK, Row

-----------------------------------------------------------------------------
(* Every variable keeps its type.                                          *)

(* A new sector's state is well-typed.                                     *)
LEMMA InitType == Init => TypeOK
<1> SUFFICES ASSUME Init PROVE TypeOK
  OBVIOUS
<1>1. w \in [Worker -> Local]
  <2>1. [Fresh EXCEPT !.pc = "queued"] \in Local
    BY FreshIsLocal DEF Local, PC
  <2> QED BY <2>1, FreshIsLocal DEF Init
<1> QED BY <1>1, NoRowIsRow DEF Init, TypeOK, Keys, Tables

(* Every step, of a task, a request or an edit, keeps the types.           *)
LEMMA NextType == TypeOK /\ [Next]_vars => TypeOK'
<1> SUFFICES ASSUME TypeOK, [Next]_vars PROVE TypeOK'
  OBVIOUS
<1>w. w \in [Worker -> Local] /\ \A x \in Worker : w[x] \in Local /\ w[x].row \in Row
                                   /\ w[x].buf \in Row /\ w[x].on \in Tables
  BY DEF TypeOK, Local
<1>d. db["viewshed"] \in Row /\ db["coverage"] \in Row /\ \A k \in Tables : db[k] \in Row
  BY DEF TypeOK, Tables
<1>p. params \in Keys /\ tif \in Keys /\ None \in Keys
  BY DEF TypeOK, Keys
<1>b. \A k \in Tables : Blank(nextId[k]) \in Row /\ Blank(nextId[k]).id \in Nat
  BY BlankIsRow DEF TypeOK, Row
<1>1. ASSUME NEW x \in Worker, GetSector(x) PROVE TypeOK'
  <2>1. w' \in [Worker -> Local]
    BY <1>1, <1>w, <1>d, <1>p, <1>b, Labels, GotoType, FinishType DEF GetSector,
       Raise, Local
  <2> QED BY <1>1, <2>1 DEF GetSector, TypeOK, site, hist
<1>2. ASSUME NEW x \in Worker, GetOrCreateViewshed(x) PROVE TypeOK'
  <2>1. w' \in [Worker -> Local]
    BY <1>2, <1>w, <1>d, <1>p, <1>b, Labels, GotoType, FinishType DEF
       GetOrCreateViewshed, Raise, Local, Tables
  <2>2. db' \in [Tables -> Row] /\ nextId' \in [Tables -> Nat]
    BY <1>2, InsertRowType DEF GetOrCreateViewshed, TypeOK, Tables
  <2> QED BY <1>2, <2>1, <2>2 DEF GetOrCreateViewshed, TypeOK, site, hist
<1>3. ASSUME NEW x \in Worker, ResaveViewshed(x) PROVE TypeOK'
  <2>1. [w[x] EXCEPT !.pc = w[x].then] \in Local
    BY <1>w, NoRowIsRow, Labels DEF Local
  <2>2. db' \in [Tables -> Row] /\ w' \in [Worker -> Local]
    BY <1>3, <1>w, <2>1, SaveRowType DEF ResaveViewshed, Tables
  <2> QED BY <1>3, <2>2 DEF ResaveViewshed, TypeOK, site, hist
<1>4. ASSUME NEW x \in Worker, CheckViewshed(x) PROVE TypeOK'
  <2>1. w' \in [Worker -> Local]
    BY <1>4, <1>w, <1>d, <1>p, <1>b, Labels, GotoType, FinishType DEF CheckViewshed,
       Raise, Local
  <2> QED BY <1>4, <2>1 DEF CheckViewshed, TypeOK, site, hist
<1>5. ASSUME NEW x \in Worker, CancelOld(x) PROVE TypeOK'
  <2>1. w' \in [Worker -> Local]
    BY <1>5, <1>w, <1>d, <1>p, <1>b, Labels, GotoType, FinishType DEF CancelOld,
       Raise, Local, Row
  <2>2. revoked' \in [Worker -> SUBSET (Worker \cup {User})]
    BY <1>5, <1>d, <1>w, CancelTaskType DEF CancelOld, TypeOK
  <2> QED BY <1>5, <2>1, <2>2 DEF CancelOld, TypeOK, site, hist
<1>6. ASSUME NEW x \in Worker, DropOld(x) PROVE TypeOK'
  <2>1. w' \in [Worker -> Local]
    BY <1>6, <1>w, Labels, GotoType DEF DropOld
  <2>2. db' \in [Tables -> Row] /\ tiles' \subseteq Keys /\ buildings' \subseteq Building
    BY <1>6, NoRowIsRow DEF DropOld, DeleteRow, TypeOK
  <2> QED BY <1>6, <2>1, <2>2 DEF DropOld, TypeOK, site, hist
<1>7. ASSUME NEW x \in Worker, Recreate(x) PROVE TypeOK'
  <2>1. w' \in [Worker -> Local]
    BY <1>7, <1>w, <1>d, <1>p, <1>b, Labels, GotoType, FinishType DEF Recreate, Raise,
       Local, Tables
  <2>2. db' \in [Tables -> Row] /\ nextId' \in [Tables -> Nat]
    BY <1>7, <1>w, InsertRowType DEF Recreate, TypeOK
  <2> QED BY <1>7, <2>1, <2>2 DEF Recreate, TypeOK, site, hist
<1>8. ASSUME NEW x \in Worker, RefreshSector(x) PROVE TypeOK'
  <2>1. w' \in [Worker -> Local]
    BY <1>8, <1>w, <1>d, <1>p, <1>b, Labels, GotoType, FinishType DEF RefreshSector,
       Raise, Local
  <2> QED BY <1>8, <2>1 DEF RefreshSector, TypeOK, site, hist
<1>9. ASSUME NEW x \in Worker, ReadViewshed(x) PROVE TypeOK'
  <2>1. w' \in [Worker -> Local]
    BY <1>9, <1>w, <1>d, <1>p, <1>b, Labels, GotoType, FinishType DEF ReadViewshed,
       Raise, Local
  <2>2. revoked' \in [Worker -> SUBSET (Worker \cup {User})]
    BY <1>9, <1>d, <1>w, CancelTaskType DEF ReadViewshed, TypeOK
  <2> QED BY <1>9, <2>1, <2>2 DEF ReadViewshed, TypeOK, site, hist
<1>10. ASSUME NEW x \in Worker, Register(x) PROVE TypeOK'
  <2> DEFINE mine == [w[x].row EXCEPT !.task = x]
             next == IF Table(x) = "viewshed" THEN "claim" ELSE "check"
             local == [w[x] EXCEPT !.pc = next, !.row = mine]
  <2>1. mine \in Row
    BY <1>w DEF Local, Row
  <2>2. local \in Local
    BY <1>w, <2>1, Labels DEF Local
  <2>3. db' \in [Tables -> Row] /\ w' \in [Worker -> Local]
    BY <1>10, <2>1, <2>2, SaveRowType, WorkerFacts DEF Register
  <2>4. stamp' \in [Worker -> Nat] /\ clock' \in Nat
    BY <1>10 DEF Register, TypeOK
  <2> QED BY <1>10, <2>3, <2>4 DEF Register, TypeOK, site
<1>11. ASSUME NEW x \in Worker, ClaimHash(x) PROVE TypeOK'
  <2> DEFINE claimed == [w[x].row EXCEPT !.hash = HashOf(x)]
             local == IF Table(x) = "viewshed"
                      THEN [w[x] EXCEPT !.pc = "report", !.then = "wtif", !.row = claimed]
                      ELSE [w[x] EXCEPT !.pc = "list", !.row = claimed]
  <2>1. claimed \in Row
    BY <1>w DEF Local, Row, HashOf, ViewshedHash, Hashes
  <2>2. local \in Local
    BY <1>w, <2>1, Labels DEF Local
  <2>3. db' \in [Tables -> Row] /\ w' \in [Worker -> Local]
    BY <1>11, <2>1, <2>2, SaveRowType, WorkerFacts DEF ClaimHash
  <2> QED BY <1>11, <2>3 DEF ClaimHash, TypeOK, site, hist
<1>12. ASSUME NEW x \in Worker, Report(x) PROVE TypeOK'
  <2>1. w' \in [Worker -> Local]
    BY <1>12, <1>w, <1>d, <1>p, <1>b, Labels, GotoType, FinishType DEF Report, Raise,
       Local
  <2> QED BY <1>12, <2>1 DEF Report, TypeOK, site, hist
<1>13. ASSUME NEW x \in Worker, SaveReport(x) PROVE TypeOK'
  <2>1. [w[x] EXCEPT !.pc = w[x].then, !.buf = NoRow] \in Local
    BY <1>w, NoRowIsRow, Labels DEF Local
  <2>2. db' \in [Tables -> Row] /\ w' \in [Worker -> Local]
    BY <1>13, <1>w, <2>1, SaveRowType DEF SaveReport, Tables
  <2> QED BY <1>13, <2>2 DEF SaveReport, TypeOK, site, hist
<1>14. ASSUME NEW x \in Worker, WriteTif(x) PROVE TypeOK'
  <2>1. w' \in [Worker -> Local]
    BY <1>14, <1>w, <1>d, <1>p, <1>b, Labels, GotoType, FinishType DEF WriteTif,
       Raise, Local
  <2>2. tif' \in Keys
    BY <1>14, <1>w, <1>p DEF WriteTif, Local
  <2> QED BY <1>14, <2>1, <2>2 DEF WriteTif, TypeOK, site, hist
<1>15. ASSUME NEW x \in Worker, SaveTiles(x) PROVE TypeOK'
  <2>1. w' \in [Worker -> Local]
    BY <1>15, <1>w, <1>d, <1>p, <1>b, Labels, GotoType, FinishType DEF SaveTiles,
       Raise, Local
  <2>2. tiles' \subseteq Keys
    BY <1>15, <1>w DEF SaveTiles, TypeOK, Local, Keys
  <2> QED BY <1>15, <2>1, <2>2 DEF SaveTiles, TypeOK, site, hist
<1>16. ASSUME NEW x \in Worker, CacheResult(x) PROVE TypeOK'
  <2>1. [w[x] EXCEPT !.pc = "publish"] \in Local
    BY <1>w, NoRowIsRow, Labels DEF Local
  <2>2. db' \in [Tables -> Row] /\ w' \in [Worker -> Local]
    BY <1>16, <1>w, <2>1, SaveRowType DEF CacheResult, Tables
  <2> QED BY <1>16, <2>2 DEF CacheResult, TypeOK, site, hist
<1>17. ASSUME NEW x \in Worker, Publish(x) PROVE TypeOK'
  <2>1. [w[x] EXCEPT !.pc = "send"] \in Local
    BY <1>w, NoRowIsRow, Labels DEF Local
  <2>2. db' \in [Tables -> Row] /\ w' \in [Worker -> Local]
    BY <1>17, <1>w, <2>1, SaveRowType DEF Publish, Tables
  <2> QED BY <1>17, <2>2 DEF Publish, TypeOK, site, hist
<1>18. ASSUME NEW x \in Worker, SendNearby(x) PROVE TypeOK'
  <2>1. [Fresh EXCEPT !.pc = "done", !.sector = w[x].sector] \in Local
    BY <1>w, FreshIsLocal, Labels DEF Local
  <2>2. w' \in [Worker -> Local]
    BY <1>18, <1>w, <2>1, Labels, WorkerFacts DEF SendNearby, Local
  <2> QED BY <1>18, <2>2 DEF SendNearby, TypeOK, site, hist
<1>19. ASSUME NEW x \in Worker, GetOrCreateCoverage(x) PROVE TypeOK'
  <2>1. w' \in [Worker -> Local]
    BY <1>19, <1>w, <1>d, <1>p, <1>b, Labels, GotoType, FinishType DEF
       GetOrCreateCoverage, Raise, Local, Tables
  <2>2. db' \in [Tables -> Row] /\ nextId' \in [Tables -> Nat]
    BY <1>19, InsertRowType DEF GetOrCreateCoverage, TypeOK, Tables
  <2>3. revoked' \in [Worker -> SUBSET (Worker \cup {User})]
    BY <1>19, <1>d, CancelTaskType DEF GetOrCreateCoverage, TypeOK
  <2> QED BY <1>19, <2>1, <2>2, <2>3 DEF GetOrCreateCoverage, TypeOK, site
<1>20. ASSUME NEW x \in Worker, CheckCoverage(x) PROVE TypeOK'
  <2>1. w' \in [Worker -> Local]
    BY <1>20, <1>w, <1>d, <1>p, <1>b, Labels, GotoType, FinishType DEF CheckCoverage,
       Raise, Local
  <2> QED BY <1>20, <2>1 DEF CheckCoverage, TypeOK, site, hist
<1>21. ASSUME NEW x \in Worker, ClearBuildings(x) PROVE TypeOK'
  <2>1. w' \in [Worker -> Local]
    BY <1>21, <1>w, <1>d, <1>p, <1>b, Labels, GotoType, FinishType DEF ClearBuildings,
       Raise, Local
  <2>2. buildings' \subseteq Building
    BY <1>21, <1>w, <1>p, WorkerFacts DEF ClearBuildings, TypeOK, Building, Local, Keys
  <2> QED BY <1>21, <2>1, <2>2 DEF ClearBuildings, TypeOK, site, hist
<1>22. ASSUME NEW x \in Worker, ListBuildings(x) PROVE TypeOK'
  <2>1. w' \in [Worker -> Local]
    BY <1>22, <1>w, <1>d, <1>p, <1>b, Labels, GotoType, FinishType DEF ListBuildings,
       Raise, Local
  <2>2. [by |-> x[2], area |-> w[x].sector, tif |-> None] \in Building
    BY <1>w, <1>p, WorkerFacts DEF Building, Local
  <2>3. buildings' \subseteq Building
    BY <1>22, <2>2 DEF ListBuildings, TypeOK
  <2> QED BY <1>22, <2>1, <2>3 DEF ListBuildings, TypeOK, site, hist
<1>23. ASSUME NEW x \in Worker, LoadTif(x) PROVE TypeOK'
  <2>1. w' \in [Worker -> Local]
    BY <1>23, <1>w, <1>d, <1>p, <1>b, Labels, GotoType, FinishType DEF LoadTif, Raise,
       Local
  <2> QED BY <1>23, <2>1 DEF LoadTif, TypeOK, site, hist
<1>24. ASSUME NEW x \in Worker, JudgeBuildings(x) PROVE TypeOK'
  <2>1. w' \in [Worker -> Local]
    BY <1>24, <1>w, <1>d, <1>p, <1>b, Labels, GotoType, FinishType DEF JudgeBuildings,
       Raise, Local
  <2>2. \A b \in buildings : [b EXCEPT !.tif = w[x].tif] \in Building
    BY <1>w DEF TypeOK, Building, Local
  <2>3. buildings' \subseteq Building
    BY <1>24, <2>2 DEF JudgeBuildings, TypeOK
  <2> QED BY <1>24, <2>1, <2>3 DEF JudgeBuildings, TypeOK, site, hist
<1>25. ASSUME NEW x \in Worker, CompleteCoverage(x) PROVE TypeOK'
  <2>1. w' \in [Worker -> Local]
    BY <1>25, <1>w, Labels, GotoType, FinishType DEF CompleteCoverage, Raise
  <2>2. [w[x].row EXCEPT !.status = "Complete"] \in Row
    BY <1>w DEF Row, Statuses
  <2>3. db' \in [Tables -> Row]
    BY <1>25, <2>2 DEF CompleteCoverage, TypeOK, Tables
  <2> QED BY <1>25, <2>1, <2>3 DEF CompleteCoverage, TypeOK, site, hist
<1>26. ASSUME NEW x \in Worker, ReportFailure(x) PROVE TypeOK'
  <2>1. w' \in [Worker -> Local]
    BY <1>26, <1>w, <1>d, <1>p, <1>b, Labels, GotoType, FinishType DEF ReportFailure,
       Raise, Local
  <2> QED BY <1>26, <2>1 DEF ReportFailure, TypeOK, site, hist
<1>27. ASSUME NEW x \in Worker, SaveFailure(x) PROVE TypeOK'
  <2>1. w' \in [Worker -> Local]
    BY <1>27, <1>w, Labels, FinishType DEF SaveFailure
  <2>2. db' \in [Tables -> Row]
    BY <1>27, <1>w DEF SaveFailure, TypeOK, Tables
  <2> QED BY <1>27, <2>1, <2>2 DEF SaveFailure, TypeOK, site, hist
<1>28. ASSUME NEW x \in Worker, Fail(x) PROVE TypeOK'
  <2>1. w' \in [Worker -> Local]
    BY <1>28, <1>w, <1>d, <1>p, <1>b, Labels, GotoType, FinishType DEF Fail, Raise,
       Local
  <2> QED BY <1>28, <2>1 DEF Fail, TypeOK, site, hist
<1>29. ASSUME NEW x \in Worker, Kill(x) PROVE TypeOK'
  <2>1. w' \in [Worker -> Local]
    BY <1>29, <1>w, <1>d, <1>p, <1>b, Labels, GotoType, FinishType DEF Kill, Raise,
       Local
  <2> QED BY <1>29, <2>1 DEF Kill, TypeOK, site, hist
<1>30. ASSUME NEW x \in Worker, Crash(x) PROVE TypeOK'
  <2>1. w' \in [Worker -> Local]
    BY <1>30, <1>w, <1>d, <1>p, <1>b, Labels, GotoType, FinishType DEF Crash, Raise,
       Local
  <2> QED BY <1>30, <2>1 DEF Crash, TypeOK, site, hist
<1>s. SendViewshed => w' \in [Worker -> Local]
  <2> SUFFICES ASSUME NEW n \in Idle, Goto(<<"viewshed", n>>, "queued")
               PROVE  w' \in [Worker -> Local]
    BY DEF SendViewshed
  <2>1. <<"viewshed", n>> \in Worker
    BY WorkerFacts DEF Idle, Tables
  <2> QED BY <2>1, <1>w, Labels, GotoType
<1>31. ASSUME Request PROVE TypeOK'
  <2>1. ASSUME NEW k \in Tables, NEW next \in Tables \cup {"ok", "error"},
               CreateRow(k, next)
        PROVE  TypeOK'
    BY <2>1, InsertRowType DEF CreateRow, TypeOK, hist
  <2> QED BY <1>31, <2>1 DEF Request, CreateCoverageRow, CreateViewshedRow, Tables
<1>32. ASSUME UpdateSectors PROVE TypeOK'
  <2>1. w' \in [Worker -> Local]
    BY <1>32, <1>s DEF UpdateSectors, TypeOK
  <2> QED BY <1>32, <2>1 DEF UpdateSectors, TypeOK, hist
<1>33. ASSUME Edit PROVE TypeOK'
  <2>1. ASSUME NEW p \in Params, SaveSector(p) PROVE TypeOK'
    <3>1. w' \in [Worker -> Local]
      BY <2>1, <1>s DEF SaveSector
    <3> QED BY <2>1, <3>1 DEF SaveSector, TypeOK, hist
  <2>2. ASSUME NEW p \in Params, SaveTower(p) PROVE TypeOK'
    BY <2>2 DEF SaveTower, TypeOK, hist
  <2>3. ASSUME DeleteSector PROVE TypeOK'
    BY <2>3, NoRowIsRow DEF DeleteSector, TypeOK
  <2> QED BY <1>33, <2>1, <2>2, <2>3 DEF Edit
<1>34. CASE UNCHANGED vars
  BY <1>34 DEF vars, TypeOK
<1> QED
  BY <1>1, <1>2, <1>3, <1>4, <1>5, <1>6, <1>7, <1>8, <1>9, <1>10, <1>11, <1>12, <1>13,
     <1>14, <1>15, <1>16, <1>17, <1>18, <1>19, <1>20, <1>21, <1>22, <1>23, <1>24,
     <1>25, <1>26, <1>27, <1>28, <1>29, <1>30, <1>31, <1>32, <1>33, <1>34 DEF Next,
     Step, Stop

(* Every reachable state is well-typed.                                    *)
THEOREM TypeCorrect == Spec => []TypeOK
BY InitType, NextType, PTL DEF Spec

-----------------------------------------------------------------------------
(***************************************************************************)
(* Why a task of SectorCoverage revokes only tasks that registered before  *)
(* it did, for every set of parameters, every number of saves and every    *)
(* environment: an inductive invariant over what rows, and the copies of   *)
(* rows that tasks hold, may name.  And on top of it, what the hashes and  *)
(* results in the rows stand for.                                          *)
(***************************************************************************)

-----------------------------------------------------------------------------
(* The inductive invariant.                                                *)

(* Statements a task reaches only before it registers.                     *)
Early == {"idle", "queued", "lookup", "resave", "cancel", "drop", "recreate",
          "refresh", "read", "register"}
BeforeRegistration(x) ==
    w[x].pc \in Early \/ (Table(x) = "viewshed" /\ w[x].pc = "check")

(* A subroutine returns to where it was called from.                       *)
ReturnsRight(x) ==
    /\ w[x].pc = "resave" =>
           w[x].then \in {"check", "cancel"} /\ Table(x) = "viewshed"
    /\ w[x].pc \in {"report", "reported"} => w[x].then \in {"wtif", "tiles", "cache"}

(* A row, or a copy of one, names only a task that has registered.         *)
NamesRegistered(r) == r.task # NoTask => stamp[r.task] # 0
CopiesNameRegistered(x) == NamesRegistered(w[x].row) /\ NamesRegistered(w[x].buf)
RowsNameRegistered == \A k \in Tables : NamesRegistered(db[k])

(* The second task of a save waits for the first.                          *)
NearbyWaits(n) ==
    w[<<"viewshed", n>>].pc \notin Ended => w[<<"coverage", n>>].pc = "idle"

(* The strengthening.                                                      *)
RevocationInv ==
    /\ \A x \in Worker : stamp[x] <= clock
    /\ \A x \in Worker : BeforeRegistration(x) => stamp[x] = 0
    /\ \A x \in Worker : ReturnsRight(x)
    /\ \A x \in Worker : CopiesNameRegistered(x)
    /\ \A n \in Tasks : NearbyWaits(n)
    /\ RowsNameRegistered
    /\ RevocationFollowsRegistration

(* It holds of a sector whose creation is under way.                       *)
LEMMA RevocationInit == Init => RevocationInv
BY WorkerFacts DEF Init, RevocationInv, RevocationFollowsRegistration,
   RevokedEarlier, BeforeRegistration, ReturnsRight, CopiesNameRegistered, RowsNameRegistered,
   NearbyWaits, NamesRegistered, Fresh, NoRow, Blank, Ended, Tables, Worker, Tasks

(* What a task that ended leaves behind.                                   *)
LEMMA FinishFacts ==
    ASSUME NEW x \in Worker, NEW how, w \in [Worker -> Local], Finish(x, how)
    PROVE  /\ w'[x].pc = how /\ w'[x].row = NoRow /\ w'[x].buf = NoRow
           /\ w'[x].sector = w[x].sector /\ w'[x].key = w[x].key
BY DEF Finish, Fresh

(* A task that stopped satisfies what the invariant asks of it.            *)
LEMMA StoppedFacts ==
    ASSUME NEW x \in Worker, w'[x].pc \in Ended, w'[x].row = NoRow, w'[x].buf = NoRow
    PROVE  ~BeforeRegistration(x)' /\ ReturnsRight(x)' /\ CopiesNameRegistered(x)'
BY DEF BeforeRegistration, ReturnsRight, CopiesNameRegistered, NamesRegistered,
   NoRow, Blank, Ended, Early

(* A save stores the row and moves on, or raises.                          *)
LEMMA SaveRowFacts ==
    ASSUME NEW x \in Worker, NEW k \in Tables, NEW r, NEW local,
           w \in [Worker -> Local], db \in [Tables -> Row], SaveRow(x, k, r, local)
    PROVE  \/ w'[x] = local /\ db'[k] = r /\ \A j \in Tables \ {k} : db'[j] = db[j]
           \/ /\ w'[x].pc = "raise" /\ w'[x].row = w[x].row /\ w'[x].buf = w[x].buf
              /\ db' = db
<1>1. w[x] \in Local
  OBVIOUS
<1> QED BY <1>1 DEF SaveRow, Raise, Goto, Local

(* A step of one task that keeps the registrations and revokes only tasks  *)
(* that registered earlier.                                                *)
LEMMA TaskStep ==
    ASSUME TypeOK, RevocationInv, NEW x \in Worker, UNCHANGED <<stamp, clock>>,
           w[x].pc \notin Ended \cup {"idle"},
           \A y \in Worker : y # x => w'[y] = w[y],
           BeforeRegistration(x)' => BeforeRegistration(x),
           ReturnsRight(x)', CopiesNameRegistered(x)', RowsNameRegistered',
           RevocationFollowsRegistration'
    PROVE  RevocationInv'
<1>1. \A y \in Worker : stamp'[y] <= clock'
  BY DEF RevocationInv
<1>2. \A y \in Worker : BeforeRegistration(y)' => stamp'[y] = 0
  BY DEF RevocationInv, BeforeRegistration
<1>3. \A y \in Worker : ReturnsRight(y)' /\ CopiesNameRegistered(y)'
  BY DEF RevocationInv, ReturnsRight, CopiesNameRegistered, NamesRegistered
<1>4. ASSUME NEW n \in Tasks PROVE NearbyWaits(n)'
  <2>1. /\ <<"viewshed", n>> \in Worker /\ <<"coverage", n>> \in Worker
        /\ NearbyWaits(n)
    BY WorkerFacts DEF Tables, RevocationInv
  <2> QED BY <2>1 DEF NearbyWaits
<1> QED BY <1>1, <1>2, <1>3, <1>4 DEF RevocationInv

(* A step of one task that neither registers nor revokes.                  *)
LEMMA QuietStep ==
    ASSUME TypeOK, RevocationInv, NEW x \in Worker, UNCHANGED hist,
           w[x].pc \notin Ended \cup {"idle"},
           \A y \in Worker : y # x => w'[y] = w[y],
           BeforeRegistration(x)' => BeforeRegistration(x),
           ReturnsRight(x)', CopiesNameRegistered(x)', RowsNameRegistered'
    PROVE  RevocationInv'
<1>1. RevocationFollowsRegistration'
  BY DEF RevocationInv, RevocationFollowsRegistration, RevokedEarlier, hist
<1> QED BY <1>1, TaskStep DEF hist

(* A step of no task.                                                      *)
LEMMA UntouchedTasks ==
    ASSUME RevocationInv, UNCHANGED w, UNCHANGED hist, RowsNameRegistered'
    PROVE  RevocationInv'
BY DEF RevocationInv, BeforeRegistration, ReturnsRight, CopiesNameRegistered,
   NamesRegistered, NearbyWaits, RevocationFollowsRegistration, RevokedEarlier, hist

(* Sending the task of a save registers and revokes nothing.               *)
LEMMA SendStep ==
    ASSUME TypeOK, RevocationInv, SendViewshed, UNCHANGED hist, UNCHANGED db
    PROVE  RevocationInv'
<1>1. PICK n \in Idle : Goto(<<"viewshed", n>>, "queued")
  BY DEF SendViewshed
<1> DEFINE x == <<"viewshed", n>>
<1>2. n \in Tasks /\ x \in Worker /\ w[x].pc = "idle"
  BY WorkerFacts DEF Idle, Tables
<1> HIDE DEF x
<1>3. w \in [Worker -> Local] /\ w[x] \in Local
  BY <1>2 DEF TypeOK
<1>4. /\ w'[x].pc = "queued" /\ w'[x].row = w[x].row /\ w'[x].buf = w[x].buf
      /\ \A y \in Worker : y # x => w'[y] = w[y]
  BY <1>1, <1>2, <1>3 DEF Goto, Local, x
<1>5. \A y \in Worker : BeforeRegistration(y)' => BeforeRegistration(y)
  BY <1>2, <1>4 DEF BeforeRegistration, Early
<1>6. \A y \in Worker : ReturnsRight(y)' /\ CopiesNameRegistered(y)'
  BY <1>2, <1>4 DEF RevocationInv, ReturnsRight, CopiesNameRegistered, NamesRegistered,
     hist
<1>7. ASSUME NEW m \in Tasks PROVE NearbyWaits(m)'
  <2>1. /\ <<"viewshed", m>> \in Worker /\ <<"coverage", m>> \in Worker
        /\ <<"coverage", m>> # x /\ NearbyWaits(m)
    BY WorkerFacts DEF Tables, RevocationInv, x
  <2> QED BY <1>2, <1>4, <2>1 DEF NearbyWaits, Ended
<1>8. RowsNameRegistered' /\ RevocationFollowsRegistration'
  BY DEF RevocationInv, RowsNameRegistered, NamesRegistered,
     RevocationFollowsRegistration, RevokedEarlier, hist
<1> QED BY <1>5, <1>6, <1>7, <1>8 DEF RevocationInv, hist

(* Cancelling the task a row names, before one's own registration, revokes *)
(* an earlier task.                                                        *)
LEMMA CancelRevokesEarlier ==
    ASSUME TypeOK, RevocationInv, NEW x \in Worker, NEW r \in Row,
           stamp[x] = 0, NamesRegistered(r), UNCHANGED stamp,
           CancelTask(x, r) \/ UNCHANGED revoked
    PROVE  RevocationFollowsRegistration'
<1>1. \A a, b \in Worker : a \in revoked'[b] => a \in revoked[b] \/ (a = x /\ b = r.task)
  BY DEF CancelTask, TypeOK, Row
<1>2. r.task \in Worker => r.task # NoTask
  BY WorkerFacts
<1> QED BY <1>1, <1>2 DEF RevocationInv, RevocationFollowsRegistration, RevokedEarlier,
           NamesRegistered

(* Every step keeps the strengthening.                                     *)
LEMMA RevocationStep == TypeOK /\ RevocationInv /\ [Next]_vars => RevocationInv'
<1> SUFFICES ASSUME TypeOK, TypeOK', RevocationInv, [Next]_vars PROVE RevocationInv'
  BY NextType
<1>t. /\ w \in [Worker -> Local] /\ w' \in [Worker -> Local]
      /\ stamp \in [Worker -> Nat] /\ db \in [Tables -> Row]
  BY DEF TypeOK
<1>c. clock \in Nat /\ \A x \in Worker : stamp[x] \in Nat /\ stamp[x] <= clock
  BY <1>t DEF TypeOK, RevocationInv
<1>k. \A y \in Worker : /\ w[y].row.task \in Worker \cup {NoTask}
                        /\ w[y].buf.task \in Worker \cup {NoTask}
                        /\ \A k \in Tables : db[k].task \in Worker \cup {NoTask}
  BY <1>t DEF Local, Row
<1>l. \A x \in Worker : w[x] \in Local /\ Table(x) \in Tables
  BY <1>t, WorkerFacts
<1>r. /\ NamesRegistered(db["viewshed"]) /\ NamesRegistered(db["coverage"])
      /\ \A x \in Worker : NamesRegistered(w[x].row) /\ NamesRegistered(w[x].buf)
      /\ \A x \in Worker : ReturnsRight(x)
  BY DEF RevocationInv, CopiesNameRegistered, RowsNameRegistered, Tables
<1>1. ASSUME NEW x \in Worker, GetSector(x) PROVE RevocationInv'
  <2>1. UNCHANGED hist
    BY <1>1 DEF GetSector, hist
  <2>2. /\ \A y \in Worker : y # x => w'[y] = w[y]
        /\ w[x].pc \notin Ended \cup {"idle"}
    BY <1>1, <1>t DEF GetSector, Goto, Raise, Ended
  <2>3. BeforeRegistration(x)' => BeforeRegistration(x)
    BY <1>1, <1>t, <1>l, <1>r DEF GetSector, BeforeRegistration, Early, Goto,
       Raise, Local
  <2>4. ReturnsRight(x)'
    BY <1>1, <1>t, <1>l, <1>r DEF GetSector, ReturnsRight, Goto, Raise, Local
  <2>5. CopiesNameRegistered(x)'
    BY <1>1, <2>1, <1>t, <1>l, <1>r DEF GetSector, CopiesNameRegistered,
       NamesRegistered, hist, Goto, Raise, Local
  <2>6. RowsNameRegistered'
    BY <1>1, <2>1, <1>t, <1>l, <1>r DEF GetSector, RowsNameRegistered,
       NamesRegistered, hist, Goto, Raise, Tables
  <2> QED BY <2>1, <2>2, <2>3, <2>4, <2>5, <2>6, QuietStep
<1>2. ASSUME NEW x \in Worker, GetOrCreateViewshed(x) PROVE RevocationInv'
  <2>1. UNCHANGED hist
    BY <1>2 DEF GetOrCreateViewshed, hist
  <2>2. /\ \A y \in Worker : y # x => w'[y] = w[y]
        /\ w[x].pc \notin Ended \cup {"idle"}
    BY <1>2, <1>t DEF GetOrCreateViewshed, Goto, Raise, Ended
  <2>3. BeforeRegistration(x)' => BeforeRegistration(x)
    BY <1>2, <1>t, <1>l, <1>r DEF GetOrCreateViewshed, BeforeRegistration, Early,
       Goto, Raise, NoRow, Blank, Local, InsertRow
  <2>4. ReturnsRight(x)'
    BY <1>2, <1>t, <1>l, <1>r DEF GetOrCreateViewshed, ReturnsRight, Goto, Raise,
       NoRow, Blank, Local, InsertRow
  <2>5. CopiesNameRegistered(x)'
    BY <1>2, <2>1, <1>t, <1>l, <1>r DEF GetOrCreateViewshed, CopiesNameRegistered,
       NamesRegistered, hist, Goto, Raise, NoRow, Blank, Local, InsertRow
  <2>6. RowsNameRegistered'
    BY <1>2, <2>1, <1>t, <1>l, <1>r DEF GetOrCreateViewshed, RowsNameRegistered,
       NamesRegistered, hist, Goto, Raise, NoRow, Blank, Tables, InsertRow
  <2> QED BY <2>1, <2>2, <2>3, <2>4, <2>5, <2>6, QuietStep
<1>3. ASSUME NEW x \in Worker, ResaveViewshed(x) PROVE RevocationInv'
  <2>1. UNCHANGED hist
    BY <1>3 DEF ResaveViewshed, hist
  <2>2. /\ \A y \in Worker : y # x => w'[y] = w[y]
        /\ w[x].pc \notin Ended \cup {"idle"}
    BY <1>3, <1>t DEF ResaveViewshed, Goto, Raise, Ended, SaveRow
  <2>3. BeforeRegistration(x)' => BeforeRegistration(x)
    BY <1>3, <1>t, <1>l, <1>r DEF ResaveViewshed, BeforeRegistration, Early, Goto,
       Raise, Local, SaveRow
  <2>4. ReturnsRight(x)'
    BY <1>3, <1>t, <1>l, <1>r DEF ResaveViewshed, ReturnsRight, Goto, Raise,
       Local, SaveRow
  <2>5. CopiesNameRegistered(x)'
    BY <1>3, <2>1, <1>t, <1>l, <1>r DEF ResaveViewshed, CopiesNameRegistered,
       NamesRegistered, hist, Goto, Raise, Local, SaveRow
  <2>6. RowsNameRegistered'
    BY <1>3, <2>1, <1>t, <1>l, <1>r DEF ResaveViewshed, RowsNameRegistered,
       NamesRegistered, hist, Goto, Raise, Tables, SaveRow
  <2> QED BY <2>1, <2>2, <2>3, <2>4, <2>5, <2>6, QuietStep
<1>4. ASSUME NEW x \in Worker, CheckViewshed(x) PROVE RevocationInv'
  <2>1. UNCHANGED hist
    BY <1>4 DEF CheckViewshed, hist
  <2>2. /\ \A y \in Worker : y # x => w'[y] = w[y]
        /\ w[x].pc \notin Ended \cup {"idle"}
    BY <1>4, <1>t DEF CheckViewshed, Goto, Raise, Finish, Ended
  <2>a. \/ w'[x].pc \in Ended /\ w'[x].row = NoRow /\ w'[x].buf = NoRow
        \/ /\ w'[x].pc = "raise" \/ (w'[x].pc = "cancel" /\ Table(x) = "viewshed")
           /\ w'[x].row = w[x].row /\ w'[x].buf = w[x].buf
    BY <1>4, <1>t, <1>l, FinishFacts DEF CheckViewshed, Ended, Local, Raise, Goto
  <2>3. (BeforeRegistration(x)' => BeforeRegistration(x)) /\ ReturnsRight(x)'
    BY <1>4, <2>a, StoppedFacts DEF CheckViewshed, BeforeRegistration,
       ReturnsRight, Early
  <2>4. CopiesNameRegistered(x)'
    BY <1>r, <2>1, <2>a, StoppedFacts DEF CopiesNameRegistered, NamesRegistered,
       hist
  <2>5. RowsNameRegistered'
    BY <1>4, <1>r, <2>1 DEF CheckViewshed, RowsNameRegistered, NamesRegistered,
       hist, Tables
  <2> QED BY <2>1, <2>2, <2>3, <2>4, <2>5, QuietStep
<1>5. ASSUME NEW x \in Worker, DropOld(x) PROVE RevocationInv'
  <2>1. UNCHANGED hist
    BY <1>5 DEF DropOld, hist
  <2>2. /\ \A y \in Worker : y # x => w'[y] = w[y]
        /\ w[x].pc \notin Ended \cup {"idle"}
    BY <1>5, <1>t DEF DropOld, Goto, Ended
  <2>3. BeforeRegistration(x)' => BeforeRegistration(x)
    BY <1>5, <1>t, <1>l, <1>r DEF DropOld, BeforeRegistration, Early, Goto, NoRow,
       Blank, Local, DeleteRow
  <2>4. ReturnsRight(x)'
    BY <1>5, <1>t, <1>l, <1>r DEF DropOld, ReturnsRight, Goto, NoRow, Blank,
       Local, DeleteRow
  <2>5. CopiesNameRegistered(x)'
    BY <1>5, <2>1, <1>t, <1>l, <1>r DEF DropOld, CopiesNameRegistered,
       NamesRegistered, hist, Goto, NoRow, Blank, Local, DeleteRow
  <2>6. RowsNameRegistered'
    BY <1>5, <2>1, <1>t, <1>l, <1>r DEF DropOld, RowsNameRegistered,
       NamesRegistered, hist, Goto, NoRow, Blank, Tables, DeleteRow
  <2> QED BY <2>1, <2>2, <2>3, <2>4, <2>5, <2>6, QuietStep
<1>6. ASSUME NEW x \in Worker, Recreate(x) PROVE RevocationInv'
  <2>1. UNCHANGED hist
    BY <1>6 DEF Recreate, hist
  <2>2. /\ \A y \in Worker : y # x => w'[y] = w[y]
        /\ w[x].pc \notin Ended \cup {"idle"}
    BY <1>6, <1>t DEF Recreate, Goto, Raise, Ended
  <2>3. BeforeRegistration(x)' => BeforeRegistration(x)
    BY <1>6, <1>t, <1>l, <1>r DEF Recreate, BeforeRegistration, Early, Goto,
       Raise, Blank, Local, InsertRow
  <2>4. ReturnsRight(x)'
    BY <1>6, <1>t, <1>l, <1>r DEF Recreate, ReturnsRight, Goto, Raise, Blank,
       Local, InsertRow
  <2>5. CopiesNameRegistered(x)'
    BY <1>6, <2>1, <1>t, <1>l, <1>r DEF Recreate, CopiesNameRegistered,
       NamesRegistered, hist, Goto, Raise, Blank, Local, InsertRow
  <2>6. RowsNameRegistered'
    BY <1>6, <2>1, <1>t, <1>l, <1>r DEF Recreate, RowsNameRegistered,
       NamesRegistered, hist, Goto, Raise, Blank, Tables, InsertRow
  <2> QED BY <2>1, <2>2, <2>3, <2>4, <2>5, <2>6, QuietStep
<1>7. ASSUME NEW x \in Worker, RefreshSector(x) PROVE RevocationInv'
  <2>1. UNCHANGED hist
    BY <1>7 DEF RefreshSector, hist
  <2>2. /\ \A y \in Worker : y # x => w'[y] = w[y]
        /\ w[x].pc \notin Ended \cup {"idle"}
    BY <1>7, <1>t DEF RefreshSector, Goto, Raise, Ended
  <2>3. BeforeRegistration(x)' => BeforeRegistration(x)
    BY <1>7, <1>t, <1>l, <1>r DEF RefreshSector, BeforeRegistration, Early, Goto,
       Raise, Local
  <2>4. ReturnsRight(x)'
    BY <1>7, <1>t, <1>l, <1>r DEF RefreshSector, ReturnsRight, Goto, Raise, Local
  <2>5. CopiesNameRegistered(x)'
    BY <1>7, <2>1, <1>t, <1>l, <1>r DEF RefreshSector, CopiesNameRegistered,
       NamesRegistered, hist, Goto, Raise, Local
  <2>6. RowsNameRegistered'
    BY <1>7, <2>1, <1>t, <1>l, <1>r DEF RefreshSector, RowsNameRegistered,
       NamesRegistered, hist, Goto, Raise, Tables
  <2> QED BY <2>1, <2>2, <2>3, <2>4, <2>5, <2>6, QuietStep
<1>8. ASSUME NEW x \in Worker, ClaimHash(x) PROVE RevocationInv'
  <2>1. UNCHANGED hist
    BY <1>8 DEF ClaimHash, hist
  <2>2. /\ \A y \in Worker : y # x => w'[y] = w[y]
        /\ w[x].pc \notin Ended \cup {"idle"}
    BY <1>8, <1>t DEF ClaimHash, Goto, Raise, Ended, SaveRow
  <2> DEFINE claimed == [w[x].row EXCEPT !.hash = HashOf(x)]
             local == IF Table(x) = "viewshed"
                      THEN [w[x] EXCEPT !.pc = "report", !.then = "wtif", !.row = claimed]
                      ELSE [w[x] EXCEPT !.pc = "list", !.row = claimed]
  <2>a. \/ w'[x] = local /\ db'[Table(x)] = claimed
              /\ \A j \in Tables \ {Table(x)} : db'[j] = db[j]
        \/ /\ w'[x].pc = "raise" /\ w'[x].row = w[x].row /\ w'[x].buf = w[x].buf
           /\ db' = db
    BY <1>8, <1>t, <1>l, SaveRowFacts DEF ClaimHash, Tables
  <2>b. /\ local.pc \in {"report", "list"} /\ (local.pc = "report" => local.then = "wtif")
        /\ local.row.task = w[x].row.task /\ local.buf = w[x].buf
        /\ claimed.task = w[x].row.task
    BY <1>l DEF Local, Row
  <2> HIDE DEF local, claimed
  <2>3. (BeforeRegistration(x)' => BeforeRegistration(x)) /\ ReturnsRight(x)'
    BY <2>a, <2>b DEF BeforeRegistration, ReturnsRight, Early
  <2>4. CopiesNameRegistered(x)'
    BY <1>r, <2>1, <2>a, <2>b DEF CopiesNameRegistered, NamesRegistered, hist
  <2>5. RowsNameRegistered'
    BY <1>r, <2>1, <2>a, <2>b DEF RowsNameRegistered, NamesRegistered, hist,
       Tables
  <2> QED BY <2>1, <2>2, <2>3, <2>4, <2>5, QuietStep
<1>9. ASSUME NEW x \in Worker, Report(x) PROVE RevocationInv'
  <2>1. UNCHANGED hist
    BY <1>9 DEF Report, hist
  <2>2. /\ \A y \in Worker : y # x => w'[y] = w[y]
        /\ w[x].pc \notin Ended \cup {"idle"}
    BY <1>9, <1>t DEF Report, Goto, Raise, Ended
  <2>3. BeforeRegistration(x)' => BeforeRegistration(x)
    BY <1>9, <1>t, <1>l, <1>r DEF Report, BeforeRegistration, Early, Goto, Raise,
       NoRow, Blank, Local
  <2>4. ReturnsRight(x)'
    BY <1>9, <1>t, <1>l, <1>r DEF Report, ReturnsRight, Goto, Raise, NoRow, Blank,
       Local
  <2>5. CopiesNameRegistered(x)'
    BY <1>9, <2>1, <1>t, <1>l, <1>r DEF Report, CopiesNameRegistered,
       NamesRegistered, hist, Goto, Raise, NoRow, Blank, Local
  <2>6. RowsNameRegistered'
    BY <1>9, <2>1, <1>t, <1>l, <1>r DEF Report, RowsNameRegistered,
       NamesRegistered, hist, Goto, Raise, NoRow, Blank, Tables
  <2> QED BY <2>1, <2>2, <2>3, <2>4, <2>5, <2>6, QuietStep
<1>10. ASSUME NEW x \in Worker, SaveReport(x) PROVE RevocationInv'
  <2>1. UNCHANGED hist
    BY <1>10 DEF SaveReport, hist
  <2>2. /\ \A y \in Worker : y # x => w'[y] = w[y]
        /\ w[x].pc \notin Ended \cup {"idle"}
    BY <1>10, <1>t DEF SaveReport, Goto, Raise, Ended, SaveRow
  <2> DEFINE local == [w[x] EXCEPT !.pc = w[x].then, !.buf = NoRow]
  <2>a. \/ w'[x] = local /\ db'["viewshed"] = w[x].buf
              /\ \A j \in Tables \ {"viewshed"} : db'[j] = db[j]
        \/ /\ w'[x].pc = "raise" /\ w'[x].row = w[x].row /\ w'[x].buf = w[x].buf
           /\ db' = db
    BY <1>10, <1>t, <1>l, SaveRowFacts DEF SaveReport, Tables
  <2>b. /\ local.pc \in {"wtif", "tiles", "cache"} /\ local.row = w[x].row
        /\ local.buf.task = NoTask
    BY <1>10, <1>l, <1>r DEF SaveReport, ReturnsRight, Local, NoRow, Blank
  <2> HIDE DEF local
  <2>3. (BeforeRegistration(x)' => BeforeRegistration(x)) /\ ReturnsRight(x)'
    BY <2>a, <2>b DEF BeforeRegistration, ReturnsRight, Early
  <2>4. CopiesNameRegistered(x)'
    BY <1>r, <2>1, <2>a, <2>b DEF CopiesNameRegistered, NamesRegistered, hist
  <2>5. RowsNameRegistered'
    BY <1>r, <2>1, <2>a, <2>b DEF RowsNameRegistered, NamesRegistered, hist,
       Tables
  <2> QED BY <2>1, <2>2, <2>3, <2>4, <2>5, QuietStep
<1>11. ASSUME NEW x \in Worker, WriteTif(x) PROVE RevocationInv'
  <2>1. UNCHANGED hist
    BY <1>11 DEF WriteTif, hist
  <2>2. /\ \A y \in Worker : y # x => w'[y] = w[y]
        /\ w[x].pc \notin Ended \cup {"idle"}
    BY <1>11, <1>t DEF WriteTif, Ended
  <2>3. BeforeRegistration(x)' => BeforeRegistration(x)
    BY <1>11, <1>t, <1>l, <1>r DEF WriteTif, BeforeRegistration, Early, Local
  <2>4. ReturnsRight(x)'
    BY <1>11, <1>t, <1>l, <1>r DEF WriteTif, ReturnsRight, Local
  <2>5. CopiesNameRegistered(x)'
    BY <1>11, <2>1, <1>t, <1>l, <1>r DEF WriteTif, CopiesNameRegistered,
       NamesRegistered, hist, Local
  <2>6. RowsNameRegistered'
    BY <1>11, <2>1, <1>t, <1>l, <1>r DEF WriteTif, RowsNameRegistered,
       NamesRegistered, hist, Tables
  <2> QED BY <2>1, <2>2, <2>3, <2>4, <2>5, <2>6, QuietStep
<1>12. ASSUME NEW x \in Worker, SaveTiles(x) PROVE RevocationInv'
  <2>1. UNCHANGED hist
    BY <1>12 DEF SaveTiles, hist
  <2>2. /\ \A y \in Worker : y # x => w'[y] = w[y]
        /\ w[x].pc \notin Ended \cup {"idle"}
    BY <1>12, <1>t DEF SaveTiles, Goto, Raise, Ended
  <2>3. BeforeRegistration(x)' => BeforeRegistration(x)
    BY <1>12, <1>t, <1>l, <1>r DEF SaveTiles, BeforeRegistration, Early, Goto,
       Raise, Local
  <2>4. ReturnsRight(x)'
    BY <1>12, <1>t, <1>l, <1>r DEF SaveTiles, ReturnsRight, Goto, Raise, Local
  <2>5. CopiesNameRegistered(x)'
    BY <1>12, <2>1, <1>t, <1>l, <1>r DEF SaveTiles, CopiesNameRegistered,
       NamesRegistered, hist, Goto, Raise, Local
  <2>6. RowsNameRegistered'
    BY <1>12, <2>1, <1>t, <1>l, <1>r DEF SaveTiles, RowsNameRegistered,
       NamesRegistered, hist, Goto, Raise, Tables
  <2> QED BY <2>1, <2>2, <2>3, <2>4, <2>5, <2>6, QuietStep
<1>13. ASSUME NEW x \in Worker, CacheResult(x) PROVE RevocationInv'
  <2>1. UNCHANGED hist
    BY <1>13 DEF CacheResult, hist
  <2>2. /\ \A y \in Worker : y # x => w'[y] = w[y]
        /\ w[x].pc \notin Ended \cup {"idle"}
    BY <1>13, <1>t DEF CacheResult, Goto, Raise, Ended, SaveRow
  <2>3. BeforeRegistration(x)' => BeforeRegistration(x)
    BY <1>13, <1>t, <1>l, <1>r DEF CacheResult, BeforeRegistration, Early, Goto,
       Raise, Local, SaveRow
  <2>4. ReturnsRight(x)'
    BY <1>13, <1>t, <1>l, <1>r DEF CacheResult, ReturnsRight, Goto, Raise, Local,
       SaveRow
  <2>5. CopiesNameRegistered(x)'
    BY <1>13, <2>1, <1>t, <1>l, <1>r DEF CacheResult, CopiesNameRegistered,
       NamesRegistered, hist, Goto, Raise, Local, SaveRow
  <2>6. RowsNameRegistered'
    BY <1>13, <2>1, <1>t, <1>l, <1>r DEF CacheResult, RowsNameRegistered,
       NamesRegistered, hist, Goto, Raise, Tables, SaveRow
  <2> QED BY <2>1, <2>2, <2>3, <2>4, <2>5, <2>6, QuietStep
<1>14. ASSUME NEW x \in Worker, Publish(x) PROVE RevocationInv'
  <2>1. UNCHANGED hist
    BY <1>14 DEF Publish, hist
  <2>2. /\ \A y \in Worker : y # x => w'[y] = w[y]
        /\ w[x].pc \notin Ended \cup {"idle"}
    BY <1>14, <1>t DEF Publish, Goto, Raise, Ended, SaveRow
  <2>3. BeforeRegistration(x)' => BeforeRegistration(x)
    BY <1>14, <1>t, <1>l, <1>r DEF Publish, BeforeRegistration, Early, Goto,
       Raise, Local, SaveRow
  <2>4. ReturnsRight(x)'
    BY <1>14, <1>t, <1>l, <1>r DEF Publish, ReturnsRight, Goto, Raise, Local,
       SaveRow
  <2>5. CopiesNameRegistered(x)'
    BY <1>14, <2>1, <1>t, <1>l, <1>r DEF Publish, CopiesNameRegistered,
       NamesRegistered, hist, Goto, Raise, Local, SaveRow
  <2>6. RowsNameRegistered'
    BY <1>14, <2>1, <1>t, <1>l, <1>r DEF Publish, RowsNameRegistered,
       NamesRegistered, hist, Goto, Raise, Tables, SaveRow
  <2> QED BY <2>1, <2>2, <2>3, <2>4, <2>5, <2>6, QuietStep
<1>15. ASSUME NEW x \in Worker, CheckCoverage(x) PROVE RevocationInv'
  <2>1. UNCHANGED hist
    BY <1>15 DEF CheckCoverage, hist
  <2>2. /\ \A y \in Worker : y # x => w'[y] = w[y]
        /\ w[x].pc \notin Ended \cup {"idle"}
    BY <1>15, <1>t DEF CheckCoverage, Goto, Raise, Ended
  <2>a. /\ w'[x].pc \in {"raise", "load", "clear"}
        /\ w'[x].row = w[x].row /\ w'[x].buf = w[x].buf
    BY <1>15, <1>t, <1>l DEF CheckCoverage, Raise, Goto, Local
  <2>3. (BeforeRegistration(x)' => BeforeRegistration(x)) /\ ReturnsRight(x)'
    BY <2>a DEF BeforeRegistration, ReturnsRight, Early
  <2>4. CopiesNameRegistered(x)'
    BY <1>r, <2>1, <2>a DEF CopiesNameRegistered, NamesRegistered, hist
  <2>5. RowsNameRegistered'
    BY <1>15, <1>r, <2>1 DEF CheckCoverage, RowsNameRegistered, NamesRegistered,
       hist, Tables
  <2> QED BY <2>1, <2>2, <2>3, <2>4, <2>5, QuietStep
<1>16. ASSUME NEW x \in Worker, ClearBuildings(x) PROVE RevocationInv'
  <2>1. UNCHANGED hist
    BY <1>16 DEF ClearBuildings, hist
  <2>2. /\ \A y \in Worker : y # x => w'[y] = w[y]
        /\ w[x].pc \notin Ended \cup {"idle"}
    BY <1>16, <1>t DEF ClearBuildings, Goto, Ended
  <2>3. BeforeRegistration(x)' => BeforeRegistration(x)
    BY <1>16, <1>t, <1>l, <1>r DEF ClearBuildings, BeforeRegistration, Early,
       Goto, Local
  <2>4. ReturnsRight(x)'
    BY <1>16, <1>t, <1>l, <1>r DEF ClearBuildings, ReturnsRight, Goto, Local
  <2>5. CopiesNameRegistered(x)'
    BY <1>16, <2>1, <1>t, <1>l, <1>r DEF ClearBuildings, CopiesNameRegistered,
       NamesRegistered, hist, Goto, Local
  <2>6. RowsNameRegistered'
    BY <1>16, <2>1, <1>t, <1>l, <1>r DEF ClearBuildings, RowsNameRegistered,
       NamesRegistered, hist, Goto, Tables
  <2> QED BY <2>1, <2>2, <2>3, <2>4, <2>5, <2>6, QuietStep
<1>17. ASSUME NEW x \in Worker, ListBuildings(x) PROVE RevocationInv'
  <2>1. UNCHANGED hist
    BY <1>17 DEF ListBuildings, hist
  <2>2. /\ \A y \in Worker : y # x => w'[y] = w[y]
        /\ w[x].pc \notin Ended \cup {"idle"}
    BY <1>17, <1>t DEF ListBuildings, Goto, Raise, Ended
  <2>3. BeforeRegistration(x)' => BeforeRegistration(x)
    BY <1>17, <1>t, <1>l, <1>r DEF ListBuildings, BeforeRegistration, Early, Goto,
       Raise, Local
  <2>4. ReturnsRight(x)'
    BY <1>17, <1>t, <1>l, <1>r DEF ListBuildings, ReturnsRight, Goto, Raise, Local
  <2>5. CopiesNameRegistered(x)'
    BY <1>17, <2>1, <1>t, <1>l, <1>r, SMTT(30) DEF ListBuildings, CopiesNameRegistered,
       NamesRegistered, hist, Goto, Raise, Local
  <2>6. RowsNameRegistered'
    BY <1>17, <2>1, <1>t, <1>l, <1>r DEF ListBuildings, RowsNameRegistered,
       NamesRegistered, hist, Goto, Raise, Tables
  <2> QED BY <2>1, <2>2, <2>3, <2>4, <2>5, <2>6, QuietStep
<1>18. ASSUME NEW x \in Worker, LoadTif(x) PROVE RevocationInv'
  <2>1. UNCHANGED hist
    BY <1>18 DEF LoadTif, hist
  <2>2. /\ \A y \in Worker : y # x => w'[y] = w[y]
        /\ w[x].pc \notin Ended \cup {"idle"}
    BY <1>18, <1>t DEF LoadTif, Goto, Raise, Ended
  <2>3. BeforeRegistration(x)' => BeforeRegistration(x)
    BY <1>18, <1>t, <1>l, <1>r DEF LoadTif, BeforeRegistration, Early, Goto,
       Raise, NoRow, Blank, Local
  <2>4. ReturnsRight(x)'
    BY <1>18, <1>t, <1>l, <1>r DEF LoadTif, ReturnsRight, Goto, Raise, NoRow,
       Blank, Local
  <2>5. CopiesNameRegistered(x)'
    BY <1>18, <2>1, <1>t, <1>l, <1>r DEF LoadTif, CopiesNameRegistered,
       NamesRegistered, hist, Goto, Raise, NoRow, Blank, Local
  <2>6. RowsNameRegistered'
    BY <1>18, <2>1, <1>t, <1>l, <1>r DEF LoadTif, RowsNameRegistered,
       NamesRegistered, hist, Goto, Raise, NoRow, Blank, Tables
  <2> QED BY <2>1, <2>2, <2>3, <2>4, <2>5, <2>6, QuietStep
<1>19. ASSUME NEW x \in Worker, JudgeBuildings(x) PROVE RevocationInv'
  <2>1. UNCHANGED hist
    BY <1>19 DEF JudgeBuildings, hist
  <2>2. /\ \A y \in Worker : y # x => w'[y] = w[y]
        /\ w[x].pc \notin Ended \cup {"idle"}
    BY <1>19, <1>t DEF JudgeBuildings, Goto, Raise, Ended
  <2>3. BeforeRegistration(x)' => BeforeRegistration(x)
    BY <1>19, <1>t, <1>l, <1>r DEF JudgeBuildings, BeforeRegistration, Early,
       Goto, Raise, Local
  <2>4. ReturnsRight(x)'
    BY <1>19, <1>t, <1>l, <1>r DEF JudgeBuildings, ReturnsRight, Goto, Raise, Local
  <2>5. CopiesNameRegistered(x)'
    BY <1>19, <2>1, <1>t, <1>l, <1>r DEF JudgeBuildings, CopiesNameRegistered,
       NamesRegistered, hist, Goto, Raise, Local
  <2>6. RowsNameRegistered'
    BY <1>19, <2>1, <1>t, <1>l, <1>r DEF JudgeBuildings, RowsNameRegistered,
       NamesRegistered, hist, Goto, Raise, Tables
  <2> QED BY <2>1, <2>2, <2>3, <2>4, <2>5, <2>6, QuietStep
<1>20. ASSUME NEW x \in Worker, CompleteCoverage(x) PROVE RevocationInv'
  <2>1. UNCHANGED hist
    BY <1>20 DEF CompleteCoverage, hist
  <2>2. /\ \A y \in Worker : y # x => w'[y] = w[y]
        /\ w[x].pc \notin Ended \cup {"idle"}
    BY <1>20, <1>t DEF CompleteCoverage, Goto, Raise, Finish, Ended
  <2>a. \/ w'[x].pc \in Ended /\ w'[x].row = NoRow /\ w'[x].buf = NoRow
        \/ w'[x].pc = "raise" /\ w'[x].row = w[x].row /\ w'[x].buf = w[x].buf
    BY <1>20, <1>t, <1>l, FinishFacts DEF CompleteCoverage, Ended, Local, Raise,
       Goto
  <2>b. [w[x].row EXCEPT !.status = "Complete"].task = w[x].row.task
    BY <1>l DEF Local, Row
  <2>3. (BeforeRegistration(x)' => BeforeRegistration(x)) /\ ReturnsRight(x)'
    BY <1>20, <2>a, StoppedFacts DEF BeforeRegistration, ReturnsRight, Early
  <2>4. CopiesNameRegistered(x)'
    BY <1>r, <2>1, <2>a, StoppedFacts DEF CopiesNameRegistered, NamesRegistered,
       hist
  <2>5. RowsNameRegistered'
    BY <1>20, <1>r, <1>t, <2>1, <2>b DEF CompleteCoverage, RowsNameRegistered,
       NamesRegistered, hist, Tables
  <2> QED BY <2>1, <2>2, <2>3, <2>4, <2>5, QuietStep
<1>21. ASSUME NEW x \in Worker, ReportFailure(x) PROVE RevocationInv'
  <2>1. UNCHANGED hist
    BY <1>21 DEF ReportFailure, hist
  <2>2. /\ \A y \in Worker : y # x => w'[y] = w[y]
        /\ w[x].pc \notin Ended \cup {"idle"}
    BY <1>21, <1>t DEF ReportFailure, Finish, Ended
  <2>a. \/ w'[x].pc \in Ended /\ w'[x].row = NoRow /\ w'[x].buf = NoRow
        \/ w'[x].pc = "raised" /\ w'[x].row = w[x].row /\ w'[x].buf = db["viewshed"]
    BY <1>21, <1>t, <1>l, FinishFacts DEF ReportFailure, Ended, Local
  <2>3. (BeforeRegistration(x)' => BeforeRegistration(x)) /\ ReturnsRight(x)'
    BY <1>21, <2>a, StoppedFacts DEF BeforeRegistration, ReturnsRight, Early
  <2>4. CopiesNameRegistered(x)'
    BY <1>r, <2>1, <2>a, StoppedFacts DEF CopiesNameRegistered, NamesRegistered,
       hist
  <2>5. RowsNameRegistered'
    BY <1>21, <1>r, <2>1 DEF ReportFailure, RowsNameRegistered, NamesRegistered,
       hist, Tables
  <2> QED BY <2>1, <2>2, <2>3, <2>4, <2>5, QuietStep
<1>22. ASSUME NEW x \in Worker, SaveFailure(x) PROVE RevocationInv'
  <2>1. UNCHANGED hist
    BY <1>22 DEF SaveFailure, hist
  <2>2. /\ \A y \in Worker : y # x => w'[y] = w[y]
        /\ w[x].pc \notin Ended \cup {"idle"}
    BY <1>22, <1>t DEF SaveFailure, Finish, Ended
  <2>3. BeforeRegistration(x)' => BeforeRegistration(x)
    BY <1>22, <1>t, <1>l, <1>r DEF SaveFailure, BeforeRegistration, Early, Finish,
       Fresh, NoRow, Blank, Local
  <2>4. ReturnsRight(x)'
    BY <1>22, <1>t, <1>l, <1>r DEF SaveFailure, ReturnsRight, Finish, Fresh,
       NoRow, Blank, Local
  <2>5. CopiesNameRegistered(x)'
    BY <1>22, <2>1, <1>t, <1>l, <1>r DEF SaveFailure, CopiesNameRegistered,
       NamesRegistered, hist, Finish, Fresh, NoRow, Blank, Local
  <2>6. RowsNameRegistered'
    BY <1>22, <2>1, <1>t, <1>l, <1>r DEF SaveFailure, RowsNameRegistered,
       NamesRegistered, hist, Finish, Fresh, NoRow, Blank, Tables
  <2> QED BY <2>1, <2>2, <2>3, <2>4, <2>5, <2>6, QuietStep
<1>23. ASSUME NEW x \in Worker, Fail(x) PROVE RevocationInv'
  <2>1. UNCHANGED hist
    BY <1>23 DEF Fail, hist
  <2>2. /\ \A y \in Worker : y # x => w'[y] = w[y]
        /\ w[x].pc \notin Ended \cup {"idle"}
    BY <1>23, <1>t DEF Fail, Goto, Raise, Ended, Compute
  <2>3. BeforeRegistration(x)' => BeforeRegistration(x)
    BY <1>23, <1>t, <1>l, <1>r DEF Fail, BeforeRegistration, Early, Goto, Raise,
       Compute, Local
  <2>4. ReturnsRight(x)'
    BY <1>23, <1>t, <1>l, <1>r DEF Fail, ReturnsRight, Goto, Raise, Compute, Local
  <2>5. CopiesNameRegistered(x)'
    BY <1>23, <2>1, <1>t, <1>l, <1>r DEF Fail, CopiesNameRegistered,
       NamesRegistered, hist, Goto, Raise, Compute, Local
  <2>6. RowsNameRegistered'
    BY <1>23, <2>1, <1>t, <1>l, <1>r DEF Fail, RowsNameRegistered,
       NamesRegistered, hist, Goto, Raise, Compute, Tables
  <2> QED BY <2>1, <2>2, <2>3, <2>4, <2>5, <2>6, QuietStep
<1>24. ASSUME NEW x \in Worker, Kill(x) PROVE RevocationInv'
  <2>1. UNCHANGED hist
    BY <1>24 DEF Kill, hist
  <2>2. /\ \A y \in Worker : y # x => w'[y] = w[y]
        /\ w[x].pc \notin Ended \cup {"idle"}
    BY <1>24, <1>t DEF Kill, Finish, Ended
  <2>3. BeforeRegistration(x)' => BeforeRegistration(x)
    BY <1>24, <1>t, <1>l, <1>r DEF Kill, BeforeRegistration, Early, Finish, Fresh,
       NoRow, Blank, Ended, Local
  <2>4. ReturnsRight(x)'
    BY <1>24, <1>t, <1>l, <1>r DEF Kill, ReturnsRight, Finish, Fresh, NoRow,
       Blank, Ended, Local
  <2>5. CopiesNameRegistered(x)'
    BY <1>24, <2>1, <1>t, <1>l, <1>r DEF Kill, CopiesNameRegistered,
       NamesRegistered, hist, Finish, Fresh, NoRow, Blank, Ended, Local
  <2>6. RowsNameRegistered'
    BY <1>24, <2>1, <1>t, <1>l, <1>r DEF Kill, RowsNameRegistered,
       NamesRegistered, hist, Finish, Fresh, NoRow, Blank, Ended, Tables
  <2> QED BY <2>1, <2>2, <2>3, <2>4, <2>5, <2>6, QuietStep
<1>25. ASSUME NEW x \in Worker, Crash(x) PROVE RevocationInv'
  <2>1. UNCHANGED hist
    BY <1>25 DEF Crash, hist
  <2>2. /\ \A y \in Worker : y # x => w'[y] = w[y]
        /\ w[x].pc \notin Ended \cup {"idle"}
    BY <1>25, <1>t DEF Crash, Finish, Ended
  <2>3. BeforeRegistration(x)' => BeforeRegistration(x)
    BY <1>25, <1>t, <1>l, <1>r DEF Crash, BeforeRegistration, Early, Finish,
       Fresh, NoRow, Blank, Ended, Local
  <2>4. ReturnsRight(x)'
    BY <1>25, <1>t, <1>l, <1>r DEF Crash, ReturnsRight, Finish, Fresh, NoRow,
       Blank, Ended, Local
  <2>5. CopiesNameRegistered(x)'
    BY <1>25, <2>1, <1>t, <1>l, <1>r DEF Crash, CopiesNameRegistered,
       NamesRegistered, hist, Finish, Fresh, NoRow, Blank, Ended, Local
  <2>6. RowsNameRegistered'
    BY <1>25, <2>1, <1>t, <1>l, <1>r DEF Crash, RowsNameRegistered,
       NamesRegistered, hist, Finish, Fresh, NoRow, Blank, Ended, Tables
  <2> QED BY <2>1, <2>2, <2>3, <2>4, <2>5, <2>6, QuietStep
<1>26. ASSUME NEW x \in Worker, CancelOld(x) PROVE RevocationInv'
  <2>1. /\ UNCHANGED <<stamp, clock, db>>
        /\ \A y \in Worker : y # x => w'[y] = w[y]
        /\ w[x].pc = "cancel"
    BY <1>26, <1>t DEF CancelOld, Goto, Raise
  <2>2. stamp[x] = 0
    BY <2>1 DEF RevocationInv, BeforeRegistration, Early
  <2>3. /\ w'[x].pc \in {"raise", "recreate", "drop"}
        /\ w'[x].row = w[x].row /\ w'[x].buf = w[x].buf
    BY <1>26, <1>t, <1>l DEF CancelOld, Goto, Raise, Local
  <2>4. (BeforeRegistration(x)' => BeforeRegistration(x)) /\ ReturnsRight(x)'
    BY <2>1, <2>3 DEF BeforeRegistration, ReturnsRight, Early
  <2>5. CopiesNameRegistered(x)' /\ RowsNameRegistered'
    BY <1>r, <2>1, <2>3 DEF CopiesNameRegistered, RowsNameRegistered, NamesRegistered,
       Tables
  <2>6. db[w[x].on] \in Row /\ NamesRegistered(db[w[x].on])
    BY <1>t, <1>l, <1>r DEF Local, Tables
  <2>7. RevocationFollowsRegistration'
    BY <1>26, <2>1, <2>2, <2>6, CancelRevokesEarlier DEF CancelOld
  <2> QED BY <2>1, <2>4, <2>5, <2>7, TaskStep DEF Ended
<1>27. ASSUME NEW x \in Worker, ReadViewshed(x) PROVE RevocationInv'
  <2>1. /\ UNCHANGED <<stamp, clock, db>>
        /\ \A y \in Worker : y # x => w'[y] = w[y]
        /\ w[x].pc = "read"
    BY <1>27, <1>t DEF ReadViewshed, Goto, Raise
  <2>2. stamp[x] = 0
    BY <2>1 DEF RevocationInv, BeforeRegistration, Early
  <2>3. /\ w'[x].pc \in {"raise", "register"}
        /\ w'[x].row = w[x].row \/ w'[x].row = db["viewshed"]
        /\ w'[x].buf = w[x].buf
    BY <1>27, <1>t, <1>l DEF ReadViewshed, Goto, Raise, Local
  <2>4. (BeforeRegistration(x)' => BeforeRegistration(x)) /\ ReturnsRight(x)'
    BY <2>1, <2>3 DEF BeforeRegistration, ReturnsRight, Early
  <2>5. CopiesNameRegistered(x)' /\ RowsNameRegistered'
    BY <1>r, <2>1, <2>3 DEF CopiesNameRegistered, RowsNameRegistered, NamesRegistered,
       Tables
  <2>6. db["viewshed"] \in Row
    BY <1>t DEF Tables
  <2>7. RevocationFollowsRegistration'
    BY <1>27, <1>r, <2>1, <2>2, <2>6, CancelRevokesEarlier DEF ReadViewshed
  <2> QED BY <2>1, <2>4, <2>5, <2>7, TaskStep DEF Ended
<1>28. ASSUME NEW x \in Worker, GetOrCreateCoverage(x) PROVE RevocationInv'
  <2>1. /\ UNCHANGED <<stamp, clock>>
        /\ \A y \in Worker : y # x => w'[y] = w[y]
        /\ w[x].pc = "lookup"
    BY <1>28, <1>t DEF GetOrCreateCoverage, Goto, Raise
  <2>2. stamp[x] = 0
    BY <2>1 DEF RevocationInv, BeforeRegistration, Early
  <2>3. /\ w'[x].pc \in {"raise", "register"}
        /\ w'[x].row \in {w[x].row, db["coverage"], Blank(nextId["coverage"])}
        /\ w'[x].buf = w[x].buf
    BY <1>28, <1>t, <1>l DEF GetOrCreateCoverage, Goto, Raise, Local
  <2>4. (BeforeRegistration(x)' => BeforeRegistration(x)) /\ ReturnsRight(x)'
    BY <2>1, <2>3 DEF BeforeRegistration, ReturnsRight, Early
  <2>5. NamesRegistered(Blank(nextId["coverage"]))
    BY DEF NamesRegistered, Blank
  <2>6. CopiesNameRegistered(x)'
    BY <1>r, <2>1, <2>3, <2>5 DEF CopiesNameRegistered, NamesRegistered
  <2>7. RowsNameRegistered'
    BY <1>28, <1>r, <1>t, <2>1, <2>5 DEF GetOrCreateCoverage, InsertRow,
       RowsNameRegistered, NamesRegistered, Tables
  <2>8. db["coverage"] \in Row
    BY <1>t DEF Tables
  <2>9. RevocationFollowsRegistration'
    BY <1>28, <1>r, <2>1, <2>2, <2>8, CancelRevokesEarlier DEF GetOrCreateCoverage
  <2> QED BY <2>1, <2>4, <2>6, <2>7, <2>9, TaskStep DEF Ended
<1>29. ASSUME NEW x \in Worker, Register(x) PROVE RevocationInv'
  <2> DEFINE mine == [w[x].row EXCEPT !.task = x]
             next == IF Table(x) = "viewshed" THEN "claim" ELSE "check"
             local == [w[x] EXCEPT !.pc = next, !.row = mine]
  <2>1. /\ UNCHANGED revoked
        /\ \A y \in Worker : y # x => w'[y] = w[y]
        /\ w[x].pc = "register"
        /\ SaveRow(x, Table(x), mine, local)
    BY <1>29, <1>t DEF Register, SaveRow, Goto, Raise
  <2>2. stamp[x] = 0
    BY <2>1 DEF RevocationInv, BeforeRegistration, Early
  <2>3. /\ local.pc = next /\ local.row = mine /\ local.buf = w[x].buf
        /\ mine.task = x
    BY <1>l DEF Local, Row
  <2>4. CASE CanSave(Table(x), mine)
    <3>1. /\ stamp' = [stamp EXCEPT ![x] = clock + 1] /\ clock' = clock + 1
          /\ w'[x] = local /\ db'[Table(x)] = mine
          /\ \A j \in Tables \ {Table(x)} : db'[j] = db[j]
      BY <1>29, <1>t, <1>l, <2>4 DEF Register, SaveRow
    <3> HIDE DEF mine, local
    <3>2. stamp'[x] = clock + 1 /\ \A y \in Worker \ {x} : stamp'[y] = stamp[y]
      BY <1>t, <3>1
    <3>3. ~BeforeRegistration(x)' /\ ReturnsRight(x)'
      BY <2>3, <3>1 DEF BeforeRegistration, ReturnsRight, Early
    <3>4. \A r : NamesRegistered(r) /\ r.task \in Worker \cup {NoTask} => NamesRegistered(r)'
      BY <1>c, <3>2, WorkerFacts DEF NamesRegistered
    <3>5. \A y \in Worker : CopiesNameRegistered(y)'
      <4>1. \A y \in Worker : y # x => CopiesNameRegistered(y)'
        BY <1>r, <1>k, <2>1, <3>4 DEF CopiesNameRegistered, NamesRegistered
      <4>2. CopiesNameRegistered(x)'
        BY <1>r, <1>k, <1>c, <2>3, <3>1, <3>2, <3>4 DEF CopiesNameRegistered, NamesRegistered
      <4> QED BY <4>1, <4>2
    <3>6. RowsNameRegistered'
      <4>1. stamp'[db'[Table(x)].task] # 0
        BY <1>c, <2>3, <3>1, <3>2
      <4>2. ASSUME NEW j \in Tables \ {Table(x)}, db'[j].task # NoTask
            PROVE  stamp'[db'[j].task] # 0
        BY <1>r, <1>k, <3>1, <3>4, <4>2 DEF NamesRegistered, Tables
      <4> QED BY <4>1, <4>2 DEF RowsNameRegistered, NamesRegistered
    <3>7. \A y \in Worker : /\ stamp'[y] <= clock'
                            /\ BeforeRegistration(y)' => stamp'[y] = 0
                            /\ ReturnsRight(y)'
      BY <1>t, <1>c, <2>1, <3>1, <3>2, <3>3 DEF RevocationInv, BeforeRegistration, ReturnsRight
    <3>8. ASSUME NEW n \in Tasks PROVE NearbyWaits(n)'
      <4>1. /\ <<"viewshed", n>> \in Worker /\ <<"coverage", n>> \in Worker
            /\ NearbyWaits(n)
        BY WorkerFacts DEF Tables, RevocationInv
      <4> QED BY <2>1, <4>1 DEF NearbyWaits, Ended
    <3>9. RevocationFollowsRegistration'
      BY <1>t, <1>c, <2>1, <2>2, <3>2 DEF RevocationInv, RevocationFollowsRegistration,
         RevokedEarlier
    <3> QED BY <3>5, <3>6, <3>7, <3>8, <3>9 DEF RevocationInv
  <2>5. CASE ~CanSave(Table(x), mine)
    <3>1. /\ UNCHANGED <<hist, db>>
          /\ w'[x].pc = "raise" /\ w'[x].row = w[x].row /\ w'[x].buf = w[x].buf
      BY <1>29, <1>t, <1>l, <2>1, <2>5 DEF Register, SaveRow, Raise, Goto, Local, hist
    <3>2. (BeforeRegistration(x)' => BeforeRegistration(x)) /\ ReturnsRight(x)'
      BY <3>1 DEF BeforeRegistration, ReturnsRight, Early
    <3>3. CopiesNameRegistered(x)' /\ RowsNameRegistered'
      BY <1>r, <3>1 DEF CopiesNameRegistered, RowsNameRegistered, NamesRegistered, hist,
         Tables
    <3> QED BY <2>1, <3>1, <3>2, <3>3, QuietStep DEF Ended
  <2> QED BY <2>4, <2>5
<1>30. ASSUME NEW x \in Worker, SendNearby(x) PROVE RevocationInv'
  <2> DEFINE c == <<"coverage", x[2]>>
  <2>1. /\ c \in Worker /\ c # x /\ x[2] \in Tasks /\ x = <<"viewshed", x[2]>>
    BY <1>30, WorkerFacts DEF SendNearby, Table, Worker, Tables
  <2> HIDE DEF c
  <2>2. /\ UNCHANGED <<hist, db>> /\ w[x].pc = "send"
        /\ w'[x].pc = "done" /\ w'[x].row = NoRow /\ w'[x].buf = NoRow
        /\ w'[c].pc = "queued" /\ w'[c].row = w[c].row /\ w'[c].buf = w[c].buf
        /\ \A y \in Worker \ {x, c} : w'[y] = w[y]
    BY <1>30, <1>t, <1>l, <2>1 DEF SendNearby, Fresh, Local, hist, c
  <2>3. w[c].pc = "idle" /\ stamp[c] = 0
    BY <2>1, <2>2 DEF RevocationInv, NearbyWaits, Ended, BeforeRegistration, Early, c
  <2>4. ~BeforeRegistration(x)' /\ ReturnsRight(x)' /\ CopiesNameRegistered(x)'
    BY <2>2, StoppedFacts DEF Ended
  <2>5. ReturnsRight(c)' /\ CopiesNameRegistered(c)'
    BY <1>r, <2>1, <2>2 DEF ReturnsRight, CopiesNameRegistered, NamesRegistered, hist
  <2>6. \A y \in Worker : /\ stamp'[y] <= clock'
                          /\ BeforeRegistration(y)' => stamp'[y] = 0
                          /\ ReturnsRight(y)' /\ CopiesNameRegistered(y)'
    BY <2>1, <2>2, <2>3, <2>4, <2>5 DEF RevocationInv, BeforeRegistration, ReturnsRight,
       CopiesNameRegistered, NamesRegistered, hist
  <2>7. RowsNameRegistered'
    BY <2>2 DEF RevocationInv, RowsNameRegistered, NamesRegistered, hist
  <2>8. ASSUME NEW n \in Tasks PROVE NearbyWaits(n)'
    <3>1. /\ <<"viewshed", n>> \in Worker /\ <<"coverage", n>> \in Worker
          /\ NearbyWaits(n)
      BY WorkerFacts DEF Tables, RevocationInv
    <3>2. CASE n = x[2]
      BY <2>1, <2>2, <3>2 DEF NearbyWaits, Ended
    <3>3. CASE n # x[2]
      <4>1. <<"viewshed", n>> \notin {x, c} /\ <<"coverage", n>> \notin {x, c}
        BY <2>1, <3>3 DEF c
      <4> QED BY <2>2, <3>1, <4>1 DEF NearbyWaits
    <3> QED BY <3>2, <3>3
  <2>9. RevocationFollowsRegistration'
    BY <2>2 DEF RevocationInv, RevocationFollowsRegistration, RevokedEarlier, hist
  <2> QED BY <2>6, <2>7, <2>8, <2>9 DEF RevocationInv
<1>31. ASSUME Request PROVE RevocationInv'
  <2>1. ASSUME NEW k \in Tables, NEW next, CreateRow(k, next) PROVE RevocationInv'
    <3>1. RowsNameRegistered'
      BY <1>r, <1>t, <2>1 DEF CreateRow, InsertRow, Blank, RowsNameRegistered,
         NamesRegistered, hist, Tables
    <3> QED BY <2>1, <3>1, UntouchedTasks DEF CreateRow
  <2> QED BY <1>31, <2>1 DEF Request, CreateCoverageRow, CreateViewshedRow, Tables
<1>32. ASSUME UpdateSectors PROVE RevocationInv'
  <2>1. RowsNameRegistered'
    BY <1>32 DEF UpdateSectors, RevocationInv, RowsNameRegistered, NamesRegistered, hist
  <2> QED BY <1>32, <2>1, SendStep, UntouchedTasks DEF UpdateSectors
<1>33. ASSUME Edit PROVE RevocationInv'
  <2>1. ASSUME NEW p \in Params, SaveSector(p) PROVE RevocationInv'
    BY <2>1, SendStep DEF SaveSector
  <2>2. ASSUME NEW p \in Params, SaveTower(p) PROVE RevocationInv'
    <3>1. RowsNameRegistered'
      BY <2>2 DEF SaveTower, RevocationInv, RowsNameRegistered, NamesRegistered, hist
    <3> QED BY <2>2, <3>1, UntouchedTasks DEF SaveTower
  <2>3. ASSUME DeleteSector PROVE RevocationInv'
    <3>1. UNCHANGED <<w, stamp, clock>>
      BY <2>3 DEF DeleteSector
    <3>2. RowsNameRegistered'
      BY <2>3 DEF DeleteSector, RowsNameRegistered, NamesRegistered, NoRow, Blank
    <3>3. \A a, b \in Worker : a \in revoked'[b] => a \in revoked[b]
      BY <2>3, WorkerFacts DEF DeleteSector
    <3>4. RevocationFollowsRegistration'
      BY <3>1, <3>3 DEF RevocationInv, RevocationFollowsRegistration, RevokedEarlier
    <3> QED BY <3>1, <3>2, <3>4 DEF RevocationInv, BeforeRegistration, ReturnsRight,
               CopiesNameRegistered, NamesRegistered, NearbyWaits
  <2> QED BY <1>33, <2>1, <2>2, <2>3 DEF Edit
<1>34. CASE UNCHANGED vars
  <2>1. UNCHANGED <<w, db, hist>>
    BY <1>34 DEF vars, hist
  <2>2. RowsNameRegistered'
    BY <2>1 DEF RevocationInv, RowsNameRegistered, NamesRegistered, hist
  <2> QED BY <2>1, <2>2, UntouchedTasks
<1> QED
  BY <1>1, <1>2, <1>3, <1>4, <1>5, <1>6, <1>7, <1>8, <1>9, <1>10, <1>11, <1>12, <1>13,
     <1>14, <1>15, <1>16, <1>17, <1>18, <1>19, <1>20, <1>21, <1>22, <1>23, <1>24,
     <1>25, <1>26, <1>27, <1>28, <1>29, <1>30, <1>31, <1>32, <1>33, <1>34 DEF Next,
     Step, Stop

(* However saves overlap, a task revokes only tasks that registered before *)
(* it did (cancel_task, on_task_start): RevocationFollowsRegistration of   *)
(* the overlap run, for every number of saves.                             *)
THEOREM RevocationOrdered == Spec => []RevocationFollowsRegistration
<1>1. TypeOK /\ RevocationInv /\ [Next]_vars => (TypeOK /\ RevocationInv)'
  BY NextType, RevocationStep
<1>2. RevocationInv => RevocationFollowsRegistration
  BY DEF RevocationInv
<1> QED BY InitType, RevocationInit, <1>1, <1>2, PTL DEF Spec

-----------------------------------------------------------------------------
(***************************************************************************)
(*                      What the results stand for                         *)
(*                                                                         *)
(* A hash can be traced to the task that put it there, in every            *)
(* environment: every row that is saved, fresh or copied earlier, is       *)
(* accountable already when it is saved, and what vouches for a row (a     *)
(* registration, a computed hash, a revocation) never goes away.           *)
(*                                                                         *)
(* A result that is finished is that of the sector's parameters, where     *)
(* saves wait for each other: one task is under way at a time, and what it *)
(* has done so far follows from the statement it is at.                    *)
(***************************************************************************)

-----------------------------------------------------------------------------
(* Why no cached hash is orphaned: the inductive invariant.                *)

(* Some statements only one of the two tasks has.                          *)
OnItsTable(x) ==
    /\ w[x].pc \in {"resave", "cancel", "drop", "recreate", "refresh", "read", "report",
                    "reported", "wtif", "tiles", "cache", "publish", "send"}
           => Table(x) = "viewshed"
    /\ w[x].pc \in {"clear", "list", "load", "judge", "complete"} => Table(x) = "coverage"

(* The task that a row about to be overwritten names has been revoked.     *)
OldIsRevoked(x) ==
    w[x].pc = "register" /\ w[x].row.task # NoTask => revoked[w[x].row.task] # {}

(* Between its registration and its claim a task holds a row that names it. *)
NamedItself(x) ==
    \/ w[x].pc \in {"clear", "claim"}
    \/ w[x].pc = "check" /\ Table(x) = "coverage"
    => stamp[x] # 0 /\ w[x].row.task = x

(* The accountable rows of each table.  Copies are as accountable as the   *)
(* rows they will be saved to: the row a task works on is of its own       *)
(* table, the one _update_status reads is the viewshed's.                  *)
Sound == [k \in Tables |-> {r \in Row : Accountable(k, r)}]

AccountLocal(x) ==
    /\ OnItsTable(x) /\ OldIsRevoked(x) /\ NamedItself(x)
    /\ w[x].row \in Sound[Table(x)] /\ w[x].buf \in Sound["viewshed"]

AccountInv == /\ \A x \in Worker : AccountLocal(x)
              /\ \A k \in Tables : db[k] \in Sound[k]

(* A row without a hash is accountable.                                    *)
LEMMA BlankIsSound == \A k \in Tables, id \in Nat : Blank(id) \in Sound[k] /\ NoRow \in Sound[k]
BY BlankIsRow DEF Sound, Accountable, Blank, NoRow

(* Only the hash and the task of a row matter.                             *)
LEMMA StatusIsSound ==
    ASSUME NEW k \in Tables, NEW r \in Sound[k], NEW s \in Statuses
    PROVE  [r EXCEPT !.status = s] \in Sound[k]
<1>1. r \in Row /\ Accountable(k, r) /\ [r EXCEPT !.status = s] \in Row
  BY DEF Sound, Row
<1>2. [r EXCEPT !.status = s].hash = r.hash /\ [r EXCEPT !.status = s].task = r.task
  BY <1>1 DEF Row
<1>3. Accountable(k, [r EXCEPT !.status = s])
  BY <1>1, <1>2 DEF Accountable
<1> QED BY <1>1, <1>3 DEF Sound

(* A row in which a task has put itself in the place of one it revoked.    *)
LEMMA MineIsSound ==
    ASSUME TypeOK, NEW x \in Worker, w[x].row \in Sound[Table(x)], OldIsRevoked(x),
           w[x].pc = "register"
    PROVE  [w[x].row EXCEPT !.task = x] \in Sound[Table(x)]
<1> DEFINE r == w[x].row
           mine == [r EXCEPT !.task = x]
           k == Table(x)
<1>1. k \in Tables /\ r \in Row /\ Accountable(k, r) /\ mine \in Row /\ mine.hash = r.hash
  BY WorkerFacts DEF Sound, Row
<1>2. CASE r.hash = None
  <2>1. Accountable(k, mine)
    BY <1>1, <1>2 DEF Accountable
  <2> QED BY <1>1, <2>1 DEF Sound
<1>3. CASE r.hash # None
  <2>1. PICK n \in Tasks : /\ stamp[<<k, n>>] # 0 /\ r.hash = HashOf(<<k, n>>)
                           /\ r.task = <<k, n>> \/ revoked[<<k, n>>] # {}
    BY <1>1, <1>3 DEF Accountable
  <2>2. <<k, n>> # NoTask
    BY <1>1, WorkerFacts
  <2>3. revoked[<<k, n>>] # {}
    BY <2>1, <2>2 DEF OldIsRevoked
  <2>4. Accountable(k, mine)
    BY <1>1, <2>1, <2>3 DEF Accountable
  <2> QED BY <1>1, <2>4 DEF Sound
<1> QED BY <1>2, <1>3

(* A row in which a task that it names has put its hash.                   *)
LEMMA ClaimedIsSound ==
    ASSUME TypeOK, NEW x \in Worker, w[x].pc = "claim", NamedItself(x)
    PROVE  [w[x].row EXCEPT !.hash = HashOf(x)] \in Sound[Table(x)]
<1> DEFINE claimed == [w[x].row EXCEPT !.hash = HashOf(x)]
<1>1. x = <<Table(x), x[2]>> /\ Table(x) \in Tables /\ x[2] \in Tasks
  BY WorkerFacts DEF Worker, Table
<1>2. w[x].row \in Row /\ HashOf(x) \in Hashes
  BY DEF TypeOK, Local, HashOf, ViewshedHash, Hashes
<1>3. claimed \in Row /\ claimed.task = x /\ claimed.hash = HashOf(x)
  BY <1>2 DEF NamedItself, Row
<1> HIDE DEF claimed
<1>4. Accountable(Table(x), claimed)
  BY <1>1, <1>3 DEF Accountable, NamedItself
<1> QED BY <1>1, <1>3, <1>4 DEF Sound, claimed

(* What vouches for a row goes on to: hashes, once registered, and         *)
(* revocations stay.                                                       *)
LEMMA SoundStays ==
    ASSUME \A y \in Worker : /\ stamp[y] # 0 => stamp'[y] # 0
                             /\ stamp[y] # 0 /\ HashOf(y) # None => HashOf(y)' = HashOf(y)
                             /\ revoked[y] \subseteq revoked'[y]
    PROVE  \A k \in Tables : Sound[k] \subseteq Sound'[k]
<1> SUFFICES ASSUME NEW k \in Tables, NEW r \in Row, Accountable(k, r)
             PROVE  Accountable(k, r)'
  BY DEF Sound
<1>1. CASE r.hash = None
  BY <1>1 DEF Accountable
<1>2. CASE r.hash # None
  <2>1. PICK n \in Tasks : /\ stamp[<<k, n>>] # 0 /\ r.hash = HashOf(<<k, n>>)
                           /\ r.task = <<k, n>> \/ revoked[<<k, n>>] # {}
    BY <1>2 DEF Accountable
  <2>2. <<k, n>> \in Worker
    BY WorkerFacts
  <2>3. /\ stamp'[<<k, n>>] # 0 /\ r.hash = HashOf(<<k, n>>)'
        /\ r.task = <<k, n>> \/ revoked'[<<k, n>>] # {}
    BY <1>2, <2>1, <2>2
  <2> QED BY <2>3 DEF Accountable
<1> QED BY <1>1, <1>2

(* A step of one task: what holds of the other tasks still does.           *)
LEMMA TaskAccounts ==
    ASSUME TypeOK, AccountInv, NEW x \in Worker,
           \A y \in Worker : y # x => w'[y] = w[y],
           \A y \in Worker : /\ stamp[y] # 0 => stamp'[y] # 0
                             /\ revoked[y] \subseteq revoked'[y],
           stamp[x] # 0 /\ HashOf(x) # None => HashOf(x)' = HashOf(x),
           OnItsTable(x)' /\ OldIsRevoked(x)' /\ NamedItself(x)',
           w'[x].row \in Sound[Table(x)] /\ w'[x].buf \in Sound["viewshed"],
           \A k \in Tables : db'[k] \in Sound[k]
    PROVE  AccountInv'
<1>1. \A y \in Worker : HashOf(y) # None /\ stamp[y] # 0 => HashOf(y)' = HashOf(y)
  BY DEF HashOf
<1>2. \A k \in Tables : Sound[k] \subseteq Sound'[k]
  BY <1>1, SoundStays
<1>3. \A k \in Tables : db'[k] \in Sound'[k]
  BY <1>2
<1>4. ASSUME NEW y \in Worker PROVE AccountLocal(y)'
  <2>1. Table(y) \in Tables /\ "viewshed" \in Tables
    BY WorkerFacts DEF Tables
  <2>2. CASE y = x
    BY <1>2, <2>1, <2>2 DEF AccountLocal
  <2>3. CASE y # x
    <3>1. AccountLocal(y) /\ w'[y] = w[y] /\ w[y] \in Local
      BY <2>3 DEF AccountInv, TypeOK
    <3>2. OnItsTable(y)' /\ NamedItself(y)'
      BY <3>1 DEF AccountLocal, OnItsTable, NamedItself
    <3>3. OldIsRevoked(y)'
      <4>1. w[y].row.task \in Worker \cup {NoTask}
        BY <3>1 DEF Local, Row
      <4> QED BY <3>1, <4>1 DEF AccountLocal, OldIsRevoked
    <3>4. w'[y].row \in Sound'[Table(y)] /\ w'[y].buf \in Sound'["viewshed"]
      BY <1>2, <2>1, <3>1 DEF AccountLocal
    <3> QED BY <3>2, <3>3, <3>4 DEF AccountLocal
  <2> QED BY <2>2, <2>3
<1> QED BY <1>3, <1>4 DEF AccountInv

(* A step that changes no task.                                            *)
LEMMA NoTaskAccounts ==
    ASSUME TypeOK, AccountInv, UNCHANGED <<w, stamp>>,
           \A y \in Worker : revoked[y] \subseteq revoked'[y],
           \A k \in Tables : db'[k] \in Sound[k]
    PROVE  AccountInv'
<1>1. \A k \in Tables : Sound[k] \subseteq Sound'[k]
  BY SoundStays DEF HashOf
<1>2. ASSUME NEW y \in Worker PROVE AccountLocal(y)'
  <2>1. Table(y) \in Tables /\ "viewshed" \in Tables /\ AccountLocal(y)
    BY WorkerFacts DEF Tables, AccountInv
  <2>2. OnItsTable(y)' /\ NamedItself(y)'
    BY <2>1 DEF AccountLocal, OnItsTable, NamedItself
  <2>3. OldIsRevoked(y)'
    <3>1. w[y].row.task \in Worker \cup {NoTask}
      BY DEF TypeOK, Local, Row
    <3> QED BY <2>1, <3>1 DEF AccountLocal, OldIsRevoked
  <2>4. w'[y].row \in Sound'[Table(y)] /\ w'[y].buf \in Sound'["viewshed"]
    BY <1>1, <2>1 DEF AccountLocal
  <2> QED BY <2>2, <2>3, <2>4 DEF AccountLocal
<1> QED BY <1>1, <1>2 DEF AccountInv

(* Sending a task: it has registered nothing.                              *)
LEMMA SendAccounts ==
    ASSUME TypeOK, RevocationInv, AccountInv, SendViewshed, UNCHANGED <<db, hist>>
    PROVE  AccountInv'
<1>1. PICK n \in Idle : Goto(<<"viewshed", n>>, "queued")
  BY DEF SendViewshed
<1> DEFINE x == <<"viewshed", n>>
<1>2. x \in Worker /\ w[x].pc = "idle"
  BY WorkerFacts DEF Idle, Tables
<1> HIDE DEF x
<1>3. w \in [Worker -> Local] /\ w[x] \in Local /\ AccountLocal(x)
  BY <1>2 DEF TypeOK, AccountInv
<1>4. /\ w'[x].pc = "queued" /\ w'[x].row = w[x].row /\ w'[x].buf = w[x].buf
      /\ w'[x].sector = w[x].sector /\ w'[x].key = w[x].key
      /\ \A y \in Worker : y # x => w'[y] = w[y]
  BY <1>1, <1>2, <1>3 DEF Goto, Local, x
<1>5. HashOf(x)' = HashOf(x) /\ OnItsTable(x)' /\ OldIsRevoked(x)' /\ NamedItself(x)'
  BY <1>4 DEF HashOf, OnItsTable, OldIsRevoked, NamedItself
<1>6. /\ w'[x].row \in Sound[Table(x)] /\ w'[x].buf \in Sound["viewshed"]
      /\ \A k \in Tables : db'[k] \in Sound[k]
  BY <1>3, <1>4 DEF AccountLocal, AccountInv
<1> QED BY <1>2, <1>4, <1>5, <1>6, TaskAccounts DEF hist

(* It holds of a sector whose creation is under way.                       *)
LEMMA AccountInit == Init => AccountInv
<1> SUFFICES ASSUME Init PROVE AccountInv
  OBVIOUS
<1>1. \A k \in Tables : NoRow \in Sound[k] /\ k \in Tables
  BY BlankIsSound
<1>2. ASSUME NEW x \in Worker PROVE AccountLocal(x)
  <2>1. /\ w[x].pc \in {"idle", "queued"} /\ w[x].row = NoRow /\ w[x].buf = NoRow
        /\ Table(x) \in Tables /\ "viewshed" \in Tables
    BY WorkerFacts DEF Init, Fresh, Tables
  <2> QED BY <1>1, <2>1 DEF AccountLocal, OnItsTable, OldIsRevoked, NamedItself
<1>3. \A k \in Tables : db[k] \in Sound[k]
  BY <1>1 DEF Init
<1> QED BY <1>2, <1>3 DEF AccountInv

(* A save of a row moves the task on, or raises.                           *)
LEMMA SavedOrRaised ==
    ASSUME NEW x \in Worker, NEW k \in Tables, NEW r, NEW local \in Local,
           w \in [Worker -> Local], db \in [Tables -> Row], SaveRow(x, k, r, local),
           local.row = w[x].row, local.buf \in {w[x].buf, NoRow},
           local.sector = w[x].sector, local.key = w[x].key
    PROVE  /\ \A y \in Worker : y # x => w'[y] = w[y]
           /\ w'[x].pc \in {local.pc, "raise"} /\ w'[x].row = w[x].row
           /\ w'[x].buf \in {w[x].buf, NoRow}
           /\ w'[x].sector = w[x].sector /\ w'[x].key = w[x].key
           /\ \A j \in Tables : db'[j] = db[j] \/ (j = k /\ db'[j] = r)
<1>1. w[x] \in Local
  OBVIOUS
<1>2. CASE w' = [w EXCEPT ![x] = local] /\ db' = [db EXCEPT ![k] = r]
  BY <1>2
<1>3. CASE w' = [w EXCEPT ![x].pc = "raise"] /\ db' = db
  BY <1>1, <1>3 DEF Local
<1> QED BY <1>2, <1>3 DEF SaveRow, Raise, Goto

(* A task that has stopped has nothing left to account for.                *)
LEMMA StoppedAccounts ==
    ASSUME TypeOK, AccountInv, NEW x \in Worker, NEW how \in Ended, Finish(x, how),
           UNCHANGED <<stamp, revoked>>, \A k \in Tables : db'[k] \in Sound[k]
    PROVE  AccountInv'
<1>1. /\ w'[x].pc \in Ended /\ w'[x].row = NoRow /\ w'[x].buf = NoRow
      /\ w'[x].sector = w[x].sector /\ w'[x].key = w[x].key
      /\ \A y \in Worker : y # x => w'[y] = w[y]
  <2>1. w \in [Worker -> Local]
    BY DEF TypeOK
  <2>2. \A y \in Worker : y # x => w'[y] = w[y]
    BY <2>1 DEF Finish
  <2> QED BY <2>1, <2>2, FinishFacts
<1>2. OnItsTable(x)' /\ OldIsRevoked(x)' /\ NamedItself(x)' /\ HashOf(x)' = HashOf(x)
  BY <1>1 DEF OnItsTable, OldIsRevoked, NamedItself, HashOf, Ended
<1>3. NoRow \in Sound[Table(x)] /\ NoRow \in Sound["viewshed"]
  BY BlankIsSound, WorkerFacts DEF Tables
<1> QED BY <1>1, <1>2, <1>3, TaskAccounts

(* A task that goes on with what it has in memory.                         *)
LEMMA GoneOnAccounts ==
    ASSUME TypeOK, AccountInv, NEW x \in Worker, NEW l \in PC, Goto(x, l),
           OnItsTable(x)' /\ OldIsRevoked(x)' /\ NamedItself(x)',
           UNCHANGED stamp, \A y \in Worker : revoked[y] \subseteq revoked'[y],
           \A k \in Tables : db'[k] \in Sound[k]
    PROVE  AccountInv'
<1>1. w \in [Worker -> Local] /\ w[x] \in Local /\ AccountLocal(x)
  BY DEF TypeOK, AccountInv
<1>2. /\ w'[x].row = w[x].row /\ w'[x].buf = w[x].buf
      /\ w'[x].sector = w[x].sector /\ w'[x].key = w[x].key
      /\ \A y \in Worker : y # x => w'[y] = w[y]
  BY <1>1 DEF Goto, Local
<1>3. HashOf(x)' = HashOf(x)
  BY <1>2 DEF HashOf
<1> QED BY <1>1, <1>2, <1>3, TaskAccounts DEF AccountLocal

(* Every step keeps it.                                                    *)
LEMMA AccountStep == TypeOK /\ RevocationInv /\ AccountInv /\ [Next]_vars => AccountInv'
<1> SUFFICES ASSUME TypeOK, RevocationInv, AccountInv, [Next]_vars PROVE AccountInv'
  OBVIOUS
<1>t. /\ w \in [Worker -> Local] /\ stamp \in [Worker -> Nat] /\ db \in [Tables -> Row]
      /\ revoked \in [Worker -> SUBSET (Worker \cup {User})]
  BY DEF TypeOK
<1>l. \A x \in Worker : /\ w[x] \in Local /\ Table(x) \in Tables
                        /\ Table(x) = "viewshed" \/ Table(x) = "coverage"
                        /\ ReturnsRight(x)
  BY <1>t, WorkerFacts DEF RevocationInv, Tables
<1>e. \A x \in Worker : BeforeRegistration(x) => stamp[x] = 0
  BY DEF RevocationInv
<1>i. \A x \in Worker : OnItsTable(x) /\ OldIsRevoked(x) /\ NamedItself(x)
  BY DEF AccountInv, AccountLocal
<1>s. /\ \A x \in Worker : w[x].row \in Sound[Table(x)] /\ w[x].buf \in Sound["viewshed"]
      /\ \A k \in Tables : db[k] \in Sound[k]
      /\ db["viewshed"] \in Sound["viewshed"] /\ db["coverage"] \in Sound["coverage"]
  BY DEF AccountInv, AccountLocal, Tables
<1>b. \A k \in Tables : /\ Blank(nextId[k]) \in Sound[k] /\ NoRow \in Sound[k]
                        /\ Blank(nextId[k]).task = NoTask
  BY BlankIsSound DEF TypeOK, Blank
<1>o. /\ "viewshed" \in Tables /\ "coverage" \in Tables
      /\ \A x \in Worker : OnItsTable(x) /\ Table(x) \in Tables
  BY <1>i, <1>l DEF Tables

<1>1. ASSUME NEW x \in Worker, GetSector(x) PROVE AccountInv'
  <2>1. /\ \A y \in Worker : y # x => w'[y] = w[y]
        /\ UNCHANGED stamp /\ \A y \in Worker : revoked[y] \subseteq revoked'[y]
    BY <1>1, <1>t DEF GetSector, hist, Goto, Raise
  <2>2. stamp[x] # 0 /\ HashOf(x) # None => HashOf(x)' = HashOf(x)
    BY <1>1, <1>t, <1>l, <1>e DEF GetSector, HashOf, Local, Goto, Raise
  <2>3. OnItsTable(x)' /\ OldIsRevoked(x)' /\ NamedItself(x)'
    BY <1>1, <1>t, <1>l, <1>i, <1>b DEF GetSector, OnItsTable, OldIsRevoked,
       NamedItself, hist, Local, Goto, Raise
  <2>4. w'[x].row \in Sound[Table(x)] /\ w'[x].buf \in Sound["viewshed"]
    BY <1>1, <1>t, <1>l, <1>s, <1>b, <1>o DEF GetSector, OnItsTable, Local,
       Goto, Raise
  <2>5. \A k \in Tables : db'[k] \in Sound[k]
    BY <1>1, <1>t, <1>l, <1>s, <1>b, <1>o DEF GetSector, OnItsTable, Local,
       Tables, Goto, Raise
  <2> QED BY <2>1, <2>2, <2>3, <2>4, <2>5, TaskAccounts
<1>2. ASSUME NEW x \in Worker, GetOrCreateViewshed(x) PROVE AccountInv'
  <2>1. /\ \A y \in Worker : y # x => w'[y] = w[y]
        /\ UNCHANGED stamp /\ \A y \in Worker : revoked[y] \subseteq revoked'[y]
    BY <1>2, <1>t DEF GetOrCreateViewshed, hist, Goto, Raise, InsertRow
  <2>2. stamp[x] # 0 /\ HashOf(x) # None => HashOf(x)' = HashOf(x)
    BY <1>2, <1>t, <1>l, <1>e DEF GetOrCreateViewshed, HashOf, Local, Goto,
       Raise, InsertRow
  <2>3. OnItsTable(x)' /\ OldIsRevoked(x)' /\ NamedItself(x)'
    BY <1>2, <1>t, <1>l, <1>i, <1>b DEF GetOrCreateViewshed, OnItsTable,
       OldIsRevoked, NamedItself, hist, Local, Goto, Raise, InsertRow
  <2>4. w'[x].row \in Sound[Table(x)] /\ w'[x].buf \in Sound["viewshed"]
    BY <1>2, <1>t, <1>l, <1>s, <1>b, <1>o DEF GetOrCreateViewshed, OnItsTable,
       Local, Goto, Raise, InsertRow
  <2>5. \A k \in Tables : db'[k] \in Sound[k]
    BY <1>2, <1>t, <1>l, <1>s, <1>b, <1>o DEF GetOrCreateViewshed, OnItsTable,
       Local, Tables, Goto, Raise, InsertRow
  <2> QED BY <2>1, <2>2, <2>3, <2>4, <2>5, TaskAccounts
<1>3. ASSUME NEW x \in Worker, ResaveViewshed(x) PROVE AccountInv'
  <2> DEFINE local == [w[x] EXCEPT !.pc = w[x].then]
  <2>1. /\ SaveRow(x, "viewshed", w[x].row, local) /\ UNCHANGED <<stamp, revoked>>
        /\ Table(x) = "viewshed" /\ w[x].pc = "resave"
    BY <1>3, <1>i DEF ResaveViewshed, hist, OnItsTable
  <2>2. /\ local \in Local /\ local.row = w[x].row /\ local.buf \in {w[x].buf, NoRow}
        /\ local.sector = w[x].sector /\ local.key = w[x].key /\ local.pc = w[x].then
    BY <1>l, NoRowIsRow, Labels DEF Local
  <2> HIDE DEF local
  <2>3. /\ \A y \in Worker : y # x => w'[y] = w[y]
        /\ w'[x].pc \in {w[x].then, "raise"} /\ w'[x].row = w[x].row
        /\ w'[x].buf \in {w[x].buf, NoRow}
        /\ w'[x].sector = w[x].sector /\ w'[x].key = w[x].key
        /\ \A j \in Tables : db'[j] = db[j] \/ (j = "viewshed" /\ db'[j] = w[x].row)
    BY <1>t, <1>o, <2>1, <2>2, SavedOrRaised
  <2>4. HashOf(x)' = HashOf(x) /\ OnItsTable(x)' /\ OldIsRevoked(x)' /\ NamedItself(x)'
    BY <1>l, <2>1, <2>3 DEF HashOf, OnItsTable, OldIsRevoked, NamedItself, ReturnsRight
  <2>5. w'[x].row \in Sound[Table(x)] /\ w'[x].buf \in Sound["viewshed"]
    BY <1>s, <1>b, <1>o, <2>3
  <2>6. \A k \in Tables : db'[k] \in Sound[k]
    BY <1>s, <2>1, <2>3
  <2> QED BY <2>1, <2>3, <2>4, <2>5, <2>6, TaskAccounts
<1>4. ASSUME NEW x \in Worker, CheckViewshed(x) PROVE AccountInv'
  <2>1. UNCHANGED <<stamp, revoked, db>> /\ Table(x) = "viewshed"
    BY <1>4 DEF CheckViewshed, hist
  <2>2. CASE Finish(x, "done")
    BY <1>s, <2>1, <2>2, StoppedAccounts DEF Ended
  <2>3. ASSUME NEW l \in {"raise", "cancel"}, Goto(x, l) PROVE AccountInv'
    <3>1. w'[x].pc = l
      BY <1>t, <1>l, <2>3 DEF Goto, Local
    <3>2. OnItsTable(x)' /\ OldIsRevoked(x)' /\ NamedItself(x)'
      BY <2>1, <3>1 DEF OnItsTable, OldIsRevoked, NamedItself
    <3> QED BY <1>s, <2>1, <2>3, <3>2, GoneOnAccounts, Labels
  <2> QED BY <1>4, <2>2, <2>3 DEF CheckViewshed, Raise
<1>5. ASSUME NEW x \in Worker, CancelOld(x) PROVE AccountInv'
  <2>1. /\ \A y \in Worker : y # x => w'[y] = w[y]
        /\ UNCHANGED stamp /\ \A y \in Worker : revoked[y] \subseteq revoked'[y]
    BY <1>5, <1>t DEF CancelOld, hist, Goto, Raise, CancelTask
  <2>2. stamp[x] # 0 /\ HashOf(x) # None => HashOf(x)' = HashOf(x)
    BY <1>5, <1>t, <1>l, <1>e DEF CancelOld, HashOf, Local, Goto, Raise,
       CancelTask
  <2>3. OnItsTable(x)' /\ OldIsRevoked(x)' /\ NamedItself(x)'
    BY <1>5, <1>t, <1>l, <1>i, <1>b DEF CancelOld, OnItsTable, OldIsRevoked,
       NamedItself, hist, Local, Goto, Raise, CancelTask
  <2>4. w'[x].row \in Sound[Table(x)] /\ w'[x].buf \in Sound["viewshed"]
    BY <1>5, <1>t, <1>l, <1>s, <1>b, <1>o DEF CancelOld, OnItsTable, Local,
       Goto, Raise, CancelTask
  <2>5. \A k \in Tables : db'[k] \in Sound[k]
    BY <1>5, <1>t, <1>l, <1>s, <1>b, <1>o DEF CancelOld, OnItsTable, Local,
       Tables, Goto, Raise, CancelTask
  <2> QED BY <2>1, <2>2, <2>3, <2>4, <2>5, TaskAccounts
<1>6. ASSUME NEW x \in Worker, DropOld(x) PROVE AccountInv'
  <2>1. /\ \A y \in Worker : y # x => w'[y] = w[y]
        /\ UNCHANGED stamp /\ \A y \in Worker : revoked[y] \subseteq revoked'[y]
    BY <1>6, <1>t DEF DropOld, hist, Goto, DeleteRow
  <2>2. stamp[x] # 0 /\ HashOf(x) # None => HashOf(x)' = HashOf(x)
    BY <1>6, <1>t, <1>l, <1>e DEF DropOld, HashOf, Local, Goto, DeleteRow
  <2>3. OnItsTable(x)' /\ OldIsRevoked(x)' /\ NamedItself(x)'
    BY <1>6, <1>t, <1>l, <1>i, <1>b DEF DropOld, OnItsTable, OldIsRevoked,
       NamedItself, hist, Local, Goto, DeleteRow
  <2>4. w'[x].row \in Sound[Table(x)] /\ w'[x].buf \in Sound["viewshed"]
    BY <1>6, <1>t, <1>l, <1>s, <1>b, <1>o DEF DropOld, OnItsTable, Local, Goto,
       DeleteRow
  <2>5. \A k \in Tables : db'[k] \in Sound[k]
    BY <1>6, <1>t, <1>l, <1>s, <1>b, <1>o DEF DropOld, OnItsTable, Local,
       Tables, Goto, DeleteRow
  <2> QED BY <2>1, <2>2, <2>3, <2>4, <2>5, TaskAccounts
<1>7. ASSUME NEW x \in Worker, Recreate(x) PROVE AccountInv'
  <2>1. /\ \A y \in Worker : y # x => w'[y] = w[y]
        /\ UNCHANGED stamp /\ \A y \in Worker : revoked[y] \subseteq revoked'[y]
    BY <1>7, <1>t DEF Recreate, hist, Goto, Raise, InsertRow
  <2>2. stamp[x] # 0 /\ HashOf(x) # None => HashOf(x)' = HashOf(x)
    BY <1>7, <1>t, <1>l, <1>e DEF Recreate, HashOf, Local, Goto, Raise,
       InsertRow
  <2>3. OnItsTable(x)' /\ OldIsRevoked(x)' /\ NamedItself(x)'
    BY <1>7, <1>t, <1>l, <1>i, <1>b DEF Recreate, OnItsTable, OldIsRevoked,
       NamedItself, hist, Local, Goto, Raise, InsertRow
  <2>4. w'[x].row \in Sound[Table(x)] /\ w'[x].buf \in Sound["viewshed"]
    BY <1>7, <1>t, <1>l, <1>s, <1>b, <1>o DEF Recreate, OnItsTable, Local,
       Goto, Raise, InsertRow
  <2>5. \A k \in Tables : db'[k] \in Sound[k]
    BY <1>7, <1>t, <1>l, <1>s, <1>b, <1>o DEF Recreate, OnItsTable, Local,
       Tables, Goto, Raise, InsertRow
  <2> QED BY <2>1, <2>2, <2>3, <2>4, <2>5, TaskAccounts
<1>8. ASSUME NEW x \in Worker, RefreshSector(x) PROVE AccountInv'
  <2>1. /\ \A y \in Worker : y # x => w'[y] = w[y]
        /\ UNCHANGED stamp /\ \A y \in Worker : revoked[y] \subseteq revoked'[y]
    BY <1>8, <1>t DEF RefreshSector, hist, Goto, Raise
  <2>2. stamp[x] # 0 /\ HashOf(x) # None => HashOf(x)' = HashOf(x)
    BY <1>8, <1>t, <1>l, <1>e DEF RefreshSector, HashOf, Local, Goto, Raise
  <2>3. OnItsTable(x)' /\ OldIsRevoked(x)' /\ NamedItself(x)'
    BY <1>8, <1>t, <1>l, <1>i, <1>b DEF RefreshSector, OnItsTable,
       OldIsRevoked, NamedItself, hist, Local, Goto, Raise
  <2>4. w'[x].row \in Sound[Table(x)] /\ w'[x].buf \in Sound["viewshed"]
    BY <1>8, <1>t, <1>l, <1>s, <1>b, <1>o DEF RefreshSector, OnItsTable, Local,
       Goto, Raise
  <2>5. \A k \in Tables : db'[k] \in Sound[k]
    BY <1>8, <1>t, <1>l, <1>s, <1>b, <1>o DEF RefreshSector, OnItsTable, Local,
       Tables, Goto, Raise
  <2> QED BY <2>1, <2>2, <2>3, <2>4, <2>5, TaskAccounts
<1>9. ASSUME NEW x \in Worker, ReadViewshed(x) PROVE AccountInv'
  <2>1. /\ UNCHANGED <<stamp, db>> /\ w[x].pc = "read"
        /\ \A y \in Worker : revoked[y] \subseteq revoked'[y]
    BY <1>9, <1>t DEF ReadViewshed, CancelTask
  <2>2. CASE Raise(x)
    <3>1. w'[x].pc = "raise"
      BY <1>t, <1>l, <2>2 DEF Raise, Goto, Local
    <3>2. OnItsTable(x)' /\ OldIsRevoked(x)' /\ NamedItself(x)'
      BY <3>1 DEF OnItsTable, OldIsRevoked, NamedItself
    <3> QED BY <1>s, <2>1, <2>2, <3>2, GoneOnAccounts, Labels DEF Raise
  <2>3. CASE /\ CancelTask(x, db["viewshed"])
             /\ w' = [w EXCEPT ![x].pc = "register", ![x].row = db["viewshed"]]
    <3>1. /\ w'[x].pc = "register" /\ w'[x].row = db["viewshed"] /\ w'[x].buf = w[x].buf
          /\ w'[x].sector = w[x].sector /\ w'[x].key = w[x].key
          /\ \A y \in Worker : y # x => w'[y] = w[y]
      BY <1>t, <1>l, <2>3 DEF Local
    <3>2. db["viewshed"].task # NoTask => revoked'[db["viewshed"].task] # {}
      <4>1. db["viewshed"].task \in Worker \cup {NoTask}
        BY <1>t, <1>o DEF Row
      <4> QED BY <1>t, <2>3, <4>1 DEF CancelTask
    <3>3. /\ OnItsTable(x)' /\ OldIsRevoked(x)' /\ NamedItself(x)' /\ HashOf(x)' = HashOf(x)
          /\ Table(x) = "viewshed"
      BY <1>i, <2>1, <3>1, <3>2 DEF OnItsTable, OldIsRevoked, NamedItself, HashOf
    <3> QED BY <1>s, <2>1, <3>1, <3>3, TaskAccounts
  <2> QED BY <1>9, <2>2, <2>3 DEF ReadViewshed
<1>10. ASSUME NEW x \in Worker, Register(x) PROVE AccountInv'
  <2> DEFINE mine == [w[x].row EXCEPT !.task = x]
             next == IF Table(x) = "viewshed" THEN "claim" ELSE "check"
             local == [w[x] EXCEPT !.pc = next, !.row = mine]
  <2>1. /\ w[x].pc = "register" /\ UNCHANGED revoked
        /\ SaveRow(x, Table(x), mine, local)
        /\ IF CanSave(Table(x), mine)
           THEN stamp' = [stamp EXCEPT ![x] = clock + 1] ELSE UNCHANGED stamp
    BY <1>10 DEF Register
  <2>2. /\ local.pc = next /\ local.row = mine /\ local.buf = w[x].buf
        /\ local.sector = w[x].sector /\ local.key = w[x].key /\ mine.task = x
        /\ mine \in Sound[Table(x)]
    BY <1>l, <1>i, <1>s, <2>1, MineIsSound DEF Local, Row
  <2> HIDE DEF mine, local
  <2>3. /\ \A y \in Worker : y # x => w'[y] = w[y] /\ stamp'[y] = stamp[y]
        /\ stamp[x] = 0
    BY <1>t, <1>e, <2>1 DEF SaveRow, Raise, Goto, BeforeRegistration, Early
  <2>4. CASE CanSave(Table(x), mine)
    <3>1. /\ w'[x] = local /\ stamp'[x] = clock + 1
          /\ db' = [db EXCEPT ![Table(x)] = mine]
      BY <1>t, <2>1, <2>4 DEF SaveRow
    <3>2. OnItsTable(x)' /\ OldIsRevoked(x)' /\ NamedItself(x)'
      <4>1. stamp'[x] # 0
        BY <3>1 DEF TypeOK
      <4> QED BY <2>2, <3>1, <4>1 DEF OnItsTable, OldIsRevoked, NamedItself
    <3>3. /\ w'[x].row \in Sound[Table(x)] /\ w'[x].buf \in Sound["viewshed"]
          /\ \A k \in Tables : db'[k] \in Sound[k]
      BY <1>t, <1>s, <2>2, <3>1
    <3> QED BY <2>1, <2>3, <3>2, <3>3, TaskAccounts
  <2>5. CASE ~CanSave(Table(x), mine)
    <3>1. w' = [w EXCEPT ![x].pc = "raise"] /\ db' = db
      BY <2>1, <2>5 DEF SaveRow, Raise, Goto
    <3>2. w'[x].pc = "raise" /\ w'[x].row = w[x].row /\ w'[x].buf = w[x].buf
      BY <1>t, <1>l, <3>1 DEF Local
    <3>3. OnItsTable(x)' /\ OldIsRevoked(x)' /\ NamedItself(x)'
      BY <3>2 DEF OnItsTable, OldIsRevoked, NamedItself
    <3> QED BY <1>s, <2>1, <2>3, <3>1, <3>2, <3>3, TaskAccounts
  <2> QED BY <2>4, <2>5
<1>11. ASSUME NEW x \in Worker, ClaimHash(x) PROVE AccountInv'
  <2> DEFINE claimed == [w[x].row EXCEPT !.hash = HashOf(x)]
             local == IF Table(x) = "viewshed"
                      THEN [w[x] EXCEPT !.pc = "report", !.then = "wtif", !.row = claimed]
                      ELSE [w[x] EXCEPT !.pc = "list", !.row = claimed]
  <2>1. /\ w[x].pc = "claim" /\ UNCHANGED <<revoked, stamp>>
        /\ SaveRow(x, Table(x), claimed, local)
    BY <1>11 DEF ClaimHash, hist
  <2>2. /\ local.pc = IF Table(x) = "viewshed" THEN "report" ELSE "list"
        /\ local.row = claimed /\ local.buf = w[x].buf
        /\ local.sector = w[x].sector /\ local.key = w[x].key
    BY <1>l DEF Local
  <2>3. claimed \in Sound[Table(x)]
    BY <1>i, <2>1, ClaimedIsSound
  <2> HIDE DEF claimed, local
  <2>4. \A y \in Worker : y # x => w'[y] = w[y]
    BY <1>t, <2>1 DEF SaveRow, Raise, Goto
  <2>5. CASE CanSave(Table(x), claimed)
    <3>1. w'[x] = local /\ db' = [db EXCEPT ![Table(x)] = claimed]
      BY <1>t, <2>1, <2>5 DEF SaveRow
    <3>2. OnItsTable(x)' /\ OldIsRevoked(x)' /\ NamedItself(x)'
      BY <1>l, <2>2, <3>1 DEF OnItsTable, OldIsRevoked, NamedItself
    <3>3. /\ w'[x].row \in Sound[Table(x)] /\ w'[x].buf \in Sound["viewshed"]
          /\ \A k \in Tables : db'[k] \in Sound[k]
      BY <1>t, <1>s, <2>2, <2>3, <3>1
    <3>4. HashOf(x)' = HashOf(x)
      BY <2>2, <3>1 DEF HashOf
    <3> QED BY <2>1, <2>4, <3>2, <3>3, <3>4, TaskAccounts
  <2>6. CASE ~CanSave(Table(x), claimed)
    <3>1. w' = [w EXCEPT ![x].pc = "raise"] /\ db' = db
      BY <2>1, <2>6 DEF SaveRow, Raise, Goto
    <3>2. /\ w'[x].pc = "raise" /\ w'[x].row = w[x].row /\ w'[x].buf = w[x].buf
          /\ w'[x].sector = w[x].sector /\ w'[x].key = w[x].key
      BY <1>t, <1>l, <3>1 DEF Local
    <3>3. HashOf(x)' = HashOf(x) /\ OnItsTable(x)' /\ OldIsRevoked(x)' /\ NamedItself(x)'
      BY <3>2 DEF HashOf, OnItsTable, OldIsRevoked, NamedItself
    <3> QED BY <1>s, <2>1, <2>4, <3>1, <3>2, <3>3, TaskAccounts
  <2> QED BY <2>5, <2>6
<1>12. ASSUME NEW x \in Worker, Report(x) PROVE AccountInv'
  <2>1. /\ \A y \in Worker : y # x => w'[y] = w[y]
        /\ UNCHANGED stamp /\ \A y \in Worker : revoked[y] \subseteq revoked'[y]
    BY <1>12, <1>t DEF Report, hist, Goto, Raise
  <2>2. stamp[x] # 0 /\ HashOf(x) # None => HashOf(x)' = HashOf(x)
    BY <1>12, <1>t, <1>l, <1>e DEF Report, HashOf, Local, Goto, Raise
  <2>3. OnItsTable(x)' /\ OldIsRevoked(x)' /\ NamedItself(x)'
    BY <1>12, <1>t, <1>l, <1>i, <1>b DEF Report, OnItsTable, OldIsRevoked,
       NamedItself, hist, Local, Goto, Raise
  <2>4. w'[x].row \in Sound[Table(x)] /\ w'[x].buf \in Sound["viewshed"]
    BY <1>12, <1>t, <1>l, <1>s, <1>b, <1>o DEF Report, OnItsTable, Local, Goto,
       Raise
  <2>5. \A k \in Tables : db'[k] \in Sound[k]
    BY <1>12, <1>t, <1>l, <1>s, <1>b, <1>o DEF Report, OnItsTable, Local,
       Tables, Goto, Raise
  <2> QED BY <2>1, <2>2, <2>3, <2>4, <2>5, TaskAccounts
<1>13. ASSUME NEW x \in Worker, SaveReport(x) PROVE AccountInv'
  <2> DEFINE local == [w[x] EXCEPT !.pc = w[x].then, !.buf = NoRow]
  <2>1. /\ SaveRow(x, "viewshed", w[x].buf, local) /\ UNCHANGED <<stamp, revoked>>
        /\ Table(x) = "viewshed" /\ w[x].pc = "reported"
    BY <1>13, <1>i DEF SaveReport, hist, OnItsTable
  <2>2. /\ local \in Local /\ local.row = w[x].row /\ local.buf \in {w[x].buf, NoRow}
        /\ local.sector = w[x].sector /\ local.key = w[x].key /\ local.pc = w[x].then
    BY <1>l, NoRowIsRow, Labels DEF Local
  <2> HIDE DEF local
  <2>3. /\ \A y \in Worker : y # x => w'[y] = w[y]
        /\ w'[x].pc \in {w[x].then, "raise"} /\ w'[x].row = w[x].row
        /\ w'[x].buf \in {w[x].buf, NoRow}
        /\ w'[x].sector = w[x].sector /\ w'[x].key = w[x].key
        /\ \A j \in Tables : db'[j] = db[j] \/ (j = "viewshed" /\ db'[j] = w[x].buf)
    BY <1>t, <1>o, <2>1, <2>2, SavedOrRaised
  <2>4. HashOf(x)' = HashOf(x) /\ OnItsTable(x)' /\ OldIsRevoked(x)' /\ NamedItself(x)'
    BY <1>l, <2>1, <2>3 DEF HashOf, OnItsTable, OldIsRevoked, NamedItself, ReturnsRight
  <2>5. w'[x].row \in Sound[Table(x)] /\ w'[x].buf \in Sound["viewshed"]
    BY <1>s, <1>b, <1>o, <2>3
  <2>6. \A k \in Tables : db'[k] \in Sound[k]
    BY <1>s, <2>1, <2>3
  <2> QED BY <2>1, <2>3, <2>4, <2>5, <2>6, TaskAccounts
<1>14. ASSUME NEW x \in Worker, WriteTif(x) PROVE AccountInv'
  <2>1. /\ \A y \in Worker : y # x => w'[y] = w[y]
        /\ UNCHANGED stamp /\ \A y \in Worker : revoked[y] \subseteq revoked'[y]
    BY <1>14, <1>t DEF WriteTif, hist, Goto
  <2>2. stamp[x] # 0 /\ HashOf(x) # None => HashOf(x)' = HashOf(x)
    BY <1>14, <1>t, <1>l, <1>e DEF WriteTif, HashOf, Local, Goto
  <2>3. OnItsTable(x)' /\ OldIsRevoked(x)' /\ NamedItself(x)'
    BY <1>14, <1>t, <1>l, <1>i, <1>b DEF WriteTif, OnItsTable, OldIsRevoked,
       NamedItself, hist, Local, Goto
  <2>4. w'[x].row \in Sound[Table(x)] /\ w'[x].buf \in Sound["viewshed"]
    BY <1>14, <1>t, <1>l, <1>s, <1>b, <1>o DEF WriteTif, OnItsTable, Local,
       Goto
  <2>5. \A k \in Tables : db'[k] \in Sound[k]
    BY <1>14, <1>t, <1>l, <1>s, <1>b, <1>o DEF WriteTif, OnItsTable, Local,
       Tables, Goto
  <2> QED BY <2>1, <2>2, <2>3, <2>4, <2>5, TaskAccounts
<1>15. ASSUME NEW x \in Worker, SaveTiles(x) PROVE AccountInv'
  <2>1. /\ \A y \in Worker : y # x => w'[y] = w[y]
        /\ UNCHANGED stamp /\ \A y \in Worker : revoked[y] \subseteq revoked'[y]
    BY <1>15, <1>t DEF SaveTiles, hist, Goto, Raise
  <2>2. stamp[x] # 0 /\ HashOf(x) # None => HashOf(x)' = HashOf(x)
    BY <1>15, <1>t, <1>l, <1>e DEF SaveTiles, HashOf, Local, Goto, Raise
  <2>3. OnItsTable(x)' /\ OldIsRevoked(x)' /\ NamedItself(x)'
    BY <1>15, <1>t, <1>l, <1>i, <1>b DEF SaveTiles, OnItsTable, OldIsRevoked,
       NamedItself, hist, Local, Goto, Raise
  <2>4. w'[x].row \in Sound[Table(x)] /\ w'[x].buf \in Sound["viewshed"]
    BY <1>15, <1>t, <1>l, <1>s, <1>b, <1>o DEF SaveTiles, OnItsTable, Local,
       Goto, Raise
  <2>5. \A k \in Tables : db'[k] \in Sound[k]
    BY <1>15, <1>t, <1>l, <1>s, <1>b, <1>o DEF SaveTiles, OnItsTable, Local,
       Tables, Goto, Raise
  <2> QED BY <2>1, <2>2, <2>3, <2>4, <2>5, TaskAccounts
<1>16. ASSUME NEW x \in Worker, CacheResult(x) PROVE AccountInv'
  <2> DEFINE local == [w[x] EXCEPT !.pc = "publish"]
  <2>1. /\ SaveRow(x, "viewshed", w[x].row, local) /\ UNCHANGED <<stamp, revoked>>
        /\ Table(x) = "viewshed" /\ w[x].pc = "cache"
    BY <1>16, <1>i DEF CacheResult, hist, OnItsTable
  <2>2. /\ local \in Local /\ local.row = w[x].row /\ local.buf \in {w[x].buf, NoRow}
        /\ local.sector = w[x].sector /\ local.key = w[x].key /\ local.pc = "publish"
    BY <1>l, NoRowIsRow, Labels DEF Local
  <2> HIDE DEF local
  <2>3. /\ \A y \in Worker : y # x => w'[y] = w[y]
        /\ w'[x].pc \in {"publish", "raise"} /\ w'[x].row = w[x].row
        /\ w'[x].buf \in {w[x].buf, NoRow}
        /\ w'[x].sector = w[x].sector /\ w'[x].key = w[x].key
        /\ \A j \in Tables : db'[j] = db[j] \/ (j = "viewshed" /\ db'[j] = w[x].row)
    BY <1>t, <1>o, <2>1, <2>2, SavedOrRaised
  <2>4. HashOf(x)' = HashOf(x) /\ OnItsTable(x)' /\ OldIsRevoked(x)' /\ NamedItself(x)'
    BY <1>l, <2>1, <2>3 DEF HashOf, OnItsTable, OldIsRevoked, NamedItself, ReturnsRight
  <2>5. w'[x].row \in Sound[Table(x)] /\ w'[x].buf \in Sound["viewshed"]
    BY <1>s, <1>b, <1>o, <2>3
  <2>6. \A k \in Tables : db'[k] \in Sound[k]
    BY <1>s, <2>1, <2>3
  <2> QED BY <2>1, <2>3, <2>4, <2>5, <2>6, TaskAccounts
<1>17. ASSUME NEW x \in Worker, Publish(x) PROVE AccountInv'
  <2> DEFINE local == [w[x] EXCEPT !.pc = "send"]
  <2>1. /\ SaveRow(x, "viewshed", w[x].row, local) /\ UNCHANGED <<stamp, revoked>>
        /\ Table(x) = "viewshed" /\ w[x].pc = "publish"
    BY <1>17, <1>i DEF Publish, hist, OnItsTable
  <2>2. /\ local \in Local /\ local.row = w[x].row /\ local.buf \in {w[x].buf, NoRow}
        /\ local.sector = w[x].sector /\ local.key = w[x].key /\ local.pc = "send"
    BY <1>l, NoRowIsRow, Labels DEF Local
  <2> HIDE DEF local
  <2>3. /\ \A y \in Worker : y # x => w'[y] = w[y]
        /\ w'[x].pc \in {"send", "raise"} /\ w'[x].row = w[x].row
        /\ w'[x].buf \in {w[x].buf, NoRow}
        /\ w'[x].sector = w[x].sector /\ w'[x].key = w[x].key
        /\ \A j \in Tables : db'[j] = db[j] \/ (j = "viewshed" /\ db'[j] = w[x].row)
    BY <1>t, <1>o, <2>1, <2>2, SavedOrRaised
  <2>4. HashOf(x)' = HashOf(x) /\ OnItsTable(x)' /\ OldIsRevoked(x)' /\ NamedItself(x)'
    BY <1>l, <2>1, <2>3 DEF HashOf, OnItsTable, OldIsRevoked, NamedItself, ReturnsRight
  <2>5. w'[x].row \in Sound[Table(x)] /\ w'[x].buf \in Sound["viewshed"]
    BY <1>s, <1>b, <1>o, <2>3
  <2>6. \A k \in Tables : db'[k] \in Sound[k]
    BY <1>s, <2>1, <2>3
  <2> QED BY <2>1, <2>3, <2>4, <2>5, <2>6, TaskAccounts
<1>18. ASSUME NEW x \in Worker, SendNearby(x) PROVE AccountInv'
  <2> DEFINE c == <<"coverage", x[2]>>
  <2>1. /\ c \in Worker /\ c # x /\ x[2] \in Tasks /\ x = <<"viewshed", x[2]>>
        /\ Table(x) = "viewshed" /\ Table(c) = "coverage"
    BY <1>18, WorkerFacts DEF SendNearby, Table, Worker, Tables
  <2> HIDE DEF c
  <2>2. /\ UNCHANGED <<revoked, stamp, db>> /\ w[x].pc = "send"
        /\ w'[x].pc = "done" /\ w'[x].row = NoRow /\ w'[x].buf = NoRow
        /\ w'[x].sector = w[x].sector
        /\ w'[c].pc = "queued" /\ w'[c].row = w[c].row /\ w'[c].buf = w[c].buf
        /\ w'[c].key = w[c].key
        /\ \A y \in Worker \ {x, c} : w'[y] = w[y]
    BY <1>18, <1>t, <1>l, <2>1 DEF SendNearby, Fresh, Local, hist, c
  <2>3. \A y \in Worker : HashOf(y)' = HashOf(y)
    BY <2>1, <2>2 DEF HashOf
  <2>4. \A k \in Tables : Sound[k] \subseteq Sound'[k]
    BY <2>2, <2>3, SoundStays
  <2>5. \A k \in Tables : db'[k] \in Sound'[k]
    BY <1>s, <2>2, <2>4
  <2>6. ASSUME NEW y \in Worker PROVE AccountLocal(y)'
    <3>1. OnItsTable(y)' /\ OldIsRevoked(y)' /\ NamedItself(y)'
      <4>1. CASE y \in {x, c}
        BY <2>2, <4>1 DEF OnItsTable, OldIsRevoked, NamedItself
      <4>2. CASE y \notin {x, c}
        BY <1>i, <2>2, <4>2 DEF OnItsTable, OldIsRevoked, NamedItself
      <4> QED BY <4>1, <4>2
    <3>2. w'[y].row \in {w[y].row, NoRow} /\ w'[y].buf \in {w[y].buf, NoRow}
      BY <2>2
    <3>3. w'[y].row \in Sound[Table(y)] /\ w'[y].buf \in Sound["viewshed"]
      BY <1>s, <1>b, <1>l, <1>o, <3>2
    <3> QED BY <1>l, <1>o, <2>4, <3>1, <3>3 DEF AccountLocal
  <2> QED BY <2>5, <2>6 DEF AccountInv
<1>19. ASSUME NEW x \in Worker, GetOrCreateCoverage(x) PROVE AccountInv'
  <2>1. /\ UNCHANGED stamp /\ w[x].pc = "lookup" /\ Table(x) = "coverage" /\ stamp[x] = 0
        /\ \A y \in Worker : revoked[y] \subseteq revoked'[y]
    BY <1>19, <1>t, <1>e DEF GetOrCreateCoverage, CancelTask, BeforeRegistration, Early
  <2>2. \A k \in Tables : db'[k] \in Sound[k]
    BY <1>19, <1>t, <1>s, <1>b DEF GetOrCreateCoverage, InsertRow
  <2>3. CASE Raise(x)
    <3>1. w'[x].pc = "raise"
      BY <1>t, <1>l, <2>3 DEF Raise, Goto, Local
    <3>2. OnItsTable(x)' /\ OldIsRevoked(x)' /\ NamedItself(x)'
      BY <3>1 DEF OnItsTable, OldIsRevoked, NamedItself
    <3> QED BY <2>1, <2>2, <2>3, <3>2, GoneOnAccounts, Labels DEF Raise
  <2>4. CASE /\ CancelTask(x, db["coverage"])
             /\ w' = [w EXCEPT ![x].pc = "register", ![x].row = db["coverage"]]
    <3>1. /\ w'[x].pc = "register" /\ w'[x].row = db["coverage"] /\ w'[x].buf = w[x].buf
          /\ \A y \in Worker : y # x => w'[y] = w[y]
      BY <1>t, <1>l, <2>4 DEF Local
    <3>2. db["coverage"].task # NoTask => revoked'[db["coverage"].task] # {}
      <4>1. db["coverage"].task \in Worker \cup {NoTask}
        BY <1>t, <1>o DEF Row
      <4> QED BY <1>t, <2>4, <4>1 DEF CancelTask
    <3>3. OnItsTable(x)' /\ OldIsRevoked(x)' /\ NamedItself(x)'
      BY <2>1, <3>1, <3>2 DEF OnItsTable, OldIsRevoked, NamedItself
    <3> QED BY <1>s, <2>1, <2>2, <3>1, <3>3, TaskAccounts
  <2>5. CASE w' = [w EXCEPT ![x].pc = "register", ![x].key = CoverageHash(w[x].sector),
                            ![x].row = Blank(nextId["coverage"])]
    <3>1. /\ w'[x].pc = "register" /\ w'[x].row = Blank(nextId["coverage"])
          /\ w'[x].buf = w[x].buf
          /\ \A y \in Worker : y # x => w'[y] = w[y]
      BY <1>t, <1>l, <2>5 DEF Local
    <3>2. OnItsTable(x)' /\ OldIsRevoked(x)' /\ NamedItself(x)'
      BY <1>b, <1>o, <2>1, <3>1 DEF OnItsTable, OldIsRevoked, NamedItself
    <3> QED BY <1>s, <1>b, <1>o, <2>1, <2>2, <3>1, <3>2, TaskAccounts
  <2> QED BY <1>19, <2>3, <2>4, <2>5 DEF GetOrCreateCoverage
<1>20. ASSUME NEW x \in Worker, CheckCoverage(x) PROVE AccountInv'
  <2>1. /\ \A y \in Worker : y # x => w'[y] = w[y]
        /\ UNCHANGED stamp /\ \A y \in Worker : revoked[y] \subseteq revoked'[y]
    BY <1>20, <1>t DEF CheckCoverage, hist, Goto, Raise
  <2>2. stamp[x] # 0 /\ HashOf(x) # None => HashOf(x)' = HashOf(x)
    BY <1>20, <1>t, <1>l, <1>e DEF CheckCoverage, HashOf, Local, Goto, Raise
  <2>3. OnItsTable(x)' /\ OldIsRevoked(x)' /\ NamedItself(x)'
    BY <1>20, <1>t, <1>l, <1>i, <1>b DEF CheckCoverage, OnItsTable,
       OldIsRevoked, NamedItself, hist, Local, Goto, Raise
  <2>4. w'[x].row \in Sound[Table(x)] /\ w'[x].buf \in Sound["viewshed"]
    BY <1>20, <1>t, <1>l, <1>s, <1>b, <1>o DEF CheckCoverage, OnItsTable,
       Local, Goto, Raise
  <2>5. \A k \in Tables : db'[k] \in Sound[k]
    BY <1>20, <1>t, <1>l, <1>s, <1>b, <1>o DEF CheckCoverage, OnItsTable,
       Local, Tables, Goto, Raise
  <2> QED BY <2>1, <2>2, <2>3, <2>4, <2>5, TaskAccounts
<1>21. ASSUME NEW x \in Worker, ClearBuildings(x) PROVE AccountInv'
  <2>1. UNCHANGED <<stamp, revoked, db>> /\ w[x].pc = "clear" /\ Goto(x, "claim")
    BY <1>21 DEF ClearBuildings, hist
  <2>2. w'[x].pc = "claim" /\ w'[x].row = w[x].row
    BY <1>t, <1>l, <2>1 DEF Goto, Local
  <2>3. OnItsTable(x)' /\ OldIsRevoked(x)' /\ NamedItself(x)'
    BY <1>i, <2>1, <2>2 DEF OnItsTable, OldIsRevoked, NamedItself
  <2> QED BY <1>s, <2>1, <2>3, GoneOnAccounts, Labels
<1>22. ASSUME NEW x \in Worker, ListBuildings(x) PROVE AccountInv'
  <2>1. UNCHANGED <<stamp, revoked, db>> /\ w[x].pc = "list" /\ Table(x) = "coverage"
    BY <1>22, <1>i DEF ListBuildings, hist, OnItsTable
  <2>2. ASSUME NEW l \in {"raise", "load"}, Goto(x, l) PROVE AccountInv'
    <3>1. w'[x].pc = l
      BY <1>t, <1>l, <2>2 DEF Goto, Local
    <3>2. OnItsTable(x)' /\ OldIsRevoked(x)' /\ NamedItself(x)'
      BY <2>1, <3>1 DEF OnItsTable, OldIsRevoked, NamedItself
    <3> QED BY <1>s, <2>1, <2>2, <3>2, GoneOnAccounts, Labels
  <2> QED BY <1>22, <2>2 DEF ListBuildings, Raise
<1>23. ASSUME NEW x \in Worker, LoadTif(x) PROVE AccountInv'
  <2>1. /\ \A y \in Worker : y # x => w'[y] = w[y]
        /\ UNCHANGED stamp /\ \A y \in Worker : revoked[y] \subseteq revoked'[y]
    BY <1>23, <1>t DEF LoadTif, hist, Goto, Raise
  <2>2. stamp[x] # 0 /\ HashOf(x) # None => HashOf(x)' = HashOf(x)
    BY <1>23, <1>t, <1>l, <1>e DEF LoadTif, HashOf, Local, Goto, Raise
  <2>3. OnItsTable(x)' /\ OldIsRevoked(x)' /\ NamedItself(x)'
    BY <1>23, <1>t, <1>l, <1>i, <1>b DEF LoadTif, OnItsTable, OldIsRevoked,
       NamedItself, hist, Local, Goto, Raise
  <2>4. w'[x].row \in Sound[Table(x)] /\ w'[x].buf \in Sound["viewshed"]
    BY <1>23, <1>t, <1>l, <1>s, <1>b, <1>o DEF LoadTif, OnItsTable, Local,
       Goto, Raise
  <2>5. \A k \in Tables : db'[k] \in Sound[k]
    BY <1>23, <1>t, <1>l, <1>s, <1>b, <1>o DEF LoadTif, OnItsTable, Local,
       Tables, Goto, Raise
  <2> QED BY <2>1, <2>2, <2>3, <2>4, <2>5, TaskAccounts
<1>24. ASSUME NEW x \in Worker, JudgeBuildings(x) PROVE AccountInv'
  <2>1. UNCHANGED <<stamp, revoked, db>> /\ w[x].pc = "judge" /\ Table(x) = "coverage"
    BY <1>24, <1>i DEF JudgeBuildings, hist, OnItsTable
  <2>2. ASSUME NEW l \in {"raise", "complete"}, Goto(x, l) PROVE AccountInv'
    <3>1. w'[x].pc = l
      BY <1>t, <1>l, <2>2 DEF Goto, Local
    <3>2. OnItsTable(x)' /\ OldIsRevoked(x)' /\ NamedItself(x)'
      BY <2>1, <3>1 DEF OnItsTable, OldIsRevoked, NamedItself
    <3> QED BY <1>s, <2>1, <2>2, <3>2, GoneOnAccounts, Labels
  <2> QED BY <1>24, <2>2 DEF JudgeBuildings, Raise
<1>25. ASSUME NEW x \in Worker, CompleteCoverage(x) PROVE AccountInv'
  <2>1. UNCHANGED <<stamp, revoked>> /\ w[x].pc = "complete" /\ Table(x) = "coverage"
    BY <1>25, <1>i DEF CompleteCoverage, hist, OnItsTable
  <2>2. \A k \in Tables : db'[k] \in Sound[k]
    <3>1. [w[x].row EXCEPT !.status = "Complete"] \in Sound["coverage"]
      BY <1>s, <1>o, <2>1, StatusIsSound DEF Statuses
    <3> QED BY <1>25, <1>t, <1>s, <3>1 DEF CompleteCoverage
  <2>3. CASE Finish(x, "done")
    BY <2>1, <2>2, <2>3, StoppedAccounts DEF Ended
  <2>4. CASE Raise(x)
    <3>1. w'[x].pc = "raise"
      BY <1>t, <1>l, <2>4 DEF Raise, Goto, Local
    <3>2. OnItsTable(x)' /\ OldIsRevoked(x)' /\ NamedItself(x)'
      BY <3>1 DEF OnItsTable, OldIsRevoked, NamedItself
    <3> QED BY <2>1, <2>2, <2>4, <3>2, GoneOnAccounts, Labels DEF Raise
  <2> QED BY <1>25, <2>3, <2>4 DEF CompleteCoverage
<1>26. ASSUME NEW x \in Worker, ReportFailure(x) PROVE AccountInv'
  <2>1. UNCHANGED <<stamp, revoked, db>>
    BY <1>26 DEF ReportFailure, hist
  <2>2. CASE Finish(x, "failed")
    BY <1>s, <2>1, <2>2, StoppedAccounts DEF Ended
  <2>3. CASE w' = [w EXCEPT ![x].pc = "raised", ![x].buf = db["viewshed"]]
    <3>1. /\ w'[x].pc = "raised" /\ w'[x].row = w[x].row /\ w'[x].buf = db["viewshed"]
          /\ w'[x].sector = w[x].sector /\ w'[x].key = w[x].key
          /\ \A y \in Worker : y # x => w'[y] = w[y]
      BY <1>t, <1>l, <2>3 DEF Local
    <3>2. OnItsTable(x)' /\ OldIsRevoked(x)' /\ NamedItself(x)' /\ HashOf(x)' = HashOf(x)
      BY <3>1 DEF OnItsTable, OldIsRevoked, NamedItself, HashOf
    <3> QED BY <1>s, <2>1, <3>1, <3>2, TaskAccounts
  <2> QED BY <1>26, <2>2, <2>3 DEF ReportFailure
<1>27. ASSUME NEW x \in Worker, SaveFailure(x) PROVE AccountInv'
  <2>1. \A k \in Tables : db'[k] \in Sound[k]
    BY <1>27, <1>t, <1>s DEF SaveFailure
  <2> QED BY <1>27, <2>1, StoppedAccounts DEF SaveFailure, hist, Ended
<1>28. ASSUME NEW x \in Worker, Fail(x) PROVE AccountInv'
  <2>1. /\ \A y \in Worker : y # x => w'[y] = w[y]
        /\ UNCHANGED stamp /\ \A y \in Worker : revoked[y] \subseteq revoked'[y]
    BY <1>28, <1>t DEF Fail, hist, Goto, Raise, Compute
  <2>2. stamp[x] # 0 /\ HashOf(x) # None => HashOf(x)' = HashOf(x)
    BY <1>28, <1>t, <1>l, <1>e DEF Fail, HashOf, Local, Goto, Raise, Compute
  <2>3. OnItsTable(x)' /\ OldIsRevoked(x)' /\ NamedItself(x)'
    BY <1>28, <1>t, <1>l, <1>i, <1>b DEF Fail, OnItsTable, OldIsRevoked,
       NamedItself, hist, Local, Goto, Raise, Compute
  <2>4. w'[x].row \in Sound[Table(x)] /\ w'[x].buf \in Sound["viewshed"]
    BY <1>28, <1>t, <1>l, <1>s, <1>b, <1>o DEF Fail, OnItsTable, Local, Goto,
       Raise, Compute
  <2>5. \A k \in Tables : db'[k] \in Sound[k]
    BY <1>28, <1>t, <1>l, <1>s, <1>b, <1>o DEF Fail, OnItsTable, Local, Tables,
       Goto, Raise, Compute
  <2> QED BY <2>1, <2>2, <2>3, <2>4, <2>5, TaskAccounts
<1>29. ASSUME NEW x \in Worker, Kill(x) PROVE AccountInv'
  BY <1>29, <1>s, StoppedAccounts DEF Kill, hist, Ended
<1>30. ASSUME NEW x \in Worker, Crash(x) PROVE AccountInv'
  BY <1>30, <1>s, StoppedAccounts DEF Crash, hist, Ended
<1>31. ASSUME Request PROVE AccountInv'
  <2>1. ASSUME NEW k \in Tables, NEW next, CreateRow(k, next) PROVE AccountInv'
    <3>1. \A j \in Tables : db'[j] \in Sound[j]
      BY <1>t, <1>s, <1>b, <2>1 DEF CreateRow, InsertRow
    <3> QED BY <2>1, <3>1, NoTaskAccounts DEF CreateRow, hist
  <2> QED BY <1>31, <2>1 DEF Request, CreateCoverageRow, CreateViewshedRow, Tables
<1>32. ASSUME UpdateSectors PROVE AccountInv'
  <2>1. CASE SendViewshed
    BY <1>32, <2>1, SendAccounts DEF UpdateSectors
  <2>2. CASE UNCHANGED w
    BY <1>32, <1>s, <2>2, NoTaskAccounts DEF UpdateSectors, hist
  <2> QED BY <1>32, <2>1, <2>2 DEF UpdateSectors
<1>33. ASSUME Edit PROVE AccountInv'
  <2>1. ASSUME NEW p \in Params, SaveSector(p) PROVE AccountInv'
    BY <2>1, SendAccounts DEF SaveSector
  <2>2. ASSUME NEW p \in Params, SaveTower(p) PROVE AccountInv'
    BY <1>s, <2>2, NoTaskAccounts DEF SaveTower, hist
  <2>3. ASSUME DeleteSector PROVE AccountInv'
    <3>1. UNCHANGED <<w, stamp>> /\ \A y \in Worker : revoked[y] \subseteq revoked'[y]
      BY <2>3 DEF DeleteSector
    <3>2. \A k \in Tables : db'[k] \in Sound[k]
      BY <1>b, <2>3 DEF DeleteSector
    <3> QED BY <3>1, <3>2, NoTaskAccounts
  <2> QED BY <1>33, <2>1, <2>2, <2>3 DEF Edit
<1>34. CASE UNCHANGED vars
  BY <1>34, <1>s, NoTaskAccounts DEF vars
<1> QED
  BY <1>1, <1>2, <1>3, <1>4, <1>5, <1>6, <1>7, <1>8, <1>9, <1>10, <1>11, <1>12, <1>13,
     <1>14, <1>15, <1>16, <1>17, <1>18, <1>19, <1>20, <1>21, <1>22, <1>23, <1>24,
     <1>25, <1>26, <1>27, <1>28, <1>29, <1>30, <1>31, <1>32, <1>33, <1>34 DEF Next,
     Step, Stop

(* However saves overlap, fail and die, the task that put a hash into a    *)
(* row can be found from the row or has been cancelled (on_task_start,     *)
(* cache_result): CachedHashIsAccountable of the overlap run, for every    *)
(* number of saves.                                                        *)
THEOREM HashesAreAccountable == Spec => []CachedHashIsAccountable
<1>1. TypeOK /\ RevocationInv /\ AccountInv /\ [Next]_vars
          => (TypeOK /\ RevocationInv /\ AccountInv)'
  BY NextType, RevocationStep, AccountStep
<1>2. AccountInv => CachedHashIsAccountable
  BY DEF AccountInv, Sound, CachedHashIsAccountable
<1> QED BY InitType, RevocationInit, AccountInit, <1>1, <1>2, PTL DEF Spec

-----------------------------------------------------------------------------
(* Saves that wait for each other: the inductive invariant.                *)

(* Edits wait for each other, creation for its end, and no upload is lost. *)
Waiting == Env \cap {"overlap", "create", "lostwrite"} = {}

Active == {x \in Worker : w[x].pc \notin Ended \cup {"idle"}}

(* One thing happens at a time.                                            *)
OneAtATime ==
    /\ \A x, y \in Active : x = y
    /\ towerJobs = 0 \/ (towerJobs = 1 /\ Active = {})
    /\ web \notin {"ok", "error"} => towerJobs = 0 /\ \A x \in Active : w[x].pc = "queued"

(* What belongs to a row goes with it, and the rows with the sector.       *)
NothingWithoutRow ==
    /\ ~alive => \A k \in Tables : db[k] = NoRow
    /\ alive /\ db["viewshed"] = NoRow => tiles = {}
    /\ alive /\ db["coverage"] = NoRow => buildings = {}

(* The viewshed's row names a task that computes viewsheds.                *)
NamesItsKind == LET r == db["viewshed"] IN r.task # NoTask => Table(r.task) = "viewshed"

(* A viewshed whose task is done and a coverage that is complete are whole, *)
(* whatever the sector's parameters are by now.                            *)
Judged(p) == buildings # {} /\ \A b \in buildings : b.area = p /\ b.tif = p
ViewshedIsWhole ==
    LET r == db["viewshed"]
    IN  r.hash # None /\ r.task # NoTask /\ w[r.task].pc = "done"
            => /\ tiles = {r.hash} /\ tif = r.hash
               /\ db["coverage"].status = "Complete" => Judged(r.hash)
CoverageIsWhole ==
    LET r == db["coverage"]
    IN  r.status = "Complete" => \E p \in Params : r.hash = CoverageHash(p) /\ Judged(p)

(* How far a task is: the statement it is at, or the one it returns to     *)
(* from _update_status.                                                    *)
Stage(x) == IF w[x].pc \in {"report", "reported"} THEN w[x].then ELSE w[x].pc

Built     == {"report", "reported", "wtif", "tiles", "cache", "publish", "send"}
Rewriting == {"refresh", "read", "register", "claim"}
Listing   == {"list", "load", "judge", "complete"}

(* The task of the only save under way, at work on the viewshed ...        *)
ViewshedTask(x) ==
    /\ w[x].pc # "queued" => w[x].sector = params
    /\ w[x].pc \in {"queued", "lookup", "resave", "check"} => w[x].on = "viewshed"
    /\ w[x].pc = "drop" => w[x].old = db[w[x].on].id
    /\ \/ w[x].pc \in {"cancel", "drop", "recreate"} /\ w[x].on = "coverage"
       \/ w[x].pc \in Rewriting
       => db["viewshed"].hash = None /\ tiles = {}
    /\ w[x].pc \in Rewriting \cup Built
       => db["coverage"].hash = None /\ db["coverage"].status = "Started"
    /\ w[x].pc \in {"resave", "register", "claim"} \cup Built => w[x].row = db["viewshed"]
    /\ w[x].pc \in {"claim"} \cup Built => w[x].row.task = x
    /\ w[x].pc \in Built => w[x].row.hash = params
    /\ Stage(x) \in {"wtif", "tiles"} => tiles = {}
    /\ Stage(x) \in {"tiles", "cache", "publish", "send"} => tif = params
    /\ Stage(x) \in {"cache", "publish", "send"} => tiles = {params}
    /\ w[x].pc \in {"reported", "raised"} => w[x].buf = db["viewshed"]

(* ... and on the coverage.                                                *)
CoverageTask(x) ==
    /\ tif = params
    /\ w[x].pc # "queued" => w[x].sector = params
    /\ w[x].key \in {None, CoverageHash(params)}
    /\ w[x].pc \notin Listing \cup {"raise", "raised"} => db["coverage"].hash = None
    /\ w[x].pc \notin {"raise", "raised"} => db["coverage"].status = "Started"
    /\ w[x].pc \in {"register", "check", "clear", "claim"} \cup Listing
       => w[x].row = db["coverage"]
    /\ w[x].pc \in {"clear", "claim"} \cup Listing => w[x].key = CoverageHash(params)
    /\ w[x].pc \in Listing => w[x].row.hash = CoverageHash(params)
    /\ w[x].pc \in {"claim", "list"} => buildings = {}
    /\ w[x].pc \in {"load", "judge"} => buildings # {} /\ \A b \in buildings : b.area = params
    /\ w[x].pc = "judge" => w[x].tif = params
    /\ w[x].pc = "complete" => Judged(params)
    /\ w[x].pc = "raised" => w[x].buf = db["viewshed"]

Progress(x) ==
    alive => IF Table(x) = "viewshed" THEN ViewshedTask(x) ELSE CoverageTask(x)

WaitingInv ==
    /\ OneAtATime /\ NothingWithoutRow /\ NamesItsKind
    /\ ViewshedIsWhole /\ CoverageIsWhole
    /\ \A x \in Worker : w[x].pc = "idle" => w[x] = Fresh
    /\ \A x \in Active : Progress(x)
-----------------------------------------------------------------------------
(* The steps of the task under way.                                        *)

(* A step of the task under way: what is said of the others still holds.   *)
LEMMA WaitingFrame ==
    ASSUME TypeOK, WaitingInv, NEW x \in Active,
           UNCHANGED <<alive, web, towerJobs>>,
           \A y \in Worker : y # x => w'[y] = w[y],
           w'[x].pc # "idle",
           web \in {"ok", "error"} \/ w'[x].pc \in Ended,
           NothingWithoutRow', NamesItsKind', ViewshedIsWhole', CoverageIsWhole',
           w'[x].pc \notin Ended => Progress(x)'
    PROVE  WaitingInv'
<1>1. /\ x \in Worker /\ \A y \in Active : y = x
      /\ towerJobs = 0
  BY DEF WaitingInv, OneAtATime, Active
<1>2. Active' \subseteq {x}
  BY <1>1 DEF Active
<1>3. OneAtATime'
  BY <1>1, <1>2 DEF OneAtATime, Active
<1>4. \A y \in Active' : Progress(y)'
  BY <1>2 DEF Active
<1>5. \A y \in Worker : w'[y].pc = "idle" => w'[y] = Fresh
  BY DEF WaitingInv
<1> QED BY <1>3, <1>4, <1>5 DEF WaitingInv

Data == <<db, tiles, buildings, tif>>

(* One that leaves rows, tiles, buildings and raster alone; it ends well   *)
(* only if the viewshed is not its own.                                    *)
LEMMA QuietFrame ==
    ASSUME TypeOK, WaitingInv, NEW x \in Active,
           UNCHANGED <<alive, web, towerJobs>>, UNCHANGED Data,
           \A y \in Worker : y # x => w'[y] = w[y],
           w'[x].pc # "idle",
           web \in {"ok", "error"} \/ w'[x].pc \in Ended,
           w'[x].pc = "done" => db["viewshed"].task # x,
           w'[x].pc \notin Ended => Progress(x)'
    PROVE  WaitingInv'
<1>1. NothingWithoutRow' /\ NamesItsKind' /\ CoverageIsWhole'
  BY DEF Data, WaitingInv, NothingWithoutRow, NamesItsKind, CoverageIsWhole, Judged
<1>2. ViewshedIsWhole'
  <2>1. db["viewshed"].task \in Worker \cup {NoTask}
    BY DEF TypeOK, Tables, Row
  <2>2. ViewshedIsWhole
    BY DEF WaitingInv
  <2> QED BY <2>1, <2>2 DEF Data, ViewshedIsWhole, Judged
<1> QED BY <1>1, <1>2, WaitingFrame

(* The task ends.                                                          *)
LEMMA EndFrame ==
    ASSUME TypeOK, WaitingInv, NEW x \in Active, NEW how \in Ended, Finish(x, how),
           UNCHANGED <<alive, web, towerJobs>>, UNCHANGED Data,
           how = "done" => db["viewshed"].task # x
    PROVE  WaitingInv'
<1>1. w \in [Worker -> Local] /\ x \in Worker
  BY DEF TypeOK, Active
<1>2. w'[x].pc = how /\ \A y \in Worker : y # x => w'[y] = w[y]
  BY <1>1, FinishFacts DEF Finish
<1> QED BY <1>2, QuietFrame DEF Ended

(* The task raises.                                                        *)
LEMMA RaiseFrame ==
    ASSUME TypeOK, WaitingInv, NEW x \in Active, w[x].pc # "queued", Raise(x),
           UNCHANGED <<alive, web, towerJobs, params>>, UNCHANGED Data
    PROVE  WaitingInv'
<1>1. w \in [Worker -> Local] /\ x \in Worker /\ w[x] \in Local
  BY DEF TypeOK, Active
<1>2. /\ w'[x].pc = "raise" /\ w'[x].sector = w[x].sector /\ w'[x].key = w[x].key
      /\ \A y \in Worker : y # x => w'[y] = w[y]
  BY <1>1 DEF Raise, Goto, Local
<1>3. web \in {"ok", "error"}
  BY DEF WaitingInv, OneAtATime
<1>4. Progress(x)'
  <2> SUFFICES ASSUME alive PROVE Progress(x)'
    BY DEF Progress
  <2>1. CASE Table(x) = "viewshed"
    <3>1. ViewshedTask(x)
      BY <2>1 DEF WaitingInv, Progress
    <3>2. ViewshedTask(x)'
      BY <1>2, <3>1 DEF ViewshedTask, Stage, Built, Rewriting
    <3> QED BY <2>1, <3>2 DEF Progress
  <2>2. CASE Table(x) # "viewshed"
    <3>1. CoverageTask(x)
      BY <2>2 DEF WaitingInv, Progress
    <3>2. CoverageTask(x)'
      BY <1>2, <3>1 DEF CoverageTask, Listing, Data
    <3> QED BY <2>2, <3>2 DEF Progress
  <2> QED BY <2>1, <2>2
<1> QED BY <1>2, <1>3, <1>4, QuietFrame DEF Ended

(* Once the sector is deleted, no step of a task makes or changes a row.   *)
LEMMA DeletedStays ==
    ASSUME TypeOK, WaitingInv, ~alive, NEW x \in Worker, Step(x) \/ Stop(x)
    PROVE  UNCHANGED db
<1>1. db \in [Tables -> Row] /\ \A k \in Tables : db[k] = NoRow
  BY DEF TypeOK, WaitingInv, NothingWithoutRow
<1>2. \A k : ~CanInsert(k) /\ \A r : ~CanSave(k, r)
  BY DEF CanInsert, CanSave
<1>3. \A k, id : DeleteRow(k, id) => UNCHANGED db
  BY <1>1 DEF DeleteRow
<1>4. \A k, r, l : SaveRow(x, k, r, l) => UNCHANGED db
  BY <1>2 DEF SaveRow
<1>5. CASE Stop(x)
  BY <1>5 DEF Stop, Fail, Kill, Crash
<1>6. CASE \/ GetSector(x) \/ GetOrCreateViewshed(x) \/ ResaveViewshed(x)
           \/ CheckViewshed(x) \/ CancelOld(x) \/ DropOld(x) \/ Recreate(x)
           \/ RefreshSector(x) \/ ReadViewshed(x) \/ Register(x) \/ ClaimHash(x)
  BY <1>2, <1>3, <1>4, <1>6 DEF GetSector, GetOrCreateViewshed, ResaveViewshed,
     CheckViewshed, CancelOld, DropOld, Recreate, RefreshSector, ReadViewshed, Register,
     ClaimHash
<1>7. CASE \/ Report(x) \/ SaveReport(x) \/ WriteTif(x) \/ SaveTiles(x)
           \/ CacheResult(x) \/ Publish(x) \/ SendNearby(x)
  BY <1>2, <1>3, <1>4, <1>7 DEF Report, SaveReport, WriteTif, SaveTiles,
     CacheResult, Publish, SendNearby
<1>8. CASE \/ GetOrCreateCoverage(x) \/ CheckCoverage(x) \/ ClearBuildings(x)
           \/ ListBuildings(x) \/ LoadTif(x) \/ JudgeBuildings(x) \/ CompleteCoverage(x)
           \/ ReportFailure(x) \/ SaveFailure(x)
  BY <1>2, <1>3, <1>4, <1>8 DEF GetOrCreateCoverage, CheckCoverage, ClearBuildings,
     ListBuildings, LoadTif, JudgeBuildings, CompleteCoverage, ReportFailure, SaveFailure
<1> QED BY <1>5, <1>6, <1>7, <1>8 DEF Step

(* What every step of a task leaves alone.                                 *)
LEMMA StepFrame ==
    ASSUME TypeOK, RevocationInv, NEW x \in Worker, Step(x) \/ Stop(x), ~SendNearby(x)
    PROVE  /\ UNCHANGED site /\ x \in Active
           /\ \A y \in Worker : y # x => w'[y] = w[y]
           /\ w'[x].pc # "idle"
           /\ w[x].pc = "queued" => (GetSector(x) \/ w'[x].pc \in Ended)
<1>1. w \in [Worker -> Local] /\ w[x] \in Local /\ ReturnsRight(x)
  BY DEF TypeOK, RevocationInv
<1>2. ASSUME NEW l \in PC \ {"idle"}, Goto(x, l)
      PROVE  w'[x].pc # "idle" /\ \A y \in Worker : y # x => w'[y] = w[y]
  BY <1>1, <1>2 DEF Goto, Local
<1>3. ASSUME NEW how \in Ended, Finish(x, how)
      PROVE  w'[x].pc \in Ended /\ w'[x].pc # "idle" /\ \A y \in Worker : y # x => w'[y] = w[y]
  <2>1. \A y \in Worker : y # x => w'[y] = w[y]
    BY <1>1, <1>3 DEF Finish
  <2> QED BY <1>1, <1>3, <2>1, FinishFacts DEF Ended
<1>4. ASSUME NEW l, l.pc \in PC \ {"idle"}, w' = [w EXCEPT ![x] = l]
      PROVE  w'[x].pc # "idle" /\ \A y \in Worker : y # x => w'[y] = w[y]
  BY <1>1, <1>4
<1>5. ASSUME NEW k \in Tables, NEW r, NEW l, l.pc \in PC \ {"idle"}, SaveRow(x, k, r, l)
      PROVE  w'[x].pc # "idle" /\ \A y \in Worker : y # x => w'[y] = w[y]
  BY <1>2, <1>4, <1>5, Labels DEF SaveRow, Raise
<1>6. ASSUME GetSector(x)
      PROVE  /\ UNCHANGED site /\ x \in Active /\ w'[x].pc # "idle"
             /\ \A y \in Worker : y # x => w'[y] = w[y]
             /\ w[x].pc = "queued" => GetSector(x) \/ w'[x].pc \in Ended
  BY <1>1, <1>2, <1>3, <1>6, Labels DEF GetSector, Raise, Active, Ended, Compute, site, Local
<1>7. ASSUME GetOrCreateViewshed(x)
      PROVE  /\ UNCHANGED site /\ x \in Active /\ w'[x].pc # "idle"
             /\ \A y \in Worker : y # x => w'[y] = w[y]
             /\ w[x].pc = "queued" => GetSector(x) \/ w'[x].pc \in Ended
  BY <1>1, <1>2, <1>3, <1>7, Labels DEF GetOrCreateViewshed, Raise, Active, Ended, Compute, site, Local
<1>8. ASSUME ResaveViewshed(x)
      PROVE  /\ UNCHANGED site /\ x \in Active /\ w'[x].pc # "idle"
             /\ \A y \in Worker : y # x => w'[y] = w[y]
             /\ w[x].pc = "queued" => GetSector(x) \/ w'[x].pc \in Ended
  <2>1. UNCHANGED site /\ x \in Active /\ w[x].pc # "queued"
    BY <1>8 DEF ResaveViewshed, Active, Ended, site
  <2>2. w'[x].pc # "idle" /\ \A y \in Worker : y # x => w'[y] = w[y]
    <3> DEFINE l == [w[x] EXCEPT !.pc = w[x].then]
    <3>1. SaveRow(x, "viewshed", w[x].row, l)
      BY <1>8 DEF ResaveViewshed
    <3>2. l.pc \in PC \ {"idle"}
      BY <1>1, <1>8, Labels DEF Local, ResaveViewshed, ReturnsRight
    <3> HIDE DEF l
    <3> QED BY <1>5, <3>1, <3>2 DEF Tables
  <2> QED BY <2>1, <2>2
<1>9. ASSUME CheckViewshed(x)
      PROVE  /\ UNCHANGED site /\ x \in Active /\ w'[x].pc # "idle"
             /\ \A y \in Worker : y # x => w'[y] = w[y]
             /\ w[x].pc = "queued" => GetSector(x) \/ w'[x].pc \in Ended
  BY <1>1, <1>2, <1>3, <1>9, Labels DEF CheckViewshed, Raise, Active, Ended, Compute, site, Local
<1>10. ASSUME CancelOld(x)
      PROVE  /\ UNCHANGED site /\ x \in Active /\ w'[x].pc # "idle"
             /\ \A y \in Worker : y # x => w'[y] = w[y]
             /\ w[x].pc = "queued" => GetSector(x) \/ w'[x].pc \in Ended
  BY <1>1, <1>2, <1>3, <1>10, Labels DEF CancelOld, Raise, Active, Ended, Compute, site, Local
<1>11. ASSUME DropOld(x)
      PROVE  /\ UNCHANGED site /\ x \in Active /\ w'[x].pc # "idle"
             /\ \A y \in Worker : y # x => w'[y] = w[y]
             /\ w[x].pc = "queued" => GetSector(x) \/ w'[x].pc \in Ended
  BY <1>1, <1>2, <1>3, <1>11, Labels DEF DropOld, Raise, Active, Ended, Compute, site, Local
<1>12. ASSUME Recreate(x)
      PROVE  /\ UNCHANGED site /\ x \in Active /\ w'[x].pc # "idle"
             /\ \A y \in Worker : y # x => w'[y] = w[y]
             /\ w[x].pc = "queued" => GetSector(x) \/ w'[x].pc \in Ended
  BY <1>1, <1>2, <1>3, <1>12, Labels DEF Recreate, Raise, Active, Ended, Compute, site, Local
<1>13. ASSUME RefreshSector(x)
      PROVE  /\ UNCHANGED site /\ x \in Active /\ w'[x].pc # "idle"
             /\ \A y \in Worker : y # x => w'[y] = w[y]
             /\ w[x].pc = "queued" => GetSector(x) \/ w'[x].pc \in Ended
  BY <1>1, <1>2, <1>3, <1>13, Labels DEF RefreshSector, Raise, Active, Ended, Compute, site, Local
<1>14. ASSUME ReadViewshed(x)
      PROVE  /\ UNCHANGED site /\ x \in Active /\ w'[x].pc # "idle"
             /\ \A y \in Worker : y # x => w'[y] = w[y]
             /\ w[x].pc = "queued" => GetSector(x) \/ w'[x].pc \in Ended
  BY <1>1, <1>2, <1>3, <1>14, Labels DEF ReadViewshed, Raise, Active, Ended, Compute, site, Local
<1>15. ASSUME Register(x)
      PROVE  /\ UNCHANGED site /\ x \in Active /\ w'[x].pc # "idle"
             /\ \A y \in Worker : y # x => w'[y] = w[y]
             /\ w[x].pc = "queued" => GetSector(x) \/ w'[x].pc \in Ended
  <2>1. UNCHANGED site /\ x \in Active /\ w[x].pc # "queued"
    BY <1>15 DEF Register, Active, Ended, site
  <2>2. w'[x].pc # "idle" /\ \A y \in Worker : y # x => w'[y] = w[y]
    <3> DEFINE r == [w[x].row EXCEPT !.task = x]
               l == [w[x] EXCEPT !.pc = IF Table(x) = "viewshed" THEN "claim" ELSE "check",
                                 !.row = r]
    <3>1. SaveRow(x, Table(x), r, l)
      BY <1>15 DEF Register
    <3>2. l.pc \in PC \ {"idle"}
      BY <1>1, Labels DEF Local
    <3> HIDE DEF r, l
    <3> QED BY <1>5, <3>1, <3>2, WorkerFacts
  <2> QED BY <2>1, <2>2
<1>16. ASSUME ClaimHash(x)
      PROVE  /\ UNCHANGED site /\ x \in Active /\ w'[x].pc # "idle"
             /\ \A y \in Worker : y # x => w'[y] = w[y]
             /\ w[x].pc = "queued" => GetSector(x) \/ w'[x].pc \in Ended
  <2>1. UNCHANGED site /\ x \in Active /\ w[x].pc # "queued"
    BY <1>16 DEF ClaimHash, Active, Ended, site
  <2>2. w'[x].pc # "idle" /\ \A y \in Worker : y # x => w'[y] = w[y]
    <3> DEFINE r == [w[x].row EXCEPT !.hash = HashOf(x)]
               l == IF Table(x) = "viewshed"
                    THEN [w[x] EXCEPT !.pc = "report", !.then = "wtif", !.row = r]
                    ELSE [w[x] EXCEPT !.pc = "list", !.row = r]
    <3>1. SaveRow(x, Table(x), r, l)
      BY <1>16 DEF ClaimHash
    <3>2. l.pc \in PC \ {"idle"}
      BY <1>1, Labels DEF Local
    <3> HIDE DEF r, l
    <3> QED BY <1>5, <3>1, <3>2, WorkerFacts
  <2> QED BY <2>1, <2>2
<1>17. ASSUME Report(x)
      PROVE  /\ UNCHANGED site /\ x \in Active /\ w'[x].pc # "idle"
             /\ \A y \in Worker : y # x => w'[y] = w[y]
             /\ w[x].pc = "queued" => GetSector(x) \/ w'[x].pc \in Ended
  BY <1>1, <1>2, <1>3, <1>17, Labels DEF Report, Raise, Active, Ended, Compute, site, Local
<1>18. ASSUME SaveReport(x)
      PROVE  /\ UNCHANGED site /\ x \in Active /\ w'[x].pc # "idle"
             /\ \A y \in Worker : y # x => w'[y] = w[y]
             /\ w[x].pc = "queued" => GetSector(x) \/ w'[x].pc \in Ended
  <2>1. UNCHANGED site /\ x \in Active /\ w[x].pc # "queued"
    BY <1>18 DEF SaveReport, Active, Ended, site
  <2>2. w'[x].pc # "idle" /\ \A y \in Worker : y # x => w'[y] = w[y]
    <3> DEFINE l == [w[x] EXCEPT !.pc = w[x].then, !.buf = NoRow]
    <3>1. SaveRow(x, "viewshed", w[x].buf, l)
      BY <1>18 DEF SaveReport
    <3>2. l.pc \in PC \ {"idle"}
      BY <1>1, <1>18, Labels DEF Local, SaveReport, ReturnsRight
    <3> HIDE DEF l
    <3> QED BY <1>5, <3>1, <3>2 DEF Tables
  <2> QED BY <2>1, <2>2
<1>19. ASSUME WriteTif(x)
      PROVE  /\ UNCHANGED site /\ x \in Active /\ w'[x].pc # "idle"
             /\ \A y \in Worker : y # x => w'[y] = w[y]
             /\ w[x].pc = "queued" => GetSector(x) \/ w'[x].pc \in Ended
  BY <1>1, <1>2, <1>3, <1>19, Labels DEF WriteTif, Raise, Active, Ended, Compute, site, Local
<1>20. ASSUME SaveTiles(x)
      PROVE  /\ UNCHANGED site /\ x \in Active /\ w'[x].pc # "idle"
             /\ \A y \in Worker : y # x => w'[y] = w[y]
             /\ w[x].pc = "queued" => GetSector(x) \/ w'[x].pc \in Ended
  BY <1>1, <1>2, <1>3, <1>20, Labels DEF SaveTiles, Raise, Active, Ended, Compute, site, Local
<1>21. ASSUME CacheResult(x)
      PROVE  /\ UNCHANGED site /\ x \in Active /\ w'[x].pc # "idle"
             /\ \A y \in Worker : y # x => w'[y] = w[y]
             /\ w[x].pc = "queued" => GetSector(x) \/ w'[x].pc \in Ended
  <2>1. UNCHANGED site /\ x \in Active /\ w[x].pc # "queued"
    BY <1>21 DEF CacheResult, Active, Ended, site
  <2>2. w'[x].pc # "idle" /\ \A y \in Worker : y # x => w'[y] = w[y]
    <3> DEFINE l == [w[x] EXCEPT !.pc = "publish"]
    <3>1. SaveRow(x, "viewshed", w[x].row, l)
      BY <1>21 DEF CacheResult
    <3>2. l.pc \in PC \ {"idle"}
      BY <1>1, <1>21, Labels DEF Local, CacheResult, ReturnsRight
    <3> HIDE DEF l
    <3> QED BY <1>5, <3>1, <3>2 DEF Tables
  <2> QED BY <2>1, <2>2
<1>22. ASSUME Publish(x)
      PROVE  /\ UNCHANGED site /\ x \in Active /\ w'[x].pc # "idle"
             /\ \A y \in Worker : y # x => w'[y] = w[y]
             /\ w[x].pc = "queued" => GetSector(x) \/ w'[x].pc \in Ended
  <2>1. UNCHANGED site /\ x \in Active /\ w[x].pc # "queued"
    BY <1>22 DEF Publish, Active, Ended, site
  <2>2. w'[x].pc # "idle" /\ \A y \in Worker : y # x => w'[y] = w[y]
    <3> DEFINE l == [w[x] EXCEPT !.pc = "send"]
    <3>1. SaveRow(x, "viewshed", w[x].row, l)
      BY <1>22 DEF Publish
    <3>2. l.pc \in PC \ {"idle"}
      BY <1>1, <1>22, Labels DEF Local, Publish, ReturnsRight
    <3> HIDE DEF l
    <3> QED BY <1>5, <3>1, <3>2 DEF Tables
  <2> QED BY <2>1, <2>2
<1>23. ASSUME GetOrCreateCoverage(x)
      PROVE  /\ UNCHANGED site /\ x \in Active /\ w'[x].pc # "idle"
             /\ \A y \in Worker : y # x => w'[y] = w[y]
             /\ w[x].pc = "queued" => GetSector(x) \/ w'[x].pc \in Ended
  BY <1>1, <1>2, <1>3, <1>23, Labels DEF GetOrCreateCoverage, Raise, Active, Ended, Compute, site, Local
<1>24. ASSUME CheckCoverage(x)
      PROVE  /\ UNCHANGED site /\ x \in Active /\ w'[x].pc # "idle"
             /\ \A y \in Worker : y # x => w'[y] = w[y]
             /\ w[x].pc = "queued" => GetSector(x) \/ w'[x].pc \in Ended
  BY <1>1, <1>2, <1>3, <1>24, Labels DEF CheckCoverage, Raise, Active, Ended, Compute, site, Local
<1>25. ASSUME ClearBuildings(x)
      PROVE  /\ UNCHANGED site /\ x \in Active /\ w'[x].pc # "idle"
             /\ \A y \in Worker : y # x => w'[y] = w[y]
             /\ w[x].pc = "queued" => GetSector(x) \/ w'[x].pc \in Ended
  BY <1>1, <1>2, <1>3, <1>25, Labels DEF ClearBuildings, Raise, Active, Ended, Compute, site, Local
<1>26. ASSUME ListBuildings(x)
      PROVE  /\ UNCHANGED site /\ x \in Active /\ w'[x].pc # "idle"
             /\ \A y \in Worker : y # x => w'[y] = w[y]
             /\ w[x].pc = "queued" => GetSector(x) \/ w'[x].pc \in Ended
  BY <1>1, <1>2, <1>3, <1>26, Labels DEF ListBuildings, Raise, Active, Ended, Compute, site, Local
<1>27. ASSUME LoadTif(x)
      PROVE  /\ UNCHANGED site /\ x \in Active /\ w'[x].pc # "idle"
             /\ \A y \in Worker : y # x => w'[y] = w[y]
             /\ w[x].pc = "queued" => GetSector(x) \/ w'[x].pc \in Ended
  BY <1>1, <1>2, <1>3, <1>27, Labels DEF LoadTif, Raise, Active, Ended, Compute, site, Local
<1>28. ASSUME JudgeBuildings(x)
      PROVE  /\ UNCHANGED site /\ x \in Active /\ w'[x].pc # "idle"
             /\ \A y \in Worker : y # x => w'[y] = w[y]
             /\ w[x].pc = "queued" => GetSector(x) \/ w'[x].pc \in Ended
  BY <1>1, <1>2, <1>3, <1>28, Labels DEF JudgeBuildings, Raise, Active, Ended, Compute, site, Local
<1>29. ASSUME CompleteCoverage(x)
      PROVE  /\ UNCHANGED site /\ x \in Active /\ w'[x].pc # "idle"
             /\ \A y \in Worker : y # x => w'[y] = w[y]
             /\ w[x].pc = "queued" => GetSector(x) \/ w'[x].pc \in Ended
  BY <1>1, <1>2, <1>3, <1>29, Labels DEF CompleteCoverage, Raise, Active, Ended, Compute, site, Local
<1>30. ASSUME ReportFailure(x)
      PROVE  /\ UNCHANGED site /\ x \in Active /\ w'[x].pc # "idle"
             /\ \A y \in Worker : y # x => w'[y] = w[y]
             /\ w[x].pc = "queued" => GetSector(x) \/ w'[x].pc \in Ended
  BY <1>1, <1>2, <1>3, <1>30, Labels DEF ReportFailure, Raise, Active, Ended, Compute, site, Local
<1>31. ASSUME SaveFailure(x)
      PROVE  /\ UNCHANGED site /\ x \in Active /\ w'[x].pc # "idle"
             /\ \A y \in Worker : y # x => w'[y] = w[y]
             /\ w[x].pc = "queued" => GetSector(x) \/ w'[x].pc \in Ended
  BY <1>1, <1>2, <1>3, <1>31, Labels DEF SaveFailure, Raise, Active, Ended, Compute, site, Local
<1>32. ASSUME Fail(x)
      PROVE  /\ UNCHANGED site /\ x \in Active /\ w'[x].pc # "idle"
             /\ \A y \in Worker : y # x => w'[y] = w[y]
             /\ w[x].pc = "queued" => GetSector(x) \/ w'[x].pc \in Ended
  BY <1>1, <1>2, <1>3, <1>32, Labels DEF Fail, Raise, Active, Ended, Compute, site, Local
<1>33. ASSUME Kill(x)
      PROVE  /\ UNCHANGED site /\ x \in Active /\ w'[x].pc # "idle"
             /\ \A y \in Worker : y # x => w'[y] = w[y]
             /\ w[x].pc = "queued" => GetSector(x) \/ w'[x].pc \in Ended
  BY <1>1, <1>2, <1>3, <1>33, Labels DEF Kill, Raise, Active, Ended, Compute, site, Local
<1>34. ASSUME Crash(x)
      PROVE  /\ UNCHANGED site /\ x \in Active /\ w'[x].pc # "idle"
             /\ \A y \in Worker : y # x => w'[y] = w[y]
             /\ w[x].pc = "queued" => GetSector(x) \/ w'[x].pc \in Ended
  BY <1>1, <1>2, <1>3, <1>34, Labels DEF Crash, Raise, Active, Ended, Compute, site, Local
<1> QED
  BY <1>6, <1>7, <1>8, <1>9, <1>10, <1>11, <1>12, <1>13, <1>14, <1>15, <1>16,
     <1>17, <1>18, <1>19, <1>20, <1>21, <1>22, <1>23, <1>24, <1>25, <1>26, <1>27,
     <1>28, <1>29, <1>30, <1>31, <1>32, <1>33, <1>34 DEF Step, Stop

(* SendNearby: the task of the viewshed ends and that of the coverage is   *)
(* queued.                                                                 *)
LEMMA SendNearbyFacts ==
    ASSUME TypeOK, RevocationInv, WaitingInv, NEW x \in Worker, SendNearby(x)
    PROVE  LET c == <<"coverage", x[2]>> IN
           /\ c \in Worker /\ c # x /\ Table(c) = "coverage" /\ Table(x) = "viewshed"
           /\ x \in Active /\ w[x].pc = "send" /\ w'[x].pc = "done"
           /\ w[c] = Fresh /\ w'[c].pc = "queued" /\ w'[c].key = None
           /\ \A y \in Worker \ {x, c} : w'[y] = w[y]
           /\ UNCHANGED site /\ UNCHANGED Data
<1> DEFINE c == <<"coverage", x[2]>>
<1>1. /\ c \in Worker /\ c # x /\ x[2] \in Tasks /\ x = <<"viewshed", x[2]>>
      /\ Table(x) = "viewshed" /\ Table(c) = "coverage"
  BY WorkerFacts DEF SendNearby, Table, Worker, Tables
<1>2. w \in [Worker -> Local] /\ w[x].pc = "send" /\ UNCHANGED site /\ UNCHANGED Data
  BY DEF SendNearby, TypeOK, site, Data
<1>3. w[c].pc = "idle"
  BY <1>1, <1>2 DEF RevocationInv, NearbyWaits, Ended
<1>4. w[c] = Fresh
  BY <1>1, <1>3 DEF WaitingInv
<1> HIDE DEF c
<1>5. w' = [w EXCEPT ![x] = [Fresh EXCEPT !.pc = "done", !.sector = w[x].sector],
                     ![c].pc = "queued"]
  BY DEF SendNearby, c
<1>6. /\ w'[x].pc = "done" /\ w'[c].pc = "queued" /\ w'[c].key = None
      /\ \A y \in Worker \ {x, c} : w'[y] = w[y]
  <2>1. /\ w'[x] = [Fresh EXCEPT !.pc = "done", !.sector = w[x].sector]
        /\ w'[c] = [Fresh EXCEPT !.pc = "queued"]
        /\ \A y \in Worker \ {x, c} : w'[y] = w[y]
    BY <1>1, <1>2, <1>4, <1>5
  <2> QED BY <2>1 DEF Fresh
<1> QED BY <1>1, <1>2, <1>4, <1>6 DEF c, Active, Ended

(* A step after the sector's deletion.                                     *)
LEMMA DeletedStep ==
    ASSUME TypeOK, Waiting, RevocationInv, WaitingInv, ~alive, NEW x \in Worker,
           Step(x) \/ Stop(x)
    PROVE  WaitingInv'
<1>1. UNCHANGED db /\ \A k \in Tables : db[k] = NoRow
  BY DeletedStays DEF WaitingInv, NothingWithoutRow
<1>2. UNCHANGED site
  BY StepFrame, SendNearbyFacts
<1>3. NothingWithoutRow' /\ NamesItsKind' /\ ViewshedIsWhole' /\ CoverageIsWhole'
  BY <1>1, <1>2 DEF NothingWithoutRow, NamesItsKind, ViewshedIsWhole, CoverageIsWhole,
     NoRow, Blank, Tables, site
<1>4. CASE ~SendNearby(x)
  <2>1. /\ x \in Active /\ w'[x].pc # "idle"
        /\ \A y \in Worker : y # x => w'[y] = w[y]
        /\ w[x].pc = "queued" => (GetSector(x) \/ w'[x].pc \in Ended)
    BY <1>4, StepFrame
  <2>2. web \in {"ok", "error"} \/ w'[x].pc \in Ended
    BY <2>1 DEF GetSector, Waiting, WaitingInv, OneAtATime
  <2> QED BY <1>2, <1>3, <2>1, <2>2, WaitingFrame DEF Progress, site
<1>5. CASE SendNearby(x)
  <2> DEFINE c == <<"coverage", x[2]>>
  <2>1. /\ c \in Worker /\ c # x /\ x \in Active /\ w[x].pc = "send"
        /\ w'[x].pc = "done" /\ w'[c].pc = "queued"
        /\ \A y \in Worker \ {x, c} : w'[y] = w[y]
    BY <1>5, SendNearbyFacts
  <2> HIDE DEF c
  <2>2. Active' \subseteq {c} /\ towerJobs = 0 /\ web \in {"ok", "error"}
    BY <2>1 DEF WaitingInv, OneAtATime, Active, Ended
  <2>3. OneAtATime'
    BY <1>2, <2>2 DEF OneAtATime, site
  <2>4. \A y \in Worker : w'[y].pc = "idle" => w'[y] = Fresh
    BY <2>1 DEF WaitingInv
  <2> QED BY <1>2, <1>3, <2>3, <2>4 DEF WaitingInv, Progress, site
<1> QED BY <1>4, <1>5

(* The steps of a viewshed's task, while the sector is there.              *)
LEMMA ViewshedStep ==
    ASSUME TypeOK, ParamsAssumption, Waiting, RevocationInv, AccountInv, WaitingInv, alive,
           NEW x \in Worker, Table(x) = "viewshed", Step(x), ~SendNearby(x)
    PROVE  WaitingInv'
<1>f. /\ UNCHANGED <<alive, params, web, towerJobs>> /\ x \in Active
      /\ \A y \in Worker : y # x => w'[y] = w[y]
      /\ w'[x].pc # "idle"
      /\ web \in {"ok", "error"} \/ w'[x].pc \in Ended
  <2>1. /\ UNCHANGED site /\ x \in Active
        /\ \A y \in Worker : y # x => w'[y] = w[y]
        /\ w'[x].pc # "idle"
        /\ w[x].pc = "queued" => (GetSector(x) \/ w'[x].pc \in Ended)
    BY StepFrame
  <2> QED BY <2>1 DEF GetSector, Waiting, WaitingInv, OneAtATime, site
<1>t. /\ w \in [Worker -> Local] /\ db \in [Tables -> Row]
      /\ w[x] \in Local /\ w[x].row \in Row /\ w[x].on \in Tables
      /\ "viewshed" \in Tables /\ "coverage" \in Tables
      /\ db["viewshed"] \in Row /\ db["coverage"] \in Row
  BY DEF TypeOK, Local, Tables
<1>v. ViewshedTask(x)
  BY <1>f DEF WaitingInv, Progress
<1>p. OnItsTable(x) /\ ReturnsRight(x)
  BY DEF AccountInv, AccountLocal, RevocationInv
<1>i. NothingWithoutRow /\ NamesItsKind /\ ViewshedIsWhole /\ CoverageIsWhole
  BY DEF WaitingInv
<1>g. ASSUME ViewshedTask(x)' PROVE Progress(x)'
  BY <1>f, <1>g DEF Progress
<1>q. ASSUME ViewshedTask(x)', UNCHANGED Data,
             w'[x].pc = "done" => db["viewshed"].task # x
      PROVE  WaitingInv'
  BY <1>f, <1>g, <1>q, QuietFrame
<1>d. ASSUME ViewshedTask(x)', NothingWithoutRow', NamesItsKind', ViewshedIsWhole',
             CoverageIsWhole'
      PROVE  WaitingInv'
  BY <1>f, <1>g, <1>d, WaitingFrame
<1>r. ASSUME w[x].pc # "queued", Raise(x), UNCHANGED Data PROVE WaitingInv'
  BY <1>f, <1>r, RaiseFrame
<1>e. ASSUME NEW how \in Ended, Finish(x, how), UNCHANGED Data,
             how = "done" => db["viewshed"].task # x
      PROVE  WaitingInv'
  BY <1>f, <1>e, EndFrame
<1>1. ASSUME GetSector(x) PROVE WaitingInv'
  <2>1. /\ w[x].pc = "queued" /\ UNCHANGED Data
        /\ w' = [w EXCEPT ![x].pc = "lookup", ![x].sector = params]
    BY <1>1 DEF GetSector, Data
  <2>2. w'[x].pc = "lookup" /\ w'[x].sector = params /\ w'[x].on = w[x].on
    BY <1>t, <2>1 DEF Local
  <2>3. ViewshedTask(x)'
    BY <1>f, <1>v, <2>1, <2>2 DEF ViewshedTask, Stage, Built, Rewriting
  <2> QED BY <1>q, <2>1, <2>2, <2>3
<1>2. ASSUME GetOrCreateViewshed(x) PROVE WaitingInv'
  <2>1. w[x].pc = "lookup" /\ UNCHANGED <<tiles, buildings, tif>>
    BY <1>2 DEF GetOrCreateViewshed
  <2>2. CASE /\ UNCHANGED db
             /\ w' = [w EXCEPT ![x].pc = "resave", ![x].then = "check",
                               ![x].row = db["viewshed"]]
    <3>1. /\ w'[x].pc = "resave" /\ w'[x].row = db["viewshed"]
          /\ w'[x].sector = w[x].sector /\ w'[x].on = w[x].on
      BY <1>t, <2>2 DEF Local
    <3>2. ViewshedTask(x)'
      BY <1>f, <1>v, <2>1, <2>2, <3>1 DEF ViewshedTask, Stage, Built, Rewriting
    <3> QED BY <1>q, <2>1, <2>2, <3>1, <3>2 DEF Data
  <2>3. CASE /\ CanInsert("viewshed") /\ InsertRow("viewshed")
             /\ w' = [w EXCEPT ![x].pc = "resave", ![x].then = "cancel",
                               ![x].row = Blank(nextId["viewshed"])]
    <3>1. /\ w'[x].pc = "resave" /\ w'[x].row = Blank(nextId["viewshed"])
          /\ w'[x].sector = w[x].sector /\ w'[x].on = w[x].on
      BY <1>t, <2>3 DEF Local
    <3>2. /\ db'["viewshed"] = Blank(nextId["viewshed"]) /\ db'["coverage"] = db["coverage"]
          /\ db["viewshed"] = NoRow
      BY <1>t, <2>3 DEF InsertRow, CanInsert
    <3>3. ViewshedTask(x)'
      BY <1>f, <1>v, <2>1, <3>1, <3>2 DEF ViewshedTask, Stage, Built, Rewriting
    <3>4. NothingWithoutRow' /\ NamesItsKind' /\ ViewshedIsWhole' /\ CoverageIsWhole'
      BY <1>f, <1>i, <2>1, <3>2 DEF NothingWithoutRow, NamesItsKind, ViewshedIsWhole,
         CoverageIsWhole, Judged, Blank, Tables
    <3> QED BY <1>d, <3>3, <3>4
  <2> QED BY <1>2, <2>2, <2>3 DEF GetOrCreateViewshed
<1>3. ASSUME ResaveViewshed(x) PROVE WaitingInv'
  <2>1. /\ w[x].pc = "resave" /\ UNCHANGED <<tiles, buildings, tif>>
        /\ w[x].row = db["viewshed"] /\ w[x].then \in {"check", "cancel"}
    BY <1>3, <1>v, <1>p DEF ResaveViewshed, ViewshedTask, ReturnsRight
  <2>2. UNCHANGED db /\ w' = [w EXCEPT ![x] = [w[x] EXCEPT !.pc = w[x].then]]
    BY <1>3, <1>t, <2>1 DEF ResaveViewshed, SaveRow, CanSave
  <2>3. /\ w'[x].pc = w[x].then /\ w'[x].sector = w[x].sector /\ w'[x].on = w[x].on
    BY <1>t, <2>2 DEF Local
  <2>4. ViewshedTask(x)'
    BY <1>f, <1>v, <2>1, <2>2, <2>3 DEF ViewshedTask, Stage, Built, Rewriting
  <2> QED BY <1>q, <2>1, <2>2, <2>3, <2>4 DEF Data
<1>4. ASSUME CheckViewshed(x) PROVE WaitingInv'
  <2>1. w[x].pc = "check" /\ UNCHANGED Data
    BY <1>4 DEF CheckViewshed, Data
  <2>2. db["viewshed"].task # x
    <3>1. stamp[x] = 0 /\ NamesRegistered(db["viewshed"])
      BY <1>t, <2>1 DEF RevocationInv, BeforeRegistration, RowsNameRegistered
    <3>2. x # NoTask
      BY WorkerFacts
    <3> QED BY <3>1, <3>2 DEF NamesRegistered
  <2>3. CASE Goto(x, "cancel")
    <3>1. /\ w'[x].pc = "cancel" /\ w'[x].sector = w[x].sector /\ w'[x].on = w[x].on
      BY <1>t, <2>3 DEF Goto, Local
    <3>2. ViewshedTask(x)'
      BY <1>f, <1>v, <2>1, <3>1 DEF ViewshedTask, Stage, Built, Rewriting
    <3> QED BY <1>q, <2>1, <3>1, <3>2
  <2> QED BY <1>4, <1>r, <1>e, <2>1, <2>2, <2>3 DEF CheckViewshed, Ended
<1>5. ASSUME CancelOld(x) PROVE WaitingInv'
  <2>1. w[x].pc = "cancel" /\ UNCHANGED Data
    BY <1>5 DEF CancelOld, Data
  <2>2. CASE Goto(x, "recreate")
    <3>1. /\ w'[x].pc = "recreate" /\ w'[x].sector = w[x].sector /\ w'[x].on = w[x].on
      BY <1>t, <2>2 DEF Goto, Local
    <3>2. ViewshedTask(x)'
      BY <1>f, <1>v, <2>1, <3>1 DEF ViewshedTask, Stage, Built, Rewriting, Data
    <3> QED BY <1>q, <2>1, <3>1, <3>2
  <2>3. CASE w' = [w EXCEPT ![x].pc = "drop", ![x].old = db[w[x].on].id]
    <3>1. /\ w'[x].pc = "drop" /\ w'[x].sector = w[x].sector /\ w'[x].on = w[x].on
          /\ w'[x].old = db[w[x].on].id
      BY <1>t, <2>3 DEF Local
    <3>2. ViewshedTask(x)'
      BY <1>f, <1>v, <2>1, <3>1 DEF ViewshedTask, Stage, Built, Rewriting, Data
    <3> QED BY <1>q, <2>1, <3>1, <3>2
  <2> QED BY <1>5, <2>2, <2>3 DEF CancelOld
<1>6. ASSUME DropOld(x) PROVE WaitingInv'
  <2>1. /\ w[x].pc = "drop" /\ DeleteRow(w[x].on, w[x].old) /\ Goto(x, "recreate")
        /\ UNCHANGED tif /\ w[x].old = db[w[x].on].id
    BY <1>6, <1>v DEF DropOld, ViewshedTask
  <2>2. /\ w'[x].pc = "recreate" /\ w'[x].sector = w[x].sector /\ w'[x].on = w[x].on
    BY <1>t, <2>1 DEF Goto, Local
  <2>3. db' = [db EXCEPT ![w[x].on] = NoRow]
    BY <1>t, <2>1 DEF DeleteRow
  <2>4. CASE w[x].on = "viewshed"
    <3>1. /\ db'["viewshed"] = NoRow /\ db'["coverage"] = db["coverage"]
          /\ tiles' = {} /\ buildings' = buildings
      BY <1>t, <2>1, <2>3, <2>4 DEF DeleteRow
    <3>2. ViewshedTask(x)'
      BY <1>f, <1>v, <2>1, <2>2, <2>4 DEF ViewshedTask, Stage, Built, Rewriting
    <3>3. NothingWithoutRow' /\ NamesItsKind' /\ ViewshedIsWhole' /\ CoverageIsWhole'
      BY <1>f, <1>i, <2>1, <3>1 DEF NothingWithoutRow, NamesItsKind, ViewshedIsWhole,
         CoverageIsWhole, Judged, NoRow, Blank, Tables
    <3> QED BY <1>d, <3>2, <3>3
  <2>5. CASE w[x].on = "coverage"
    <3>1. /\ db'["coverage"] = NoRow /\ db'["viewshed"] = db["viewshed"]
          /\ tiles' = tiles /\ buildings' = {}
      BY <1>t, <2>1, <2>3, <2>5 DEF DeleteRow
    <3>2. ViewshedTask(x)'
      BY <1>f, <1>v, <2>1, <2>2, <2>5, <3>1 DEF ViewshedTask, Stage, Built, Rewriting
    <3>3. db["viewshed"].hash = None
      BY <1>v, <2>1, <2>5 DEF ViewshedTask
    <3>4. NothingWithoutRow' /\ NamesItsKind' /\ ViewshedIsWhole' /\ CoverageIsWhole'
      BY <1>f, <1>i, <2>1, <3>1, <3>3 DEF NothingWithoutRow, NamesItsKind, ViewshedIsWhole,
         CoverageIsWhole, NoRow, Blank, Tables
    <3> QED BY <1>d, <3>2, <3>4
  <2> QED BY <1>t, <2>4, <2>5 DEF Tables
<1>7. ASSUME Recreate(x) PROVE WaitingInv'
  <2>1. w[x].pc = "recreate" /\ UNCHANGED <<tiles, buildings, tif>>
    BY <1>7 DEF Recreate
  <2>2. CASE Raise(x) /\ UNCHANGED db
    BY <1>r, <2>1, <2>2 DEF Data
  <2>3. CASE /\ w[x].on = "viewshed" /\ CanInsert("viewshed") /\ InsertRow("viewshed")
             /\ w' = [w EXCEPT ![x].pc = "cancel", ![x].on = "coverage"]
    <3>1. w'[x].pc = "cancel" /\ w'[x].sector = w[x].sector /\ w'[x].on = "coverage"
      BY <1>t, <2>3 DEF Local
    <3>2. /\ db'["viewshed"].hash = None /\ db'["viewshed"].task = NoTask
          /\ db'["coverage"] = db["coverage"] /\ tiles = {}
      BY <1>t, <1>i, <2>3 DEF InsertRow, CanInsert, NothingWithoutRow, Blank
    <3>3. ViewshedTask(x)'
      BY <1>f, <1>v, <2>1, <3>1, <3>2 DEF ViewshedTask, Stage, Built, Rewriting
    <3>4. NothingWithoutRow' /\ NamesItsKind' /\ ViewshedIsWhole' /\ CoverageIsWhole'
      BY <1>f, <1>i, <2>1, <3>2 DEF NothingWithoutRow, NamesItsKind, ViewshedIsWhole,
         CoverageIsWhole, Judged
    <3> QED BY <1>d, <3>3, <3>4
  <2>4. CASE /\ w[x].on = "coverage" /\ CanInsert("coverage") /\ InsertRow("coverage")
             /\ Goto(x, "refresh")
    <3>1. w'[x].pc = "refresh" /\ w'[x].sector = w[x].sector
      BY <1>t, <2>4 DEF Goto, Local
    <3>2. /\ db'["coverage"].hash = None /\ db'["coverage"].status = "Started"
          /\ db'["viewshed"] = db["viewshed"] /\ db["coverage"] = NoRow
      BY <1>t, <2>4 DEF InsertRow, CanInsert, Blank
    <3>3. ViewshedTask(x)'
      BY <1>f, <1>v, <2>1, <2>4, <3>1, <3>2 DEF ViewshedTask, Stage, Built, Rewriting
    <3>4. db["viewshed"].hash = None
      BY <1>v, <2>1, <2>4 DEF ViewshedTask
    <3>5. NothingWithoutRow' /\ NamesItsKind' /\ ViewshedIsWhole' /\ CoverageIsWhole'
      BY <1>f, <1>i, <2>1, <3>2, <3>4 DEF NothingWithoutRow, NamesItsKind,
         ViewshedIsWhole, CoverageIsWhole
    <3> QED BY <1>d, <3>3, <3>5
  <2> QED BY <1>t, <1>7, <2>2, <2>3, <2>4 DEF Recreate, Tables
<1>8. ASSUME RefreshSector(x) PROVE WaitingInv'
  <2>1. /\ w[x].pc = "refresh" /\ UNCHANGED Data
        /\ w' = [w EXCEPT ![x].pc = "read", ![x].sector = params]
    BY <1>8 DEF RefreshSector, Data
  <2>2. w'[x].pc = "read" /\ w'[x].sector = params
    BY <1>t, <2>1 DEF Local
  <2>3. ViewshedTask(x)'
    BY <1>f, <1>v, <2>1, <2>2 DEF ViewshedTask, Stage, Built, Rewriting, Data
  <2> QED BY <1>q, <2>1, <2>2, <2>3
<1>9. ASSUME ReadViewshed(x) PROVE WaitingInv'
  <2>1. w[x].pc = "read" /\ UNCHANGED Data
    BY <1>9 DEF ReadViewshed, Data
  <2>2. CASE w' = [w EXCEPT ![x].pc = "register", ![x].row = db["viewshed"]]
    <3>1. /\ w'[x].pc = "register" /\ w'[x].sector = w[x].sector
          /\ w'[x].row = db["viewshed"]
      BY <1>t, <2>2 DEF Local
    <3>2. ViewshedTask(x)'
      BY <1>f, <1>v, <2>1, <3>1 DEF ViewshedTask, Stage, Built, Rewriting, Data
    <3> QED BY <1>q, <2>1, <3>1, <3>2
  <2> QED BY <1>9, <1>r, <2>1, <2>2 DEF ReadViewshed
<1>10. ASSUME Register(x) PROVE WaitingInv'
  <2> DEFINE mine == [w[x].row EXCEPT !.task = x]
  <2>1. /\ w[x].pc = "register" /\ UNCHANGED <<tiles, buildings, tif>>
        /\ SaveRow(x, "viewshed", mine, [w[x] EXCEPT !.pc = "claim", !.row = mine])
    BY <1>10 DEF Register
  <2>2. /\ w[x].row = db["viewshed"] /\ db["viewshed"].hash = None
        /\ mine.id = db["viewshed"].id /\ mine.hash = None /\ mine.task = x
    BY <1>t, <1>v, <2>1 DEF ViewshedTask, Rewriting, Row
  <2> HIDE DEF mine
  <2>3. /\ db' = [db EXCEPT !["viewshed"] = mine]
        /\ w' = [w EXCEPT ![x] = [w[x] EXCEPT !.pc = "claim", !.row = mine]]
    BY <1>t, <2>1, <2>2 DEF SaveRow, CanSave
  <2>4. /\ w'[x].pc = "claim" /\ w'[x].sector = w[x].sector /\ w'[x].row = mine
    BY <1>t, <2>3 DEF Local
  <2>5. db'["viewshed"] = mine /\ db'["coverage"] = db["coverage"]
    BY <1>t, <2>3
  <2>6. ViewshedTask(x)'
    BY <1>f, <1>v, <2>1, <2>2, <2>4, <2>5 DEF ViewshedTask, Stage, Built, Rewriting
  <2>7. /\ tiles = {}
    BY <1>v, <2>1 DEF ViewshedTask, Rewriting
  <2>8. NothingWithoutRow' /\ NamesItsKind' /\ ViewshedIsWhole' /\ CoverageIsWhole'
    BY <1>f, <1>i, <2>1, <2>2, <2>5, <2>7 DEF NothingWithoutRow, NamesItsKind, ViewshedIsWhole,
       CoverageIsWhole, Judged
  <2> QED BY <1>d, <2>6, <2>8
<1>11. ASSUME ClaimHash(x) PROVE WaitingInv'
  <2> DEFINE claimed == [w[x].row EXCEPT !.hash = w[x].sector]
             local == [w[x] EXCEPT !.pc = "report", !.then = "wtif", !.row = claimed]
  <2>1. /\ w[x].pc = "claim" /\ UNCHANGED <<tiles, buildings, tif>>
        /\ SaveRow(x, "viewshed", claimed, local)
    BY <1>11 DEF ClaimHash, HashOf, ViewshedHash
  <2>2. /\ w[x].row = db["viewshed"] /\ w[x].row.task = x /\ w[x].sector = params
        /\ claimed.id = db["viewshed"].id /\ claimed.hash = params /\ claimed.task = x
        /\ tiles = {} /\ db["coverage"].status = "Started"
    BY <1>t, <1>v, <2>1 DEF ViewshedTask, Rewriting, Row
  <2>3. /\ local.pc = "report" /\ local.then = "wtif" /\ local.row = claimed
        /\ local.sector = w[x].sector
    BY <1>t DEF Local
  <2> HIDE DEF claimed, local
  <2>4. db' = [db EXCEPT !["viewshed"] = claimed] /\ w' = [w EXCEPT ![x] = local]
    BY <1>t, <2>1, <2>2 DEF SaveRow, CanSave
  <2>5. /\ db'["viewshed"] = claimed /\ db'["coverage"] = db["coverage"] /\ w'[x] = local
    BY <1>t, <2>4
  <2>6. ViewshedTask(x)'
    BY <1>f, <1>v, <2>1, <2>2, <2>3, <2>5 DEF ViewshedTask, Stage, Built, Rewriting
  <2>7. NothingWithoutRow' /\ NamesItsKind' /\ ViewshedIsWhole' /\ CoverageIsWhole'
    BY <1>f, <1>i, <2>1, <2>2, <2>3, <2>5 DEF NothingWithoutRow, NamesItsKind,
       ViewshedIsWhole, CoverageIsWhole
  <2> QED BY <1>d, <2>6, <2>7
<1>12. ASSUME Report(x) PROVE WaitingInv'
  <2>1. w[x].pc = "report" /\ UNCHANGED Data
    BY <1>12 DEF Report, Data
  <2>2. CASE w' = [w EXCEPT ![x].pc = "reported", ![x].buf = db["viewshed"]]
    <3>1. /\ w'[x].pc = "reported" /\ w'[x].sector = w[x].sector
          /\ w'[x].row = w[x].row /\ w'[x].then = w[x].then /\ w'[x].buf = db["viewshed"]
      BY <1>t, <2>2 DEF Local
    <3>2. ViewshedTask(x)'
      BY <1>f, <1>v, <2>1, <3>1 DEF ViewshedTask, Stage, Built, Rewriting, Data
    <3> QED BY <1>q, <2>1, <3>1, <3>2
  <2> QED BY <1>12, <1>r, <2>1, <2>2 DEF Report
<1>13. ASSUME SaveReport(x) PROVE WaitingInv'
  <2>1. /\ w[x].pc = "reported" /\ UNCHANGED <<tiles, buildings, tif>>
        /\ w[x].buf = db["viewshed"] /\ w[x].then \in {"wtif", "tiles", "cache"}
    BY <1>13, <1>v, <1>p DEF SaveReport, ViewshedTask, ReturnsRight
  <2>2. UNCHANGED db /\ w' = [w EXCEPT ![x] = [w[x] EXCEPT !.pc = w[x].then, !.buf = NoRow]]
    BY <1>13, <1>t, <2>1 DEF SaveReport, SaveRow, CanSave
  <2>3. /\ w'[x].pc = w[x].then /\ w'[x].sector = w[x].sector /\ w'[x].row = w[x].row
    BY <1>t, <2>2 DEF Local
  <2>4. ViewshedTask(x)'
    BY <1>f, <1>v, <2>1, <2>2, <2>3 DEF ViewshedTask, Stage, Built, Rewriting
  <2> QED BY <1>q, <2>1, <2>2, <2>3, <2>4 DEF Data
<1>14. ASSUME WriteTif(x) PROVE WaitingInv'
  <2>1. /\ w[x].pc = "wtif" /\ UNCHANGED <<db, tiles, buildings>> /\ tif' = w[x].sector
        /\ w' = [w EXCEPT ![x].pc = "report", ![x].then = "tiles"]
    BY <1>14 DEF WriteTif, Waiting
  <2>2. /\ w'[x].pc = "report" /\ w'[x].then = "tiles" /\ w'[x].sector = w[x].sector
        /\ w'[x].row = w[x].row
    BY <1>t, <2>1 DEF Local
  <2>3. ViewshedTask(x)'
    BY <1>f, <1>v, <2>1, <2>2 DEF ViewshedTask, Stage, Built, Rewriting
  <2>4. db["viewshed"].task = x /\ db["coverage"].status = "Started"
    BY <1>v, <2>1 DEF ViewshedTask, Built
  <2>5. NothingWithoutRow' /\ NamesItsKind' /\ ViewshedIsWhole' /\ CoverageIsWhole'
    BY <1>f, <1>i, <2>1, <2>2, <2>4 DEF NothingWithoutRow, NamesItsKind,
       ViewshedIsWhole, CoverageIsWhole
  <2> QED BY <1>d, <2>3, <2>5
<1>15. ASSUME SaveTiles(x) PROVE WaitingInv'
  <2>1. /\ w[x].pc = "tiles" /\ UNCHANGED <<db, buildings, tif>>
    BY <1>15 DEF SaveTiles
  <2>2. /\ w[x].row = db["viewshed"] /\ tiles = {} /\ w[x].sector = params
        /\ db["viewshed"].task = x /\ db["coverage"].status = "Started"
    BY <1>v, <2>1 DEF ViewshedTask, Stage, Built
  <2>3. /\ tiles' = {params}
        /\ w' = [w EXCEPT ![x].pc = "report", ![x].then = "cache"]
    BY <1>15, <2>2 DEF SaveTiles
  <2>4. /\ w'[x].pc = "report" /\ w'[x].then = "cache" /\ w'[x].sector = w[x].sector
        /\ w'[x].row = w[x].row
    BY <1>t, <2>3 DEF Local
  <2>5. ViewshedTask(x)'
    BY <1>f, <1>v, <2>1, <2>3, <2>4 DEF ViewshedTask, Stage, Built, Rewriting
  <2>6. db["viewshed"] # NoRow
    <3>1. x # NoTask
      BY WorkerFacts
    <3> QED BY <2>2, <3>1 DEF NoRow, Blank
  <2>7. NothingWithoutRow' /\ NamesItsKind' /\ ViewshedIsWhole' /\ CoverageIsWhole'
    BY <1>f, <1>i, <2>1, <2>2, <2>4, <2>6 DEF NothingWithoutRow, NamesItsKind,
       ViewshedIsWhole, CoverageIsWhole
  <2> QED BY <1>d, <2>5, <2>7
<1>16. ASSUME NEW next \in {"publish", "send"}, w[x].pc \in {"cache", "publish"},
              SaveRow(x, "viewshed", w[x].row, [w[x] EXCEPT !.pc = next]),
              UNCHANGED <<tiles, buildings, tif>>
       PROVE  WaitingInv'
  <2>1. w[x].row = db["viewshed"]
    BY <1>16, <1>v DEF ViewshedTask, Built
  <2>2. UNCHANGED db /\ w' = [w EXCEPT ![x] = [w[x] EXCEPT !.pc = next]]
    BY <1>16, <1>t, <2>1 DEF SaveRow, CanSave
  <2>3. /\ w'[x].pc = next /\ w'[x].sector = w[x].sector /\ w'[x].row = w[x].row
    BY <1>t, <2>2 DEF Local
  <2>4. ViewshedTask(x)'
    BY <1>f, <1>v, <1>16, <2>2, <2>3 DEF ViewshedTask, Stage, Built, Rewriting
  <2> QED BY <1>q, <1>16, <2>2, <2>3, <2>4 DEF Data
<1>17. ASSUME ReportFailure(x) PROVE WaitingInv'
  <2>1. w[x].pc = "raise" /\ UNCHANGED Data
    BY <1>17 DEF ReportFailure, Data
  <2>2. CASE w' = [w EXCEPT ![x].pc = "raised", ![x].buf = db["viewshed"]]
    <3>1. w'[x].pc = "raised" /\ w'[x].sector = w[x].sector /\ w'[x].buf = db["viewshed"]
      BY <1>t, <2>2 DEF Local
    <3>2. ViewshedTask(x)'
      BY <1>f, <1>v, <2>1, <3>1 DEF ViewshedTask, Stage, Built, Rewriting, Data
    <3> QED BY <1>q, <2>1, <3>1, <3>2
  <2> QED BY <1>17, <1>e, <2>1, <2>2 DEF ReportFailure, Ended
<1>18. ASSUME SaveFailure(x) PROVE WaitingInv'
  <2>1. w[x].pc = "raised" /\ UNCHANGED <<tiles, buildings, tif>> /\ Finish(x, "failed")
    BY <1>18 DEF SaveFailure
  <2>2. UNCHANGED db
    BY <1>18, <1>t, <1>v DEF SaveFailure, ViewshedTask
  <2> QED BY <1>e, <2>1, <2>2 DEF Data, Ended
<1>19. ~(\/ GetOrCreateCoverage(x) \/ CheckCoverage(x) \/ ClearBuildings(x)
         \/ ListBuildings(x) \/ LoadTif(x) \/ JudgeBuildings(x) \/ CompleteCoverage(x))
  BY <1>p DEF GetOrCreateCoverage, CheckCoverage, ClearBuildings, ListBuildings, LoadTif,
     JudgeBuildings, CompleteCoverage, OnItsTable
<1>20. CASE CacheResult(x) \/ Publish(x)
  BY <1>16, <1>20 DEF CacheResult, Publish
<1> QED BY <1>1, <1>2, <1>3, <1>4, <1>5, <1>6, <1>7, <1>8, <1>9, <1>10, <1>11, <1>12,
           <1>13, <1>14, <1>15, <1>17, <1>18, <1>19, <1>20 DEF Step

(* The steps of a coverage's task, while the sector is there.              *)
LEMMA CoverageStep ==
    ASSUME TypeOK, ParamsAssumption, Waiting, RevocationInv, AccountInv, WaitingInv, alive,
           NEW x \in Worker, Table(x) = "coverage", Step(x), ~SendNearby(x)
    PROVE  WaitingInv'
<1>f. /\ UNCHANGED <<alive, params, web, towerJobs>> /\ x \in Active
      /\ \A y \in Worker : y # x => w'[y] = w[y]
      /\ w'[x].pc # "idle"
      /\ web \in {"ok", "error"} \/ w'[x].pc \in Ended
  <2>1. /\ UNCHANGED site /\ x \in Active
        /\ \A y \in Worker : y # x => w'[y] = w[y]
        /\ w'[x].pc # "idle"
        /\ w[x].pc = "queued" => (GetSector(x) \/ w'[x].pc \in Ended)
    BY StepFrame
  <2> QED BY <2>1 DEF GetSector, Waiting, WaitingInv, OneAtATime, site
<1>t. /\ w \in [Worker -> Local] /\ db \in [Tables -> Row]
      /\ w[x] \in Local /\ w[x].row \in Row
      /\ "viewshed" \in Tables /\ "coverage" \in Tables
      /\ db["viewshed"] \in Row /\ db["coverage"] \in Row
  BY DEF TypeOK, Local, Tables
<1>n. params \in Params /\ params # None /\ CoverageHash(params) # None
  BY DEF ParamsAssumption, TypeOK, Params, CoverageHash
<1>v. CoverageTask(x)
  BY <1>f DEF WaitingInv, Progress
<1>p. OnItsTable(x)
  BY DEF AccountInv, AccountLocal
<1>i. NothingWithoutRow /\ NamesItsKind /\ ViewshedIsWhole /\ CoverageIsWhole
  BY DEF WaitingInv
<1>m. db["viewshed"].task # x
  <2>1. x # NoTask
    BY WorkerFacts
  <2> QED BY <1>i, <2>1 DEF NamesItsKind
<1>g. ASSUME CoverageTask(x)' PROVE Progress(x)'
  BY <1>f, <1>g DEF Progress
<1>q. ASSUME CoverageTask(x)', UNCHANGED Data PROVE WaitingInv'
  BY <1>f, <1>m, <1>g, <1>q, QuietFrame
(* It changes nothing of the viewshed and leaves the coverage unfinished.  *)
<1>d. ASSUME CoverageTask(x)', db'["viewshed"] = db["viewshed"], UNCHANGED <<tiles, tif>>,
             alive /\ db'["coverage"] = NoRow => buildings' = {},
             db'["coverage"].status = "Started"
      PROVE  WaitingInv'
  <2>1. NothingWithoutRow' /\ NamesItsKind' /\ CoverageIsWhole'
    BY <1>f, <1>i, <1>d DEF NothingWithoutRow, NamesItsKind, CoverageIsWhole
  <2>2. ViewshedIsWhole'
    <3>1. db["viewshed"].task \in Worker \cup {NoTask}
      BY <1>t DEF Row
    <3> QED BY <1>f, <1>i, <1>m, <1>d, <3>1 DEF ViewshedIsWhole
  <2> QED BY <1>f, <1>g, <1>d, <2>1, <2>2, WaitingFrame
<1>r. ASSUME w[x].pc # "queued", Raise(x), UNCHANGED Data PROVE WaitingInv'
  BY <1>f, <1>r, RaiseFrame
<1>e. ASSUME NEW how \in Ended, Finish(x, how), UNCHANGED Data PROVE WaitingInv'
  BY <1>f, <1>m, <1>e, EndFrame
<1>1. ASSUME GetSector(x) PROVE WaitingInv'
  <2>1. /\ w[x].pc = "queued" /\ UNCHANGED Data
        /\ w' = [w EXCEPT ![x].pc = "lookup", ![x].sector = params]
    BY <1>1 DEF GetSector, Data
  <2>2. w'[x].pc = "lookup" /\ w'[x].sector = params /\ w'[x].key = w[x].key
    BY <1>t, <2>1 DEF Local
  <2>3. CoverageTask(x)'
    BY <1>f, <1>v, <2>1, <2>2 DEF CoverageTask, Listing, Data
  <2> QED BY <1>q, <2>1, <2>2, <2>3
<1>2. ASSUME GetOrCreateCoverage(x) PROVE WaitingInv'
  <2>1. w[x].pc = "lookup" /\ UNCHANGED <<tiles, buildings, tif>>
    BY <1>2 DEF GetOrCreateCoverage
  <2>2. CASE /\ UNCHANGED db
             /\ w' = [w EXCEPT ![x].pc = "register", ![x].row = db["coverage"]]
    <3>1. /\ w'[x].pc = "register" /\ w'[x].row = db["coverage"]
          /\ w'[x].sector = w[x].sector /\ w'[x].key = w[x].key
      BY <1>t, <2>2 DEF Local
    <3>2. CoverageTask(x)'
      BY <1>f, <1>v, <2>1, <2>2, <3>1 DEF CoverageTask, Listing
    <3> QED BY <1>q, <2>1, <2>2, <3>2 DEF Data
  <2>3. CASE /\ CanInsert("coverage") /\ InsertRow("coverage")
             /\ w' = [w EXCEPT ![x].pc = "register", ![x].key = CoverageHash(w[x].sector),
                               ![x].row = Blank(nextId["coverage"])]
    <3>1. /\ w'[x].pc = "register" /\ w'[x].row = Blank(nextId["coverage"])
          /\ w'[x].sector = w[x].sector /\ w'[x].key = CoverageHash(w[x].sector)
      BY <1>t, <2>3 DEF Local
    <3>2. /\ db'["coverage"] = Blank(nextId["coverage"]) /\ db'["viewshed"] = db["viewshed"]
          /\ db["coverage"] = NoRow
      BY <1>t, <2>3 DEF InsertRow, CanInsert
    <3>3. CoverageTask(x)'
      BY <1>f, <1>v, <2>1, <3>1, <3>2 DEF CoverageTask, Listing, Blank
    <3>4. db'["coverage"].status = "Started" /\ (alive => buildings = {})
      BY <1>i, <3>2 DEF NothingWithoutRow, Blank
    <3> QED BY <1>d, <2>1, <3>2, <3>3, <3>4
  <2> QED BY <1>2, <2>2, <2>3 DEF GetOrCreateCoverage
<1>3. ASSUME Register(x) PROVE WaitingInv'
  <2> DEFINE mine == [w[x].row EXCEPT !.task = x]
             local == [w[x] EXCEPT !.pc = "check", !.row = mine]
  <2>1. /\ w[x].pc = "register" /\ UNCHANGED <<tiles, buildings, tif>>
        /\ SaveRow(x, "coverage", mine, local)
    BY <1>3 DEF Register
  <2>2. /\ w[x].row = db["coverage"] /\ mine.id = db["coverage"].id
        /\ mine.hash = None /\ mine.status = "Started" /\ mine # NoRow
    <3>1. w[x].row = db["coverage"] /\ db["coverage"].hash = None
          /\ db["coverage"].status = "Started"
      BY <1>v, <2>1 DEF CoverageTask, Listing
    <3>2. mine.task = x /\ x # NoTask
      BY <1>t, WorkerFacts DEF Row
    <3> QED BY <1>t, <3>1, <3>2 DEF Row, NoRow, Blank
  <2>3. /\ local.pc = "check" /\ local.row = mine
        /\ local.sector = w[x].sector /\ local.key = w[x].key
    BY <1>t DEF Local
  <2> HIDE DEF mine, local
  <2>4. db' = [db EXCEPT !["coverage"] = mine] /\ w' = [w EXCEPT ![x] = local]
    BY <1>t, <2>1, <2>2 DEF SaveRow, CanSave
  <2>5. db'["coverage"] = mine /\ db'["viewshed"] = db["viewshed"] /\ w'[x] = local
    BY <1>t, <2>4
  <2>6. CoverageTask(x)'
    BY <1>f, <1>v, <2>1, <2>2, <2>3, <2>5 DEF CoverageTask, Listing
  <2> QED BY <1>d, <2>1, <2>2, <2>5, <2>6
<1>4. ASSUME CheckCoverage(x) PROVE WaitingInv'
  <2>1. w[x].pc = "check" /\ UNCHANGED Data
    BY <1>4 DEF CheckCoverage, Data
  <2>2. w[x].row.hash = None /\ w[x].key \in {None, CoverageHash(params)}
    BY <1>v, <2>1 DEF CoverageTask, Listing
  <2>3. w' = [w EXCEPT ![x].key = CoverageHash(params), ![x].pc = "clear"]
    BY <1>4, <1>n, <2>2 DEF CheckCoverage
  <2>4. /\ w'[x].pc = "clear" /\ w'[x].key = CoverageHash(params) /\ w'[x].row = w[x].row
        /\ w'[x].sector = w[x].sector
    BY <1>t, <2>3 DEF Local
  <2>5. CoverageTask(x)'
    BY <1>f, <1>v, <2>1, <2>4 DEF CoverageTask, Listing, Data
  <2> QED BY <1>q, <2>1, <2>5
<1>5. ASSUME ClearBuildings(x) PROVE WaitingInv'
  <2>1. /\ w[x].pc = "clear" /\ UNCHANGED <<db, tiles, tif>> /\ Goto(x, "claim")
    BY <1>5 DEF ClearBuildings
  <2>2. w[x].row = db["coverage"] /\ db["coverage"].status = "Started"
    BY <1>v, <2>1 DEF CoverageTask, Listing
  <2>3. buildings' = {}
    BY <1>5, <2>2 DEF ClearBuildings
  <2>4. /\ w'[x].pc = "claim" /\ w'[x].key = w[x].key /\ w'[x].row = w[x].row
        /\ w'[x].sector = w[x].sector
    BY <1>t, <2>1 DEF Goto, Local
  <2>5. CoverageTask(x)'
    BY <1>f, <1>v, <2>1, <2>3, <2>4 DEF CoverageTask, Listing
  <2> QED BY <1>d, <2>1, <2>2, <2>3, <2>5
<1>6. ASSUME ClaimHash(x) PROVE WaitingInv'
  <2> DEFINE claimed == [w[x].row EXCEPT !.hash = w[x].key]
             local == [w[x] EXCEPT !.pc = "list", !.row = claimed]
  <2>1. /\ w[x].pc = "claim" /\ UNCHANGED <<tiles, buildings, tif>>
        /\ SaveRow(x, "coverage", claimed, local)
    BY <1>6 DEF ClaimHash, HashOf
  <2>2. /\ w[x].row = db["coverage"] /\ w[x].key = CoverageHash(params)
        /\ claimed.id = db["coverage"].id /\ claimed.hash = CoverageHash(params)
        /\ buildings = {}
        /\ claimed.status = "Started"
    BY <1>t, <1>v, <2>1 DEF CoverageTask, Listing, Row
  <2>3. /\ local.pc = "list" /\ local.row = claimed
        /\ local.sector = w[x].sector /\ local.key = w[x].key
    BY <1>t DEF Local
  <2> HIDE DEF claimed, local
  <2>4. db' = [db EXCEPT !["coverage"] = claimed] /\ w' = [w EXCEPT ![x] = local]
    BY <1>t, <2>1, <2>2 DEF SaveRow, CanSave
  <2>5. db'["coverage"] = claimed /\ db'["viewshed"] = db["viewshed"] /\ w'[x] = local
    BY <1>t, <2>4
  <2>6. CoverageTask(x)'
    BY <1>f, <1>v, <2>1, <2>2, <2>3, <2>5 DEF CoverageTask, Listing
  <2> QED BY <1>d, <2>1, <2>2, <2>5, <2>6
<1>l. ASSUME w[x].pc \in Listing
      PROVE  /\ w[x].row = db["coverage"] /\ db["coverage"].hash = CoverageHash(params)
             /\ db["coverage"].status = "Started" /\ w[x].sector = params
             /\ db["coverage"] # NoRow /\ tif = params
  BY <1>v, <1>l, <1>n DEF CoverageTask, Listing, NoRow, Blank
<1>7. ASSUME ListBuildings(x) PROVE WaitingInv'
  <2>1. w[x].pc = "list" /\ w[x].pc \in Listing /\ UNCHANGED <<db, tiles, tif>>
    BY <1>7 DEF ListBuildings, Listing
  <2>2. /\ buildings' = buildings \cup {[by |-> x[2], area |-> w[x].sector, tif |-> None]}
        /\ Goto(x, "load") /\ buildings = {}
    BY <1>7, <1>l, <1>v, <2>1 DEF ListBuildings, CoverageTask
  <2>3. /\ w'[x].pc = "load" /\ w'[x].key = w[x].key /\ w'[x].row = w[x].row
        /\ w'[x].sector = w[x].sector
    BY <1>t, <2>2 DEF Goto, Local
  <2>4. buildings' # {} /\ \A b \in buildings' : b.area = params
    BY <1>l, <2>1, <2>2
  <2>5. CoverageTask(x)'
    BY <1>f, <1>v, <2>1, <2>3, <2>4 DEF CoverageTask, Listing
  <2> QED BY <1>d, <1>l, <2>1, <2>5
<1>8. ASSUME LoadTif(x) PROVE WaitingInv'
  <2>1. w[x].pc = "load" /\ UNCHANGED Data
    BY <1>8 DEF LoadTif, Data
  <2>2. CASE w' = [w EXCEPT ![x].pc = "judge", ![x].tif = tif]
    <3>1. /\ w'[x].pc = "judge" /\ w'[x].key = w[x].key /\ w'[x].row = w[x].row
          /\ w'[x].sector = w[x].sector /\ w'[x].tif = tif
      BY <1>t, <2>2 DEF Local
    <3>2. CoverageTask(x)'
      BY <1>f, <1>v, <2>1, <3>1 DEF CoverageTask, Listing, Data
    <3> QED BY <1>q, <2>1, <3>2
  <2> QED BY <1>8, <1>r, <2>1, <2>2 DEF LoadTif
<1>9. ASSUME JudgeBuildings(x) PROVE WaitingInv'
  <2>1. w[x].pc = "judge" /\ w[x].pc \in Listing /\ UNCHANGED <<db, tiles, tif>>
    BY <1>9 DEF JudgeBuildings, Listing
  <2>2. /\ buildings' = {[b EXCEPT !.tif = w[x].tif] : b \in buildings}
        /\ Goto(x, "complete") /\ w[x].tif = params
        /\ buildings # {} /\ \A b \in buildings : b.area = params
    BY <1>9, <1>l, <1>v, <2>1 DEF JudgeBuildings, CoverageTask
  <2>3. /\ w'[x].pc = "complete" /\ w'[x].key = w[x].key /\ w'[x].row = w[x].row
        /\ w'[x].sector = w[x].sector
    BY <1>t, <2>2 DEF Goto, Local
  <2>4. Judged(params)'
    <3>1. \A b \in buildings : b \in Building
      BY DEF TypeOK
    <3>2. \A b \in buildings' : b.area = params /\ b.tif = params
      BY <2>2, <3>1 DEF Building
    <3> QED BY <1>f, <2>2, <3>2 DEF Judged
  <2>5. CoverageTask(x)'
    BY <1>f, <1>v, <2>1, <2>3, <2>4 DEF CoverageTask, Listing
  <2> QED BY <1>d, <1>l, <2>1, <2>5
<1>10. ASSUME CompleteCoverage(x) PROVE WaitingInv'
  <2> DEFINE complete == [w[x].row EXCEPT !.status = "Complete"]
  <2>1. /\ w[x].pc = "complete" /\ w[x].pc \in Listing /\ UNCHANGED <<tiles, buildings, tif>>
    BY <1>10 DEF CompleteCoverage, Listing
  <2>2. complete.id = db["coverage"].id /\ Judged(params)
        /\ complete.hash = CoverageHash(params) /\ tif = params
    BY <1>t, <1>l, <1>v, <2>1 DEF CoverageTask, Row
  <2>3. db' = [db EXCEPT !["coverage"] = complete] /\ Finish(x, "done")
    BY <1>10, <2>2 DEF CompleteCoverage, CanSave
  <2> HIDE DEF complete
  <2>4. /\ db'["coverage"] = complete /\ db'["viewshed"] = db["viewshed"]
        /\ complete # NoRow
    BY <1>t, <1>n, <2>2, <2>3 DEF NoRow, Blank
  <2>5. w'[x].pc = "done"
    BY <1>t, <2>3, FinishFacts
  <2>6. NothingWithoutRow' /\ NamesItsKind' /\ CoverageIsWhole'
    BY <1>f, <1>i, <1>n, <2>1, <2>2, <2>4 DEF NothingWithoutRow, NamesItsKind,
       CoverageIsWhole, Judged
  <2>7. ViewshedIsWhole'
    <3>1. db["viewshed"].task \in Worker \cup {NoTask}
      BY <1>t DEF Row
    <3> QED BY <1>f, <1>i, <1>m, <2>1, <2>2, <2>4, <3>1 DEF ViewshedIsWhole, Judged
  <2> QED BY <1>f, <2>5, <2>6, <2>7, WaitingFrame DEF Ended
<1>11. ASSUME ReportFailure(x) PROVE WaitingInv'
  <2>1. w[x].pc = "raise" /\ UNCHANGED Data
    BY <1>11 DEF ReportFailure, Data
  <2>2. CASE w' = [w EXCEPT ![x].pc = "raised", ![x].buf = db["viewshed"]]
    <3>1. /\ w'[x].pc = "raised" /\ w'[x].sector = w[x].sector /\ w'[x].key = w[x].key
          /\ w'[x].buf = db["viewshed"]
      BY <1>t, <2>2 DEF Local
    <3>2. CoverageTask(x)'
      BY <1>f, <1>v, <2>1, <3>1 DEF CoverageTask, Listing, Data
    <3> QED BY <1>q, <2>1, <3>2
  <2> QED BY <1>11, <1>e, <2>1, <2>2 DEF ReportFailure, Ended
<1>12. ASSUME SaveFailure(x) PROVE WaitingInv'
  <2>1. w[x].pc = "raised" /\ UNCHANGED <<tiles, buildings, tif>> /\ Finish(x, "failed")
    BY <1>12 DEF SaveFailure
  <2>2. UNCHANGED db
    BY <1>12, <1>t, <1>v DEF SaveFailure, CoverageTask
  <2> QED BY <1>e, <2>1, <2>2 DEF Data, Ended
<1>13. ~(\/ GetOrCreateViewshed(x) \/ ResaveViewshed(x) \/ CheckViewshed(x)
         \/ CancelOld(x) \/ DropOld(x) \/ Recreate(x) \/ RefreshSector(x) \/ ReadViewshed(x)
         \/ Report(x) \/ SaveReport(x) \/ WriteTif(x) \/ SaveTiles(x)
         \/ CacheResult(x) \/ Publish(x))
  BY <1>p DEF GetOrCreateViewshed, ResaveViewshed, CheckViewshed, CancelOld, DropOld,
     Recreate, RefreshSector, ReadViewshed, Report, SaveReport, WriteTif, SaveTiles,
     CacheResult, Publish, OnItsTable
<1> QED BY <1>1, <1>2, <1>3, <1>4, <1>5, <1>6, <1>7, <1>8, <1>9, <1>10, <1>11, <1>12,
           <1>13 DEF Step

(* The coverage's task is sent.                                            *)
LEMMA NearbyStep ==
    ASSUME TypeOK, RevocationInv, WaitingInv, alive, NEW x \in Worker, SendNearby(x)
    PROVE  WaitingInv'
<1> DEFINE c == <<"coverage", x[2]>>
<1>1. /\ c \in Worker /\ c # x /\ Table(c) = "coverage" /\ Table(x) = "viewshed"
      /\ x \in Active /\ w[x].pc = "send" /\ w'[x].pc = "done"
      /\ w'[c].pc = "queued" /\ w'[c].key = None
      /\ \A y \in Worker \ {x, c} : w'[y] = w[y]
      /\ UNCHANGED site /\ UNCHANGED Data
  BY SendNearbyFacts
<1> HIDE DEF c
<1>2. /\ w[x].row = db["viewshed"] /\ w[x].row.task = x /\ w[x].row.hash = params
      /\ tiles = {params} /\ tif = params
      /\ db["coverage"].hash = None /\ db["coverage"].status = "Started"
  BY <1>1 DEF WaitingInv, Progress, ViewshedTask, Stage, Built
<1>3. Active' \subseteq {c} /\ towerJobs = 0 /\ web \in {"ok", "error"}
  BY <1>1 DEF WaitingInv, OneAtATime, Active, Ended
<1>4. OneAtATime'
  BY <1>1, <1>3 DEF OneAtATime, site
<1>5. \A y \in Worker : w'[y].pc = "idle" => w'[y] = Fresh
  BY <1>1 DEF WaitingInv
<1>6. NothingWithoutRow' /\ NamesItsKind' /\ CoverageIsWhole'
  BY <1>1 DEF WaitingInv, NothingWithoutRow, NamesItsKind, CoverageIsWhole, Judged, Data,
     site
<1>7. ViewshedIsWhole'
  BY <1>1, <1>2 DEF ViewshedIsWhole, Data
<1>8. CoverageTask(c)'
  BY <1>1, <1>2 DEF CoverageTask, Listing, Data, site
<1>9. \A y \in Active' : Progress(y)'
  BY <1>1, <1>3, <1>8 DEF Progress
<1> QED BY <1>4, <1>5, <1>6, <1>7, <1>9 DEF WaitingInv

(* A task fails, is killed or dies.                                        *)
LEMMA StopStep ==
    ASSUME TypeOK, RevocationInv, WaitingInv, NEW x \in Worker, Stop(x)
    PROVE  WaitingInv'
<1>1. /\ UNCHANGED <<alive, params, web, towerJobs>> /\ UNCHANGED Data
      /\ w[x].pc \notin Ended \cup {"idle"}
      /\ Finish(x, "killed") \/ (Raise(x) /\ w[x].pc # "queued")
  BY DEF Stop, Fail, Kill, Crash, site, Data, Ended, Compute
<1>2. x \in Active
  BY <1>1 DEF Active
<1> QED BY <1>1, <1>2, EndFrame, RaiseFrame DEF Ended

(* Every step of a task.                                                   *)
LEMMA WorkerStep ==
    ASSUME TypeOK, ParamsAssumption, Waiting, RevocationInv, AccountInv, WaitingInv,
           NEW x \in Worker, Step(x) \/ Stop(x)
    PROVE  WaitingInv'
<1>1. CASE ~alive
  BY <1>1, DeletedStep
<1>2. CASE Stop(x)
  BY <1>2, StopStep
<1>3. CASE alive /\ Step(x)
  <2>1. Table(x) = "viewshed" \/ Table(x) = "coverage"
    BY WorkerFacts DEF Tables
  <2> QED BY <1>3, <2>1, ViewshedStep, CoverageStep, NearbyStep
<1> QED BY <1>1, <1>2, <1>3

-----------------------------------------------------------------------------
(* Requests, edits, and the theorem.                                       *)

(* When nothing runs, no task is active.                                   *)
LEMMA QuiescentFacts == Quiescent <=> /\ web \in {"ok", "error"} /\ towerJobs = 0
                                      /\ Active = {}
BY DEF Quiescent, Active, Ended

(* A step that starts no task and leaves rows, tiles, buildings and raster *)
(* alone, when none is active.                                             *)
LEMMA IdleFrame ==
    ASSUME WaitingInv, Active = {}, UNCHANGED w, UNCHANGED <<alive, web>>,
           UNCHANGED Data, towerJobs' \in {0, 1},
           web \in {"ok", "error"} \/ towerJobs' = 0
    PROVE  WaitingInv'
<1>1. Active' = {}
  BY DEF Active
<1>2. OneAtATime'
  BY <1>1 DEF WaitingInv, OneAtATime
<1>3. NothingWithoutRow' /\ NamesItsKind' /\ ViewshedIsWhole' /\ CoverageIsWhole'
  BY DEF WaitingInv, NothingWithoutRow, NamesItsKind, ViewshedIsWhole, CoverageIsWhole,
     Judged, Data
<1> QED BY <1>1, <1>2, <1>3 DEF WaitingInv

(* The task of a save is sent, when none is active.                        *)
LEMMA SendFrame ==
    ASSUME TypeOK, WaitingInv, Active = {}, SendViewshed,
           UNCHANGED <<alive, web>>, UNCHANGED Data,
           towerJobs' = 0, web \in {"ok", "error"}
    PROVE  WaitingInv'
<1>1. PICK n \in Idle : Goto(<<"viewshed", n>>, "queued")
  BY DEF SendViewshed
<1> DEFINE x == <<"viewshed", n>>
<1>2. x \in Worker /\ Table(x) = "viewshed" /\ w[x].pc = "idle"
  BY WorkerFacts DEF Idle, Tables
<1> HIDE DEF x
<1>3. w \in [Worker -> Local] /\ w[x] = Fresh
  BY <1>2 DEF TypeOK, WaitingInv
<1>4. /\ w'[x].pc = "queued" /\ w'[x].on = "viewshed"
      /\ \A y \in Worker : y # x => w'[y] = w[y]
  BY <1>1, <1>2, <1>3 DEF Goto, Fresh, x
<1>5. Active' \subseteq {x}
  BY <1>4 DEF Active
<1>6. OneAtATime'
  BY <1>4, <1>5 DEF OneAtATime
<1>7. NothingWithoutRow' /\ NamesItsKind' /\ CoverageIsWhole'
  BY DEF WaitingInv, NothingWithoutRow, NamesItsKind, CoverageIsWhole, Judged, Data
<1>8. ViewshedIsWhole'
  <2>1. db["viewshed"].task \in Worker \cup {NoTask}
    BY DEF TypeOK, Tables, Row
  <2> QED BY <1>4, <2>1 DEF WaitingInv, ViewshedIsWhole, Judged, Data
<1>9. ViewshedTask(x)'
  BY <1>4 DEF ViewshedTask, Stage, Built, Rewriting
<1>10. \A y \in Active' : Progress(y)'
  BY <1>2, <1>5, <1>9 DEF Progress
<1>11. \A y \in Worker : w'[y].pc = "idle" => w'[y] = Fresh
  BY <1>4 DEF WaitingInv
<1> QED BY <1>6, <1>7, <1>8, <1>10, <1>11 DEF WaitingInv

(* The request that creates the sector makes its rows.                     *)
LEMMA CreateStep ==
    ASSUME TypeOK, WaitingInv, Request
    PROVE  WaitingInv'
<1>1. PICK k \in Tables, next \in {"viewshed", "ok"} : CreateRow(k, next)
  BY DEF Request, CreateCoverageRow, CreateViewshedRow, Tables
<1>2. /\ web \notin {"ok", "error"} /\ UNCHANGED <<alive, params, towerJobs>>
      /\ UNCHANGED <<w, tiles, buildings, tif>>
  BY <1>1 DEF CreateRow, Tables
<1>3. towerJobs = 0 /\ \A x \in Active : w[x].pc = "queued"
  BY <1>2 DEF WaitingInv, OneAtATime
<1>4. Active' = Active
  BY <1>2 DEF Active
<1>5. OneAtATime'
  BY <1>2, <1>3, <1>4 DEF WaitingInv, OneAtATime
<1>6. \/ UNCHANGED db
      \/ /\ alive /\ db[k] = NoRow
         /\ db'[k] = Blank(nextId[k]) /\ \A j \in Tables : j # k => db'[j] = db[j]
  BY <1>1 DEF CreateRow, InsertRow, CanInsert, TypeOK
<1>7. NothingWithoutRow' /\ NamesItsKind' /\ ViewshedIsWhole' /\ CoverageIsWhole'
  BY <1>2, <1>6 DEF WaitingInv, NothingWithoutRow, NamesItsKind, ViewshedIsWhole,
     CoverageIsWhole, Judged, Blank, Tables
<1>8. ASSUME NEW x \in Active PROVE Progress(x)'
  <2> SUFFICES ASSUME alive PROVE Progress(x)'
    BY <1>2 DEF Progress
  <2>1. w[x].pc = "queued" /\ Progress(x)
    BY <1>3 DEF WaitingInv
  <2>2. CASE Table(x) = "viewshed"
    <3>1. ViewshedTask(x)'
      BY <1>2, <2>1, <2>2 DEF Progress, ViewshedTask, Stage, Built, Rewriting
    <3> QED BY <2>2, <3>1 DEF Progress
  <2>3. CASE Table(x) # "viewshed"
    <3>1. CoverageTask(x)'
      BY <1>2, <1>6, <2>1, <2>3 DEF Progress, CoverageTask, Listing, Blank, Tables
    <3> QED BY <2>3, <3>1 DEF Progress
  <2> QED BY <2>2, <2>3
<1>9. \A y \in Worker : w'[y].pc = "idle" => w'[y] = Fresh
  BY <1>2 DEF WaitingInv
<1> QED BY <1>4, <1>5, <1>7, <1>8, <1>9 DEF WaitingInv

(* The sector is deleted, whatever runs.                                   *)
LEMMA DeleteStep ==
    ASSUME TypeOK, WaitingInv, DeleteSector
    PROVE  WaitingInv'
<1>1. /\ ~alive' /\ \A k \in Tables : db'[k] = NoRow
      /\ UNCHANGED <<w, web, towerJobs>>
  BY DEF DeleteSector
<1>2. OneAtATime'
  BY <1>1 DEF WaitingInv, OneAtATime, Active
<1>3. NothingWithoutRow' /\ NamesItsKind' /\ ViewshedIsWhole' /\ CoverageIsWhole'
  BY <1>1 DEF NothingWithoutRow, NamesItsKind, ViewshedIsWhole, CoverageIsWhole,
     NoRow, Blank, Tables
<1> QED BY <1>1, <1>2, <1>3 DEF WaitingInv, Progress

(* It holds of a sector whose creation is under way.                       *)
LEMMA WaitingInit == Init => WaitingInv
<1> SUFFICES ASSUME Init PROVE WaitingInv
  OBVIOUS
<1> DEFINE first == <<"viewshed", 1>>
<1>1. /\ \A x \in Worker : x # first => w[x] = Fresh
      /\ \A x \in Worker : x = first => w[x] = [Fresh EXCEPT !.pc = "queued"]
  BY DEF Init
<1>2. \A x \in Active : x = first /\ w[x].pc = "queued" /\ w[x].on = "viewshed"
  BY <1>1 DEF Active, Fresh, Ended
<1>3. OneAtATime
  BY <1>2 DEF Init, OneAtATime
<1>4. NothingWithoutRow /\ NamesItsKind /\ ViewshedIsWhole /\ CoverageIsWhole
  BY DEF Init, NothingWithoutRow, NamesItsKind, ViewshedIsWhole, CoverageIsWhole,
     NoRow, Blank, Tables
<1>5. ASSUME NEW x \in Active PROVE Progress(x)
  <2>1. Table(x) = "viewshed"
    BY <1>2 DEF Table
  <2>2. ViewshedTask(x)
    BY <1>2 DEF ViewshedTask, Stage, Built, Rewriting
  <2> QED BY <2>1, <2>2 DEF Progress
<1>6. \A x \in Worker : w[x].pc = "idle" => w[x] = Fresh
  BY <1>1 DEF Fresh
<1> QED BY <1>3, <1>4, <1>5, <1>6 DEF WaitingInv

(* Every step keeps it, if saves wait for each other.                      *)
LEMMA WaitingStep ==
    ASSUME ParamsAssumption, Waiting
    PROVE  TypeOK /\ RevocationInv /\ AccountInv /\ WaitingInv /\ [Next]_vars => WaitingInv'
<1> SUFFICES ASSUME TypeOK, RevocationInv, AccountInv, WaitingInv, [Next]_vars
             PROVE  WaitingInv'
  OBVIOUS
<1>1. ASSUME MayEdit PROVE Active = {} /\ towerJobs = 0 /\ web \in {"ok", "error"}
  BY <1>1, QuiescentFacts DEF MayEdit, Waiting
<1>2. ASSUME NEW p \in Params, SaveSector(p) PROVE WaitingInv'
  BY <1>1, <1>2, SendFrame DEF SaveSector, Data
<1>3. ASSUME NEW p \in Params, SaveTower(p) PROVE WaitingInv'
  BY <1>1, <1>3, IdleFrame DEF SaveTower, Data
<1>4. ASSUME UpdateSectors PROVE WaitingInv'
  <2>1. towerJobs = 1 /\ Active = {} /\ web \in {"ok", "error"}
    BY <1>4 DEF UpdateSectors, WaitingInv, OneAtATime
  <2> QED BY <1>4, <2>1, SendFrame, IdleFrame DEF UpdateSectors, Data
<1>5. CASE UNCHANGED vars
  <2>1. UNCHANGED <<alive, params, web, towerJobs, w, db, tiles, buildings, tif>>
    BY <1>5 DEF vars
  <2> QED BY <2>1 DEF WaitingInv, OneAtATime, Active, NothingWithoutRow, NamesItsKind,
             ViewshedIsWhole, CoverageIsWhole, Judged, Progress, ViewshedTask, CoverageTask,
             Stage
<1> QED BY <1>2, <1>3, <1>4, <1>5, CreateStep, DeleteStep, WorkerStep DEF Next, Edit

(* When saves wait for each other and uploads arrive, whatever fails, dies *)
(* or is deleted on the way (calculateViewshed, calculateSectorCoverage):  *)
(* FinishedResultsAreCurrent of the spaced run, for every number of saves. *)
THEOREM ResultsAreCurrent ==
    ASSUME Waiting
    PROVE  Spec => []FinishedResultsAreCurrent
<1>1. TypeOK /\ RevocationInv /\ AccountInv /\ WaitingInv /\ [Next]_vars
          => (TypeOK /\ RevocationInv /\ AccountInv /\ WaitingInv)'
  BY NextType, RevocationStep, AccountStep, WaitingStep, ParamsAssumption
<1>2. TypeOK /\ WaitingInv => FinishedResultsAreCurrent
  <2> SUFFICES ASSUME TypeOK, WaitingInv PROVE FinishedResultsAreCurrent
    OBVIOUS
  <2>1. params # None /\ params \in Params
    BY ParamsAssumption DEF TypeOK
  <2>2. FinishedViewshed
           => /\ tiles = {params} /\ tif = params
              /\ db["coverage"].status = "Complete" => JudgedBuildings
    BY <2>1 DEF WaitingInv, ViewshedIsWhole, FinishedViewshed, ViewshedHash, Judged,
       JudgedBuildings
  <2>3. db["coverage"].status = "Complete"
           => /\ buildings # {}
              /\ \A b \in buildings : b.tif = b.area /\ db["coverage"].hash = CoverageHash(b.area)
    BY DEF WaitingInv, CoverageIsWhole, Judged
  <2> QED BY <2>2, <2>3 DEF FinishedResultsAreCurrent
<1> QED BY InitType, RevocationInit, AccountInit, WaitingInit, <1>1, <1>2, PTL DEF Spec
=============================================================================
