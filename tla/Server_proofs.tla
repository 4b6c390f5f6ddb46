----------------------------- MODULE Server_proofs -----------------------------
(***************************************************************************)
(* What the web server and its workers leave behind.                       *)
(*                                                                         *)
(* Sessions, whatever the networks, the files and the number of sessions   *)
(* and edits: a link stays inside its session, and a copy that nobody      *)
(* disturbs is whole.                                                      *)
(*                                                                         *)
(* Towers without sectors, for any number of requests and forms.  Two      *)
(* tasks run side by side and either may fail or be killed anywhere; what  *)
(* makes the verdicts right is that a request is sent when the tasks of    *)
(* the one before have ended, that each task's place in its statements     *)
(* tells what the rows hold, and that a hash is stored after the work.     *)
(*                                                                         *)
(* Solar systems, whatever the libraries, loads and irradiance: a system   *)
(* is credited with no more than its battery could deliver, and the one    *)
(* chosen is the cheapest that suffices.                                   *)
(*                                                                         *)
(* Building outlines, whatever the picture and the lines found in it: the  *)
(* grid follows its lines, and the rectangles kept are building and apart. *)
(***************************************************************************)
EXTENDS WorkspaceSessions, TowerCoverage, SolarSizing, BuildingOutline, Inductions, SequenceTheorems, TLAPS

(***************************************************************************)
(*                                Sessions                                 *)
(***************************************************************************)

Statuses == {"running", "done", "failed", "killed"}

SessionJob == [op : {"copy", "import"}, from : Nat \cup Files, at : Nat, todo : SUBSET SessionRow,
        copied : SUBSET Key, status : Statuses]

SessionsTypeOK ==
    /\ created \in Nat \ {0} /\ changes \in Nat
    /\ DOMAIN sessions \subseteq 1 .. created
    /\ table \subseteq SessionRow
    /\ DOMAIN jobs \subseteq 2 .. created
    /\ jobs \in [DOMAIN jobs -> SessionJob]

CopyJobs   == {s \in DOMAIN jobs : jobs[s].op = "copy"}
ImportJobs == {s \in DOMAIN jobs : jobs[s].op = "import"}

Scope == /\ \A s \in CopyJobs : jobs[s].from \in 1 .. (s - 1) /\ jobs[s].at \in 0 .. 5
         /\ \A s \in ImportJobs : jobs[s].from \in Files

\* What a row is like, in the table or as it was read: of a session made before,
\* with keys of the right kinds, and in an imported session only links have keys.
Proper(r) ==
    /\ WellKeyed(r)
    /\ r.session \in 1 .. created
    /\ \A u \in Refs(r) : u[1] \in 1 .. created
    /\ r.session \in ImportJobs => r.kind # "sector" /\ (r.kind # "link" => Refs(r) = {})
    /\ \A u \in Refs(r) : u[1] \in ImportJobs => r.kind = "link" /\ r.session = u[1]

AllProper == /\ \A r \in table : Proper(r)
             /\ \A s \in DOMAIN jobs : \A r \in jobs[s].todo : Proper(r)

\* The foreign keys of the table, and of a row to its session.
Referential == \A r \in table : r.session \in DOMAIN sessions /\ Refs(r) \subseteq Uuids(table)

LinkIsInside(r) == r.kind = "link" => \A u \in Refs(r) : u[1] = r.session

Inside == \A r \in table : LinkIsInside(r)

OwnCopies == \A s \in DOMAIN jobs : \A u \in jobs[s].copied : u[1] = s

LinksInv == SessionsTypeOK /\ Scope /\ AllProper /\ Referential /\ Inside /\ OwnCopies

------------------------------------------------------------------------------
(* Rows and their keys *)

\* A row that holds a key is of a kind that comes after the kind of the key's row.
LEMMA KeysGoUp ==
    ASSUME NEW r \in SessionRow, NEW q \in SessionRow, WellKeyed(r), WellKeyed(q), Uuid(q) \in Refs(r)
    PROVE  \/ r.kind \in {"sector", "cpe", "link"} /\ q.kind = "ap"
           \/ r.kind \in {"cpe", "link"} /\ q.kind = "sector"
           \/ r.kind = "link" /\ q.kind = "cpe"
<1> DEFINE u == Uuid(q)
<1>1. u[2] = q.name /\ q.name[1] = q.kind
  BY DEF Uuid, WellKeyed
<1>2. u # NoKey /\ (u = r.ap \/ u = r.sector \/ u = r.cpe)
  BY DEF Refs
<1> HIDE DEF u
<1>3. QED
  BY <1>1, <1>2 DEF WellKeyed

\* Three rounds of the cascade are enough: what is left refers to nothing of what goes.
LEMMA CascadeIsClosed ==
    ASSUME table \subseteq SessionRow, \A r \in table : WellKeyed(r), NEW S \in SUBSET table
    PROVE  /\ Cascaded(S) \subseteq table /\ S \subseteq Cascaded(S)
           /\ \A r \in table \ Cascaded(S) : Refs(r) \cap Uuids(Cascaded(S)) = {}
<1> DEFINE More(T) == T \cup {r \in table : Refs(r) \cap Uuids(T) # {}}
           A == More(S)
           B == More(A)
           C == More(B)
<1>1. Cascaded(S) = C
  BY DEF Cascaded
<1>2. S \subseteq A /\ A \subseteq B /\ B \subseteq C /\ C \subseteq table
  OBVIOUS
<1>3. SUFFICES ASSUME NEW r \in table, r \notin C, NEW q \in C, Uuid(q) \in Refs(r)
               PROVE  FALSE
  BY <1>1, <1>2 DEF Uuids
<1>4. /\ \A p \in table, t \in S : Uuid(t) \in Refs(p) => p \in A
      /\ \A p \in table, t \in A : Uuid(t) \in Refs(p) => p \in B
      /\ \A p \in table, t \in B : Uuid(t) \in Refs(p) => p \in C
  BY DEF Uuids
<1>5. /\ \A p \in A : p \in S \/ \E t \in S : Uuid(t) \in Refs(p)
      /\ \A p \in B : p \in A \/ \E t \in A : Uuid(t) \in Refs(p)
      /\ \A p \in C : p \in B \/ \E t \in B : Uuid(t) \in Refs(p)
  BY DEF Uuids
<1> HIDE DEF A, B, C
<1>6. \A p, t \in table : Uuid(t) \in Refs(p) =>
         \/ p.kind \in {"sector", "cpe", "link"} /\ t.kind = "ap"
         \/ p.kind \in {"cpe", "link"} /\ t.kind = "sector"
         \/ p.kind = "link" /\ t.kind = "cpe"
  BY KeysGoUp
<1>7. q \in C /\ q \notin B
  BY <1>3, <1>4
<1>8. PICK t \in B : Uuid(t) \in Refs(q)
  BY <1>5, <1>7
<1>9. t \notin A
  BY <1>2, <1>4, <1>7, <1>8
<1>10. PICK v \in A : Uuid(v) \in Refs(t)
  BY <1>5, <1>9, <1>8
<1>11. v \notin S
  BY <1>2, <1>4, <1>8, <1>9, <1>10
<1>12. PICK w \in S : Uuid(w) \in Refs(v)
  BY <1>5, <1>10, <1>11
<1>13. /\ r \in table /\ q \in table /\ t \in table /\ v \in table /\ w \in table
  BY <1>2, <1>3, <1>8, <1>10, <1>12
<1>14. QED
  BY <1>3, <1>6, <1>8, <1>10, <1>12, <1>13

\* A row stays proper when sessions are made after it.
LEMMA StaysProper ==
    ASSUME created \in Nat, created' \in Nat, created <= created',
           ImportJobs' \cap (1 .. created) \subseteq ImportJobs,
           NEW r, Proper(r)
    PROVE  Proper(r)'
  BY DEF Proper, WellKeyed, Refs

\* The copy of a row is a row of the new session, of the same name and kind.
LEMMA CopyIsProper ==
    ASSUME created \in Nat, NEW r \in SessionRow, Proper(r), NEW s \in 1 .. created, s \notin ImportJobs
    PROVE  /\ CopyOf(r, s) \in SessionRow /\ Proper(CopyOf(r, s)) /\ LinkIsInside(CopyOf(r, s))
           /\ CopyOf(r, s).session = s /\ CopyOf(r, s).name = r.name
           /\ CopyOf(r, s).kind = r.kind
<1> DEFINE c == CopyOf(r, s)
           M(u) == IF u = NoKey THEN NoKey ELSE <<s, u[2]>>
<1>1. CASE r.kind = "link"
  <2> DEFINE x == IF r.ap = NoKey THEN M(r.sector) ELSE NoKey
  <2>1. c = [session |-> s, name |-> r.name, kind |-> "link", ap |-> M(r.ap), sector |-> x,
             cpe |-> M(r.cpe)]
    BY <1>1 DEF CopyOf, RowOf
  <2>2. \A u \in Key : /\ M(u) \in Key
                       /\ M(u) # NoKey => u # NoKey /\ M(u)[1] = s /\ M(u)[2] = u[2]
    BY DEF Key, NoKey
  <2>3. r.ap \in Key /\ r.sector \in Key /\ r.cpe \in Key /\ r.name \in Name
    BY DEF SessionRow
  <2> HIDE DEF M
  <2>4. /\ x \in Key
        /\ x # NoKey => r.sector # NoKey /\ x[1] = s /\ x[2] = r.sector[2]
    BY <2>2, <2>3 DEF Key
  <2> HIDE DEF x
  <2>5. c \in SessionRow
    BY <2>1, <2>2, <2>3, <2>4 DEF SessionRow, RowKinds
  <2>6. \A u \in Refs(c) : u[1] = s
    BY <2>1, <2>2, <2>3, <2>4 DEF Refs
  <2>7. WellKeyed(c)
    BY <1>1, <2>1, <2>2, <2>3, <2>4 DEF WellKeyed, Proper
  <2>8. c.session = s /\ c.name = r.name /\ c.kind = "link"
    BY <2>1
  <2> HIDE DEF c
  <2>9. Proper(c) /\ LinkIsInside(c)
    BY <2>6, <2>7, <2>8 DEF Proper, LinkIsInside
  <2>10. QED
    BY <1>1, <2>5, <2>8, <2>9 DEF c
<1>2. CASE r.kind # "link"
  <2>1. c = [session |-> s, name |-> r.name, kind |-> r.kind, ap |-> r.ap, sector |-> r.sector,
             cpe |-> r.cpe]
    BY <1>2 DEF CopyOf, RowOf
  <2>2. c \in SessionRow /\ Refs(c) = Refs(r) /\ c.session = s /\ c.name = r.name /\ c.kind = r.kind
    BY <2>1 DEF SessionRow, Refs
  <2>3. WellKeyed(c)
    BY <2>1 DEF WellKeyed, Proper
  <2> HIDE DEF c
  <2>4. Proper(c) /\ LinkIsInside(c)
    BY <1>2, <2>2, <2>3 DEF Proper, LinkIsInside
  <2>5. QED
    BY <2>2, <2>4 DEF c
<1>3. QED
  BY <1>1, <1>2

------------------------------------------------------------------------------
(* The parts of the invariant that a step disturbs *)

\* The jobs when one of them is given other values, which are its own.
LEMMA OneJob ==
    ASSUME LinksInv, NEW s \in DOMAIN jobs, NEW j \in SessionJob, jobs' = [jobs EXCEPT ![s] = j],
           j.op = jobs[s].op, j.from = jobs[s].from, j.at \in 0 .. 5 \/ j.op = "import",
           \A r \in j.todo : Proper(r), \A u \in j.copied : u[1] = s,
           created' = created
    PROVE  /\ DOMAIN jobs' = DOMAIN jobs /\ jobs' \in [DOMAIN jobs' -> SessionJob]
           /\ jobs'[s] = j /\ \A x \in DOMAIN jobs : x # s => jobs'[x] = jobs[x]
           /\ CopyJobs' = CopyJobs /\ ImportJobs' = ImportJobs
           /\ Scope' /\ OwnCopies'
           /\ \A r : Proper(r) => Proper(r)'
           /\ \A x \in DOMAIN jobs' : \A r \in jobs'[x].todo : Proper(r)'
<1>1. /\ DOMAIN jobs' = DOMAIN jobs /\ jobs' \in [DOMAIN jobs' -> SessionJob]
      /\ jobs'[s] = j /\ \A x \in DOMAIN jobs : x # s => jobs'[x] = jobs[x]
  BY DEF LinksInv, SessionsTypeOK
<1>2. CopyJobs' = CopyJobs /\ ImportJobs' = ImportJobs
  BY <1>1 DEF CopyJobs, ImportJobs
<1>3. \A r : Proper(r) => Proper(r)'
  <2>1. created \in Nat /\ created' \in Nat /\ created <= created'
    BY DEF LinksInv, SessionsTypeOK
  <2>2. QED
    BY <1>2, <2>1, StaysProper
<1>4. Scope'
  BY <1>1, <1>2 DEF Scope, LinksInv, CopyJobs
<1>5. OwnCopies'
  BY <1>1 DEF OwnCopies, LinksInv
<1>6. \A x \in DOMAIN jobs' : \A r \in jobs'[x].todo : Proper(r)
  BY <1>1 DEF AllProper, LinksInv
<1>7. QED
  BY <1>1, <1>2, <1>3, <1>4, <1>5, <1>6

\* The jobs when one is begun, for a session that is new.
LEMMA NewJob ==
    ASSUME LinksInv, NEW t, NEW j \in SessionJob, Start(t, j), j.todo = {}, j.copied = {}, j.at = 0,
           j.op = "copy" => j.from \in DOMAIN sessions, j.op = "import" => j.from \in Files
    PROVE  /\ created' = created + 1 /\ created' \in Nat \ {0}
           /\ DOMAIN sessions' = DOMAIN sessions \cup {created'}
           /\ DOMAIN sessions' \subseteq 1 .. created'
           /\ DOMAIN jobs' = DOMAIN jobs \cup {created'} /\ DOMAIN jobs' \subseteq 2 .. created'
           /\ jobs' \in [DOMAIN jobs' -> SessionJob]
           /\ jobs'[created'] = j /\ \A x \in DOMAIN jobs : x # created' /\ jobs'[x] = jobs[x]
           /\ CopyJobs' \subseteq CopyJobs \cup {created'}
           /\ Scope' /\ OwnCopies'
           /\ \A r : Proper(r) => Proper(r)'
           /\ \A x \in DOMAIN jobs' : \A r \in jobs'[x].todo : Proper(r)'
<1>1. /\ created' = created + 1 /\ created' \in Nat \ {0} /\ created \in Nat \ {0}
      /\ DOMAIN sessions' = DOMAIN sessions \cup {created'}
      /\ DOMAIN jobs' = DOMAIN jobs \cup {created'}
      /\ jobs' = [s \in DOMAIN jobs' |-> IF s = created' THEN j ELSE jobs[s]]
  BY DEF LinksInv, SessionsTypeOK, Start
<1>2. /\ DOMAIN sessions \subseteq 1 .. created /\ DOMAIN jobs \subseteq 2 .. created
      /\ jobs \in [DOMAIN jobs -> SessionJob]
  BY DEF LinksInv, SessionsTypeOK
<1>3. /\ jobs'[created'] = j /\ \A x \in DOMAIN jobs : x # created' /\ jobs'[x] = jobs[x]
  BY <1>1, <1>2
<1>4. DOMAIN sessions' \subseteq 1 .. created' /\ DOMAIN jobs' \subseteq 2 .. created'
  BY <1>1, <1>2
<1>5. jobs' \in [DOMAIN jobs' -> SessionJob]
  BY <1>1, <1>2
<1>6. CopyJobs' \subseteq CopyJobs \cup {created'} /\ ImportJobs' \subseteq ImportJobs \cup {created'}
  BY <1>1, <1>3 DEF CopyJobs, ImportJobs
<1>7. \A r : Proper(r) => Proper(r)'
  <2>1. created \in Nat /\ created' \in Nat /\ created <= created'
        /\ ImportJobs' \cap (1 .. created) \subseteq ImportJobs
    BY <1>1, <1>6
  <2>2. QED
    BY <2>1, StaysProper
<1>8. Scope'
  <2>1. \A s \in CopyJobs' : jobs'[s].from \in 1 .. (s - 1) /\ jobs'[s].at \in 0 .. 5
    <3> SUFFICES ASSUME NEW s \in CopyJobs' 
                 PROVE  jobs'[s].from \in 1 .. (s - 1) /\ jobs'[s].at \in 0 .. 5
      OBVIOUS
    <3>1. CASE s = created'
      BY <1>1, <1>2, <1>3, <3>1 DEF CopyJobs
    <3>2. CASE s # created'
      BY <1>3, <1>6, <3>2 DEF CopyJobs, Scope, LinksInv
    <3>3. QED
      BY <3>1, <3>2
  <2>2. \A s \in ImportJobs' : jobs'[s].from \in Files
    BY <1>1, <1>3, <1>6 DEF ImportJobs, Scope, LinksInv
  <2>3. QED
    BY <2>1, <2>2 DEF Scope
<1>9. OwnCopies'
  BY <1>1, <1>3 DEF OwnCopies, LinksInv
<1>10. \A x \in DOMAIN jobs' : \A r \in jobs'[x].todo : Proper(r)
  BY <1>1, <1>3 DEF AllProper, LinksInv
<1>11. QED
  BY <1>1, <1>3, <1>4, <1>5, <1>6, <1>7, <1>8, <1>9, <1>10

\* Rows that come with the rows their keys name.
LEMMA RowsCome ==
    ASSUME LinksInv, NEW S \in SUBSET SessionRow, table' = table \cup S,
           DOMAIN sessions \subseteq DOMAIN sessions', \A r : Proper(r) => Proper(r)',
           \A r \in S : /\ Proper(r) /\ LinkIsInside(r)
                        /\ r.session \in DOMAIN sessions /\ Refs(r) \subseteq Uuids(table \cup S)
    PROVE  /\ table' \subseteq SessionRow /\ Referential' /\ Inside' /\ \A r \in table' : Proper(r)'
<1>1. table \subseteq SessionRow /\ \A r \in table : Proper(r) /\ LinkIsInside(r)
  BY DEF LinksInv, SessionsTypeOK, AllProper, Inside
<1>2. Referential'
  BY DEF Referential, LinksInv, Uuids, Refs
<1>3. Inside'
  BY <1>1 DEF Inside, LinkIsInside, Refs
<1>4. QED
  BY <1>1, <1>2, <1>3

\* Rows that go with the rows that refer to them, and their sessions.
LEMMA RowsGo ==
    ASSUME LinksInv, NEW S \in SUBSET table, table' = table \ Cascaded(S),
           \A r \in table : r.session \in DOMAIN sessions' \/ r \in S,
           \A r : Proper(r) => Proper(r)'
    PROVE  /\ table' \subseteq SessionRow /\ Referential' /\ Inside' /\ \A r \in table' : Proper(r)'
<1>1. table \subseteq SessionRow /\ \A r \in table : Proper(r) /\ LinkIsInside(r) /\ WellKeyed(r)
  BY DEF LinksInv, SessionsTypeOK, AllProper, Inside, Proper
<1>2. /\ S \subseteq Cascaded(S)
      /\ \A r \in table \ Cascaded(S) : Refs(r) \cap Uuids(Cascaded(S)) = {}
  BY <1>1, CascadeIsClosed
<1>3. Referential'
  <2> SUFFICES ASSUME NEW r \in table, r \notin Cascaded(S)
               PROVE  r.session \in DOMAIN sessions' /\ Refs(r) \subseteq Uuids(table \ Cascaded(S))
    BY DEF Referential, Uuids, Refs
  <2>1. r.session \in DOMAIN sessions'
    BY <1>2
  <2>2. Refs(r) \subseteq Uuids(table)
    BY DEF Referential, LinksInv
  <2>3. QED
    BY <1>2, <2>1, <2>2 DEF Uuids
<1>4. Inside'
  BY <1>1 DEF Inside, LinkIsInside, Refs
<1>5. QED
  BY <1>1, <1>3, <1>4

------------------------------------------------------------------------------
(* Each action keeps the invariant of the keys *)

\* Saving a session under another name begins a job, and copies nothing yet.
LEMMA SaveAsKeeps ==
    ASSUME LinksInv, NEW s \in DOMAIN sessions, NEW t, SaveAs(s, t)
    PROVE  LinksInv'
<1> DEFINE j == [op |-> "copy", from |-> s, at |-> 0, todo |-> {}, copied |-> {},
                 status |-> "running"]
<1>1. Start(t, j) /\ UNCHANGED <<table, changes>>
  BY DEF SaveAs
<1>2. j \in SessionJob
  BY DEF SessionJob, Statuses, LinksInv, SessionsTypeOK
<1>3. /\ j.todo = {} /\ j.copied = {} /\ j.at = 0 /\ j.op = "copy" /\ j.from = s
  OBVIOUS
<1> HIDE DEF j
<1>4. /\ DOMAIN sessions \subseteq DOMAIN sessions' /\ DOMAIN sessions' \subseteq 1 .. created'
      /\ DOMAIN jobs' \subseteq 2 .. created' /\ jobs' \in [DOMAIN jobs' -> SessionJob]
      /\ created' \in Nat \ {0} /\ Scope' /\ OwnCopies' /\ (\A r : Proper(r) => Proper(r)')
      /\ \A x \in DOMAIN jobs' : \A r \in jobs'[x].todo : Proper(r)'
  BY <1>1, <1>2, <1>3, NewJob
<1>5. /\ table' = table /\ table \subseteq SessionRow /\ changes' \in Nat
      /\ \A r \in table : Proper(r)
  BY <1>1 DEF LinksInv, SessionsTypeOK, AllProper
<1>6. Referential' /\ Inside'
  BY <1>4, <1>5 DEF LinksInv, Referential, Inside, LinkIsInside, Refs, Uuids
<1>7. SessionsTypeOK' /\ AllProper'
  BY <1>4, <1>5 DEF SessionsTypeOK, AllProper
<1>8. QED
  BY <1>4, <1>6, <1>7 DEF LinksInv

\* Importing a file begins a job, and creates no row yet.
LEMMA ImportKeeps ==
    ASSUME LinksInv, NEW f \in Files, NEW t, Import(f, t)
    PROVE  LinksInv'
<1> DEFINE j == [op |-> "import", from |-> f, at |-> 0, todo |-> {}, copied |-> {},
                 status |-> "running"]
<1>1. Start(t, j) /\ UNCHANGED <<table, changes>>
  BY DEF Import
<1>2. j \in SessionJob
  BY DEF SessionJob, Statuses
<1>3. /\ j.todo = {} /\ j.copied = {} /\ j.at = 0 /\ j.op = "import" /\ j.from = f
  OBVIOUS
<1> HIDE DEF j
<1>4. /\ DOMAIN sessions \subseteq DOMAIN sessions' /\ DOMAIN sessions' \subseteq 1 .. created'
      /\ DOMAIN jobs' \subseteq 2 .. created' /\ jobs' \in [DOMAIN jobs' -> SessionJob]
      /\ created' \in Nat \ {0} /\ Scope' /\ OwnCopies' /\ (\A r : Proper(r) => Proper(r)')
      /\ \A x \in DOMAIN jobs' : \A r \in jobs'[x].todo : Proper(r)'
  BY <1>1, <1>2, <1>3, NewJob
<1>5. /\ table' = table /\ table \subseteq SessionRow /\ changes' \in Nat
      /\ \A r \in table : Proper(r)
  BY <1>1 DEF LinksInv, SessionsTypeOK, AllProper
<1>6. Referential' /\ Inside'
  BY <1>4, <1>5 DEF LinksInv, Referential, Inside, LinkIsInside, Refs, Uuids
<1>7. SessionsTypeOK' /\ AllProper'
  BY <1>4, <1>5 DEF SessionsTypeOK, AllProper
<1>8. QED
  BY <1>4, <1>6, <1>7 DEF LinksInv

\* A step that changes one job, and nothing of the sessions and the rows.
LEMMA JobStepKeeps ==
    ASSUME LinksInv, NEW s \in DOMAIN jobs, NEW j \in SessionJob, jobs' = [jobs EXCEPT ![s] = j],
           j.op = jobs[s].op, j.from = jobs[s].from, j.at \in 0 .. 5 \/ j.op = "import",
           \A r \in j.todo : Proper(r), \A u \in j.copied : u[1] = s,
           UNCHANGED <<sessions, table, created, changes>>
    PROVE  LinksInv'
<1>1. /\ DOMAIN jobs' = DOMAIN jobs /\ jobs' \in [DOMAIN jobs' -> SessionJob]
      /\ Scope' /\ OwnCopies' /\ (\A r : Proper(r) => Proper(r)')
      /\ \A x \in DOMAIN jobs' : \A r \in jobs'[x].todo : Proper(r)'
  BY OneJob
<1>2. Referential' /\ Inside'
  BY DEF LinksInv, Referential, Inside, LinkIsInside, Refs, Uuids
<1>3. SessionsTypeOK' /\ AllProper'
  BY <1>1 DEF SessionsTypeOK, AllProper, LinksInv
<1>4. QED
  BY <1>1, <1>2, <1>3 DEF LinksInv

\* A job ends, however it does, and its values stay.
LEMMA Ended ==
    ASSUME LinksInv, NEW s \in DOMAIN jobs, NEW how \in Statuses, End(s, how)
    PROVE  LET j == [jobs[s] EXCEPT !.status = how]
           IN  /\ j \in SessionJob /\ jobs' = [jobs EXCEPT ![s] = j]
               /\ j.op = jobs[s].op /\ j.from = jobs[s].from /\ j.at = jobs[s].at
               /\ j.todo = jobs[s].todo /\ j.copied = jobs[s].copied /\ j.status = how
               /\ j.at \in 0 .. 5 \/ j.op = "import"
               /\ \A r \in j.todo : Proper(r)
               /\ \A u \in j.copied : u[1] = s
<1> DEFINE j == [jobs[s] EXCEPT !.status = how]
<1>1. jobs[s] \in SessionJob
  BY DEF LinksInv, SessionsTypeOK
<1>2. /\ j \in SessionJob /\ j.op = jobs[s].op /\ j.from = jobs[s].from /\ j.at = jobs[s].at
      /\ j.todo = jobs[s].todo /\ j.copied = jobs[s].copied /\ j.status = how
  BY <1>1 DEF SessionJob
<1>3. jobs' = [jobs EXCEPT ![s] = j]
  BY DEF End
<1>4. jobs[s].at \in 0 .. 5 \/ jobs[s].op = "import"
  BY <1>1 DEF LinksInv, Scope, CopyJobs, SessionJob
<1>5. (\A r \in jobs[s].todo : Proper(r)) /\ \A u \in jobs[s].copied : u[1] = s
  BY DEF LinksInv, AllProper, OwnCopies
<1> HIDE DEF j
<1>6. /\ j.at \in 0 .. 5 \/ j.op = "import"
      /\ \A r \in j.todo : Proper(r)
      /\ \A u \in j.copied : u[1] = s
  BY <1>2, <1>4, <1>5
<1>7. QED
  BY <1>2, <1>3, <1>6 DEF j

\* The end of a job by itself.
LEMMA EndKeeps ==
    ASSUME LinksInv, NEW s \in DOMAIN jobs, NEW how \in Statuses, End(s, how),
           UNCHANGED <<sessions, table, created, changes>>
    PROVE  LinksInv'
<1> DEFINE j == [jobs[s] EXCEPT !.status = how]
<1>1. /\ j \in SessionJob /\ jobs' = [jobs EXCEPT ![s] = j]
      /\ j.op = jobs[s].op /\ j.from = jobs[s].from
      /\ j.at \in 0 .. 5 \/ j.op = "import"
      /\ \A r \in j.todo : Proper(r)
      /\ \A u \in j.copied : u[1] = s
  BY Ended
<1> HIDE DEF j
<1>2. QED
  BY <1>1, JobStepKeeps

\* The rows of the next kind are read, all of them rows of the table.
LEMMA NextKindKeeps ==
    ASSUME LinksInv, NEW s \in DOMAIN jobs, NextKind(s)
    PROVE  LinksInv'
<1>1. CASE jobs[s].at = Len(CopiedKinds)
  BY <1>1, EndKeeps DEF NextKind, Statuses
<1>2. CASE jobs[s].at # Len(CopiedKinds)
  <2> DEFINE S == Of(jobs[s].from, CopiedKinds[jobs[s].at + 1])
             j == [jobs[s] EXCEPT !.at = @ + 1, !.todo = S]
  <2>1. jobs[s] \in SessionJob /\ jobs[s].op = "copy" /\ Len(CopiedKinds) = 5
    BY DEF LinksInv, SessionsTypeOK, NextKind, Running, CopiedKinds
  <2>2. jobs[s].at \in 0 .. 4
    BY <1>2, <2>1 DEF LinksInv, Scope, CopyJobs, SessionJob
  <2>3. S \in SUBSET SessionRow /\ \A r \in S : Proper(r)
    BY DEF LinksInv, SessionsTypeOK, AllProper, Of
  <2> HIDE DEF S
  <2>4. /\ j \in SessionJob /\ j.op = jobs[s].op /\ j.from = jobs[s].from /\ j.at = jobs[s].at + 1
        /\ j.todo = S /\ j.copied = jobs[s].copied
    <3>1. jobs[s].at + 1 \in Nat
      BY <2>2
    <3>2. QED
      BY <2>1, <2>3, <3>1 DEF SessionJob
  <2>5. /\ jobs' = [jobs EXCEPT ![s] = j] /\ UNCHANGED <<sessions, table, created, changes>>
    BY <1>2 DEF NextKind, S
  <2> HIDE DEF j
  <2>6. \A u \in j.copied : u[1] = s
    BY <2>4 DEF LinksInv, OwnCopies
  <2>7. j.at \in 0 .. 5 /\ \A r \in j.todo : Proper(r)
    BY <2>2, <2>3, <2>4
  <2>8. QED
    BY <2>4, <2>5, <2>6, <2>7, JobStepKeeps
<1>3. QED
  BY <1>1, <1>2

\* The copy of one row comes to the table with the rows its keys name.
LEMMA CopyRowKeeps ==
    ASSUME LinksInv, NEW s \in DOMAIN jobs, CopyRow(s)
    PROVE  LinksInv'
<1>1. PICK r \in jobs[s].todo :
         \/ /\ Saves(CopyOf(r, s))
            /\ table' = table \cup {CopyOf(r, s)}
            /\ jobs' = [jobs EXCEPT ![s].todo = @ \ {r},
                                    ![s].copied = @ \cup {Uuid(CopyOf(r, s))}]
         \/ End(s, "failed") /\ UNCHANGED table
  BY DEF CopyRow
<1>2. UNCHANGED <<sessions, created, changes>>
  BY DEF CopyRow
<1>3. CASE End(s, "failed") /\ UNCHANGED table
  BY <1>2, <1>3, EndKeeps DEF Statuses
<1>4. CASE /\ Saves(CopyOf(r, s))
           /\ table' = table \cup {CopyOf(r, s)}
           /\ jobs' = [jobs EXCEPT ![s].todo = @ \ {r},
                                   ![s].copied = @ \cup {Uuid(CopyOf(r, s))}]
  <2> DEFINE c == CopyOf(r, s)
             j == [jobs[s] EXCEPT !.todo = @ \ {r}, !.copied = @ \cup {Uuid(c)}]
  <2>1. /\ jobs[s] \in SessionJob /\ s \in 1 .. created /\ created \in Nat
        /\ jobs[s].op = "copy" /\ s \notin ImportJobs
    BY DEF LinksInv, SessionsTypeOK, CopyRow, Running, ImportJobs
  <2>2. r \in SessionRow /\ Proper(r)
    BY <2>1 DEF SessionJob, LinksInv, AllProper
  <2>3. c \in SessionRow /\ Proper(c) /\ LinkIsInside(c) /\ c.session = s
    BY <2>1, <2>2, CopyIsProper
  <2>4. c.session \in DOMAIN sessions /\ Refs(c) \subseteq Uuids(table)
    BY <1>4 DEF Saves
  <2> HIDE DEF c
  <2>5. Uuid(c) \in Key /\ Uuid(c)[1] = s
    BY <2>1, <2>3 DEF Uuid, Key, SessionRow
  <2>6. /\ j \in SessionJob /\ j.op = jobs[s].op /\ j.from = jobs[s].from /\ j.at = jobs[s].at
        /\ j.todo = jobs[s].todo \ {r} /\ j.copied = jobs[s].copied \cup {Uuid(c)}
    BY <2>1, <2>5 DEF SessionJob
  <2>7. jobs' = [jobs EXCEPT ![s] = j] /\ table' = table \cup {c}
    BY <1>4 DEF c
  <2> HIDE DEF j
  <2>8. /\ j.at \in 0 .. 5 /\ (\A q \in j.todo : Proper(q)) /\ \A u \in j.copied : u[1] = s
    BY <2>1, <2>5, <2>6 DEF LinksInv, Scope, CopyJobs, AllProper, OwnCopies
  <2>9. /\ DOMAIN jobs' = DOMAIN jobs /\ jobs' \in [DOMAIN jobs' -> SessionJob]
        /\ Scope' /\ OwnCopies' /\ (\A q : Proper(q) => Proper(q)')
        /\ \A x \in DOMAIN jobs' : \A q \in jobs'[x].todo : Proper(q)'
    BY <1>2, <2>6, <2>7, <2>8, OneJob
  <2>10. Refs(c) \subseteq Uuids(table \cup {c})
    BY <2>4 DEF Uuids
  <2>11. /\ table' \subseteq SessionRow /\ Referential' /\ Inside' /\ \A q \in table' : Proper(q)'
    BY <1>2, <2>3, <2>4, <2>7, <2>9, <2>10, RowsCome
  <2>12. SessionsTypeOK' /\ AllProper'
    BY <1>2, <2>9, <2>11 DEF SessionsTypeOK, AllProper, LinksInv
  <2>13. QED
    BY <2>9, <2>11, <2>12 DEF LinksInv
<1>5. QED
  BY <1>1, <1>3, <1>4

\* The rows a file's feature becomes: proper, of the new session, and with their keys.
LEMMA ImportedRows ==
    ASSUME LinksInv, NEW s \in DOMAIN jobs, Running(s, "import"), s \in DOMAIN sessions,
           NEW i \in Nat, NEW k \in {"ap", "cpe", "ptp", "area"},
           NEW S \in Imported(s, k, <<k, i>>), \A r \in S : Refs(r) \subseteq Uuids(table \cup S)
    PROVE  /\ S \in SUBSET SessionRow
           /\ \A r \in S : Proper(r) /\ LinkIsInside(r) /\ r.session = s
           /\ Uuids(S) \subseteq Key /\ \A u \in Uuids(S) : u[1] = s
<1>1. /\ jobs[s] \in SessionJob /\ jobs[s].op = "import" /\ s \in ImportJobs
      /\ s \in 1 .. created /\ created \in Nat
  BY DEF LinksInv, SessionsTypeOK, Running, ImportJobs
<1>2. /\ <<k, i>> \in Name /\ <<"link", i>> \in Name /\ s \in Nat
      /\ <<s, <<k, i>>>> \in Key
  BY <1>1 DEF Name, RowKinds, Key
<1>3. \A r \in S : /\ r \in SessionRow /\ WellKeyed(r) /\ r.session = s /\ r.kind # "sector"
                   /\ r.kind # "link" => Refs(r) = {}
                   /\ \A u \in Refs(r) : u[1] = s
  <2>1. CASE k # "cpe"
    <3>1. S = {RowOf(s, <<k, i>>, k, NoKey, NoKey, NoKey)}
      BY <2>1 DEF Imported
    <3>2. QED
      BY <1>2, <2>1, <3>1 DEF RowOf, SessionRow, Key, RowKinds, WellKeyed, Refs
  <2>2. CASE k = "cpe"
    <3> DEFINE c == RowOf(s, <<"cpe", i>>, "cpe", NoKey, NoKey, NoKey)
               l(t) == RowOf(s, <<"link", i>>, "link", t, NoKey, <<s, <<"cpe", i>>>>)
    <3>1. PICK t : S = {c, l(t)} /\ (t = NoKey \/ (t \in jobs[s].copied /\ t[2][1] = "ap"))
      BY <2>2 DEF Imported
    <3>2. t \in Key /\ (t # NoKey => t[1] = s)
      BY <1>1, <3>1 DEF SessionJob, Key, LinksInv, OwnCopies
    <3>3. /\ c \in SessionRow /\ WellKeyed(c) /\ c.session = s /\ c.kind = "cpe" /\ Refs(c) = {}
      BY <1>2, <2>2 DEF RowOf, SessionRow, Key, RowKinds, WellKeyed, Refs
    <3>4. /\ l(t) \in SessionRow /\ WellKeyed(l(t)) /\ l(t).session = s /\ l(t).kind = "link"
          /\ \A u \in Refs(l(t)) : u[1] = s
      <4> DEFINE d == <<s, <<"cpe", i>>>>
      <4>1. d \in Key /\ d[1] = s /\ d[2][1] = "cpe"
        BY <1>2, <2>2
      <4> HIDE DEF d
      <4>2. /\ l(t) \in SessionRow /\ l(t).session = s /\ l(t).kind = "link" /\ l(t).ap = t
            /\ l(t).sector = NoKey /\ l(t).cpe = d /\ l(t).name = <<"link", i>>
        BY <1>2, <3>2, <4>1 DEF RowOf, SessionRow, RowKinds, Key, d
      <4> HIDE DEF l
      <4>3. WellKeyed(l(t)) /\ \A u \in Refs(l(t)) : u[1] = s
        BY <3>1, <3>2, <4>1, <4>2 DEF WellKeyed, Refs
      <4>4. QED
        BY <4>2, <4>3
    <3> HIDE DEF c, l
    <3>5. QED
      BY <3>1, <3>3, <3>4
  <2>3. QED
    BY <2>1, <2>2
<1>4. \A r \in S : Proper(r)
  BY <1>1, <1>3 DEF Proper
<1>5. \A r \in S : LinkIsInside(r)
  BY <1>3 DEF LinkIsInside
<1>6. Uuids(S) \subseteq Key /\ \A u \in Uuids(S) : u[1] = s
  BY <1>1, <1>3 DEF Uuids, Uuid, Key, SessionRow
<1>7. QED
  BY <1>3, <1>4, <1>5, <1>6

\* A feature's rows come together, or the import is discarded with what it made.
LEMMA ImportFeatureKeeps ==
    ASSUME LinksInv, NEW s \in DOMAIN jobs, ImportFeature(s)
    PROVE  LinksInv'
<1> DEFINE file == jobs[s].from
           i == jobs[s].at + 1
<1>1. /\ Running(s, "import") /\ UNCHANGED <<created, changes>>
      /\ jobs[s] \in SessionJob /\ jobs[s].op = "import" /\ s \in DOMAIN jobs
      /\ created \in Nat /\ s \in 1 .. created
  <2>1. Running(s, "import") /\ UNCHANGED <<created, changes>>
    BY DEF ImportFeature
  <2>2. QED
    BY <2>1 DEF LinksInv, SessionsTypeOK, Running
<1>2. file \in Seq({"ap", "cpe", "ptp", "area", "bad"}) /\ i \in Nat \ {0}
  BY <1>1, FilesAssumption DEF LinksInv, Scope, ImportJobs, SessionJob
<1>3. CASE i > Len(file)
  <2>1. End(s, "done") /\ UNCHANGED <<sessions, table>>
    BY <1>3 DEF ImportFeature
  <2>2. QED
    BY <1>1, <2>1, EndKeeps DEF Statuses
<1>4. CASE ~ (i > Len(file))
  <2>1. PICK S \in Imported(s, file[i], <<file[i], i>>) :
          \/ /\ file[i] # "bad" /\ s \in DOMAIN sessions
             /\ \A r \in S : Refs(r) \subseteq Uuids(table \cup S)
             /\ table' = table \cup S
             /\ jobs' = [jobs EXCEPT ![s].at = i, ![s].copied = @ \cup Uuids(S)]
             /\ UNCHANGED sessions
          \/ Discard(s) /\ End(s, "failed")
    BY <1>4 DEF ImportFeature
  <2>2. CASE Discard(s) /\ End(s, "failed")
    <3> DEFINE j == [jobs[s] EXCEPT !.status = "failed"]
               D == {r \in table : r.session = s}
    <3>1. /\ j \in SessionJob /\ jobs' = [jobs EXCEPT ![s] = j]
          /\ j.op = jobs[s].op /\ j.from = jobs[s].from
          /\ j.at \in 0 .. 5 \/ j.op = "import"
          /\ \A r \in j.todo : Proper(r)
          /\ \A u \in j.copied : u[1] = s
      BY <2>2, Ended DEF Statuses
    <3> HIDE DEF j
    <3>2. /\ DOMAIN jobs' = DOMAIN jobs /\ jobs' \in [DOMAIN jobs' -> SessionJob]
          /\ Scope' /\ OwnCopies' /\ (\A q : Proper(q) => Proper(q)')
          /\ \A x \in DOMAIN jobs' : \A q \in jobs'[x].todo : Proper(q)'
      BY <1>1, <3>1, OneJob
    <3>3. table' = table \ Cascaded(D) /\ DOMAIN sessions' = DOMAIN sessions \ {s}
      BY <2>2 DEF Discard
    <3>4. \A r \in table : r.session \in DOMAIN sessions' \/ r \in D
      BY <3>3 DEF LinksInv, Referential
    <3>5. D \in SUBSET table
      OBVIOUS
    <3> HIDE DEF D
    <3>6. /\ table' \subseteq SessionRow /\ Referential' /\ Inside' /\ \A q \in table' : Proper(q)'
      BY <3>2, <3>3, <3>4, <3>5, RowsGo
    <3>7. SessionsTypeOK' /\ AllProper'
      BY <1>1, <3>2, <3>3, <3>6 DEF SessionsTypeOK, AllProper, LinksInv
    <3>8. QED
      BY <3>2, <3>6, <3>7 DEF LinksInv
  <2>3. CASE /\ file[i] # "bad" /\ s \in DOMAIN sessions
             /\ \A r \in S : Refs(r) \subseteq Uuids(table \cup S)
             /\ table' = table \cup S
             /\ jobs' = [jobs EXCEPT ![s].at = i, ![s].copied = @ \cup Uuids(S)]
             /\ UNCHANGED sessions
    <3> DEFINE k == file[i]
               U == Uuids(S)
               j == [jobs[s] EXCEPT !.at = i, !.copied = @ \cup U]
    <3>1. k \in {"ap", "cpe", "ptp", "area"}
      BY <1>2, <1>4, <2>3
    <3>2. S \in Imported(s, k, <<k, i>>)
      OBVIOUS
    <3> HIDE DEF i, k
    <3>3. /\ S \in SUBSET SessionRow
          /\ \A r \in S : Proper(r) /\ LinkIsInside(r) /\ r.session = s
          /\ U \subseteq Key /\ \A u \in U : u[1] = s
      <4>1. i \in Nat /\ Running(s, "import") /\ s \in DOMAIN sessions
        BY <1>1, <1>2, <2>3
      <4>2. \A r \in S : Refs(r) \subseteq Uuids(table \cup S)
        BY <2>3
      <4>3. QED
        BY <3>1, <3>2, <4>1, <4>2, ImportedRows
    <3>4. jobs' = [jobs EXCEPT ![s] = j]
      BY <2>3
    <3> HIDE DEF U
    <3>5. /\ j \in SessionJob /\ j.op = jobs[s].op /\ j.from = jobs[s].from
          /\ j.todo = jobs[s].todo /\ j.copied = jobs[s].copied \cup U
      BY <1>1, <1>2, <3>3 DEF SessionJob
    <3> HIDE DEF j
    <3>6. /\ j.op = "import" /\ (\A q \in j.todo : Proper(q)) /\ \A u \in j.copied : u[1] = s
      BY <1>1, <3>3, <3>5 DEF LinksInv, AllProper, OwnCopies
    <3>7. /\ DOMAIN jobs' = DOMAIN jobs /\ jobs' \in [DOMAIN jobs' -> SessionJob]
          /\ Scope' /\ OwnCopies' /\ (\A q : Proper(q) => Proper(q)')
          /\ \A x \in DOMAIN jobs' : \A q \in jobs'[x].todo : Proper(q)'
      BY <1>1, <3>4, <3>5, <3>6, OneJob
    <3>8. /\ table' \subseteq SessionRow /\ Referential' /\ Inside' /\ \A q \in table' : Proper(q)'
      BY <2>3, <3>3, <3>7, RowsCome
    <3>9. SessionsTypeOK' /\ AllProper'
      BY <1>1, <2>3, <3>7, <3>8 DEF SessionsTypeOK, AllProper, LinksInv
    <3>10. QED
      BY <3>7, <3>8, <3>9 DEF LinksInv
  <2>4. QED
    BY <2>1, <2>2, <2>3
<1>5. QED
  BY <1>3, <1>4

\* A step that changes no job, and no session but one that it removes.
LEMMA QuietJobs ==
    ASSUME LinksInv, UNCHANGED <<jobs, created>>, changes' \in Nat,
           DOMAIN sessions' \subseteq DOMAIN sessions,
           table' \subseteq SessionRow, Referential', Inside', \A q \in table' : Proper(q)
    PROVE  LinksInv'
<1>1. CopyJobs' = CopyJobs /\ ImportJobs' = ImportJobs
  BY DEF CopyJobs, ImportJobs
<1>2. \A q : Proper(q) => Proper(q)'
  <2>1. created \in Nat /\ created' \in Nat /\ created <= created'
        /\ ImportJobs' \cap (1 .. created) \subseteq ImportJobs
    BY <1>1 DEF LinksInv, SessionsTypeOK
  <2>2. QED
    BY <2>1, StaysProper
<1>3. SessionsTypeOK' /\ Scope' /\ OwnCopies'
  BY <1>1 DEF LinksInv, SessionsTypeOK, Scope, OwnCopies
<1>4. AllProper'
  BY <1>2 DEF LinksInv, AllProper
<1>5. QED
  BY <1>3, <1>4 DEF LinksInv

\* A row goes with the rows that refer to it.
LEMMA RemoveRowKeeps ==
    ASSUME LinksInv, NEW r \in table, RemoveRow(r)
    PROVE  LinksInv'
<1>1. /\ table' = table \ Cascaded({r}) /\ UNCHANGED <<sessions, jobs, created>>
      /\ changes' \in Nat
  BY DEF RemoveRow, Change, LinksInv, SessionsTypeOK
<1>2. \A q : Proper(q) => Proper(q)'
  BY <1>1 DEF Proper, ImportJobs
<1>3. /\ table' \subseteq SessionRow /\ Referential' /\ Inside'
  BY <1>1, <1>2, RowsGo DEF LinksInv, Referential
<1>4. \A q \in table' : Proper(q)
  BY <1>1 DEF LinksInv, AllProper
<1>5. QED
  BY <1>1, <1>3, <1>4, QuietJobs

\* A customer and its link come with the sector they name.
LEMMA AddLinkedKeeps ==
    ASSUME LinksInv, NEW x \in table, x.kind = "sector", AddLinked(x)
    PROVE  LinksInv'
<1> DEFINE c == RowOf(x.session, <<"cpe", changes, "new">>, "cpe", NoKey, Uuid(x), NoKey)
           l == RowOf(x.session, <<"link", changes, "new">>, "link", NoKey, Uuid(x), Uuid(c))
<1>1. /\ table' = table \cup {c, l} /\ UNCHANGED <<sessions, jobs, created>>
      /\ changes \in Nat /\ changes' \in Nat
  BY DEF AddLinked, Change, LinksInv, SessionsTypeOK
<1>2. /\ x \in SessionRow /\ Proper(x) /\ x.session \in DOMAIN sessions /\ x.session \in Nat
      /\ x.name[1] = "sector" /\ x.name \in Name
  BY DEF LinksInv, SessionsTypeOK, AllProper, Referential, SessionRow, Proper, WellKeyed
<1>3. /\ Uuid(x) = <<x.session, x.name>> /\ Uuid(x) \in Key /\ Uuid(x) # NoKey
      /\ Uuid(x)[1] = x.session /\ Uuid(x)[2][1] = "sector"
  BY <1>2 DEF Uuid, Key, NoKey, LinksInv, SessionsTypeOK, Proper
<1>4. /\ c \in SessionRow /\ WellKeyed(c) /\ c.session = x.session /\ c.kind = "cpe"
      /\ Refs(c) = {Uuid(x)}
      /\ Uuid(c) = <<x.session, <<"cpe", changes, "new">>>>
  BY <1>1, <1>2, <1>3 DEF RowOf, SessionRow, Name, RowKinds, Key, WellKeyed, Refs, Uuid
<1>5. /\ Uuid(c) \in Key /\ Uuid(c)[1] = x.session /\ Uuid(c)[2][1] = "cpe"
  BY <1>1, <1>2, <1>4 DEF Key, Name, RowKinds
<1> HIDE DEF c
<1>6. /\ l \in SessionRow /\ WellKeyed(l) /\ l.session = x.session /\ l.kind = "link"
      /\ Refs(l) \subseteq {Uuid(x), Uuid(c)}
  BY <1>1, <1>2, <1>3, <1>5 DEF RowOf, SessionRow, Name, RowKinds, Key, WellKeyed, Refs
<1> HIDE DEF l
<1>7. x.session \notin ImportJobs /\ x.session \in 1 .. created
  BY <1>2 DEF Proper
<1>8. Proper(c) /\ Proper(l) /\ LinkIsInside(c) /\ LinkIsInside(l)
  BY <1>3, <1>4, <1>5, <1>6, <1>7 DEF Proper, LinkIsInside
<1>9. Refs(c) \subseteq Uuids(table \cup {c, l}) /\ Refs(l) \subseteq Uuids(table \cup {c, l})
  BY <1>4, <1>6 DEF Uuids
<1>10. \A q : Proper(q) => Proper(q)'
  BY <1>1 DEF Proper, ImportJobs
<1>11. {c, l} \in SUBSET SessionRow /\ \A r \in {c, l} :
          /\ Proper(r) /\ LinkIsInside(r)
          /\ r.session \in DOMAIN sessions /\ Refs(r) \subseteq Uuids(table \cup {c, l})
  BY <1>2, <1>4, <1>6, <1>8, <1>9
<1>12. /\ table' \subseteq SessionRow /\ Referential' /\ Inside'
  BY <1>1, <1>10, <1>11, RowsCome
<1>13. \A q \in table' : Proper(q)
  BY <1>1, <1>8 DEF LinksInv, AllProper
<1>14. QED
  BY <1>1, <1>12, <1>13, QuietJobs

\* A session goes with its rows and all that refer to them.
LEMMA DeleteSessionKeeps ==
    ASSUME LinksInv, NEW s \in DOMAIN sessions, DeleteSession(s)
    PROVE  LinksInv'
<1> DEFINE D == {r \in table : r.session = s}
<1>1. /\ table' = table \ Cascaded(D) /\ UNCHANGED <<jobs, created>>
      /\ DOMAIN sessions' = DOMAIN sessions \ {s} /\ changes' \in Nat
  BY DEF DeleteSession, Discard, Change, LinksInv, SessionsTypeOK
<1>2. \A q : Proper(q) => Proper(q)'
  BY <1>1 DEF Proper, ImportJobs
<1>3. D \in SUBSET table /\ \A r \in table : r.session \in DOMAIN sessions' \/ r \in D
  BY <1>1 DEF LinksInv, Referential
<1> HIDE DEF D
<1>4. /\ table' \subseteq SessionRow /\ Referential' /\ Inside'
  BY <1>1, <1>2, <1>3, RowsGo
<1>5. \A q \in table' : Proper(q)
  BY <1>1 DEF LinksInv, AllProper
<1>6. QED
  BY <1>1, <1>4, <1>5, QuietJobs

\* The networks a session may start with are whole.
LEMMA LinksStart == SessionsInit => LinksInv
<1> SUFFICES ASSUME SessionsInit PROVE LinksInv
  OBVIOUS
<1>1. /\ \A r \in table : r \in SessionRow /\ r.session = 1 /\ WellKeyed(r) /\ Refs(r) \subseteq Uuids(table)
      /\ DOMAIN sessions = {1} /\ DOMAIN jobs = {} /\ created = 1 /\ changes = 0
      /\ jobs = [s \in {} |-> <<>>]
  BY NetworksAssumption DEF SessionsInit
<1>2. CopyJobs = {} /\ ImportJobs = {}
  BY <1>1 DEF CopyJobs, ImportJobs
<1>3. SessionsTypeOK
  BY <1>1 DEF SessionsTypeOK
<1>4. \A r \in table : \A u \in Refs(r) : u[1] = 1
  BY <1>1 DEF Uuids, Uuid
<1>5. Scope /\ OwnCopies /\ Referential
  BY <1>1, <1>2 DEF Scope, OwnCopies, Referential
<1>6. AllProper
  BY <1>1, <1>2, <1>4 DEF AllProper, Proper
<1>7. Inside
  BY <1>1, <1>4 DEF Inside, LinkIsInside
<1>8. QED
  BY <1>3, <1>5, <1>6, <1>7 DEF LinksInv

\* Every step keeps it.
LEMMA LinksStep == LinksInv /\ [SessionsNext]_sessionVars => LinksInv'
<1> SUFFICES ASSUME LinksInv, [SessionsNext]_sessionVars PROVE LinksInv'
  OBVIOUS
<1>1. ASSUME NEW t \in Titles, NEW s \in DOMAIN sessions, SaveAs(s, t) PROVE LinksInv'
  BY <1>1, SaveAsKeeps
<1>2. ASSUME NEW t \in Titles, NEW f \in Files, Import(f, t) PROVE LinksInv'
  BY <1>2, ImportKeeps
<1>3. ASSUME NEW s \in DOMAIN jobs, NextKind(s) PROVE LinksInv'
  BY <1>3, NextKindKeeps
<1>4. ASSUME NEW s \in DOMAIN jobs, CopyRow(s) PROVE LinksInv'
  BY <1>4, CopyRowKeeps
<1>5. ASSUME NEW s \in DOMAIN jobs, ImportFeature(s) PROVE LinksInv'
  BY <1>5, ImportFeatureKeeps
<1>6. ASSUME NEW s \in DOMAIN jobs, Killed(s) PROVE LinksInv'
  BY <1>6, EndKeeps DEF Killed, Statuses
<1>7. ASSUME NEW r \in table, RemoveRow(r) PROVE LinksInv'
  BY <1>7, RemoveRowKeeps
<1>8. ASSUME NEW r \in table, r.kind = "sector", AddLinked(r) PROVE LinksInv'
  BY <1>8, AddLinkedKeeps
<1>9. ASSUME NEW s \in DOMAIN sessions, DeleteSession(s) PROVE LinksInv'
  BY <1>9, DeleteSessionKeeps
<1>10. CASE UNCHANGED sessionVars
  <2>1. UNCHANGED <<sessions, table, jobs, created, changes>>
    BY <1>10 DEF sessionVars
  <2>2. table' \subseteq SessionRow /\ Referential' /\ Inside' /\ \A q \in table' : Proper(q)
    BY <2>1 DEF LinksInv, SessionsTypeOK, Referential, Inside, AllProper, LinkIsInside, Refs, Uuids
  <2>3. changes' \in Nat /\ DOMAIN sessions' \subseteq DOMAIN sessions
    BY <2>1 DEF LinksInv, SessionsTypeOK
  <2>4. QED
    BY <2>1, <2>2, <2>3, QuietJobs
<1>11. QED
  BY <1>1, <1>2, <1>3, <1>4, <1>5, <1>6, <1>7, <1>8, <1>9, <1>10 DEF SessionsNext

\* The two ends of a link are rows of its session, in every state: copies build a
\* link of the copies of its ends, imports of the rows they made, and a deletion
\* takes along everything that refers to what it removes (duplicate, importFile,
\* and the cascade of the foreign keys).
THEOREM LinksStayInTheirSession == SessionsSpec => []LinksStayInside
<1>1. LinksInv => LinksStayInside
  BY DEF LinksInv, Inside, LinkIsInside, Referential, LinksStayInside
<1>2. QED
  BY LinksStart, LinksStep, <1>1, PTL DEF SessionsSpec

------------------------------------------------------------------------------
(* Copies of networks that nobody edits meanwhile *)

\* The part of the network that a copy has come to, and what it has of it.
Copying(s) ==
    LET j == jobs[s]
    IN  /\ s \in DOMAIN sessions
        /\ j.from \in DOMAIN jobs => jobs[j.from].status # "running"
        /\ j.todo \subseteq table
        /\ \A r \in j.todo : j.at > 0 /\ r.session = j.from /\ r.kind = CopiedKinds[j.at]
        /\ \A r \in table : \A k \in 1 .. j.at :
              r.session = j.from /\ r.kind = CopiedKinds[k] =>
                  (k = j.at /\ r \in j.todo) \/ <<s, r.name>> \in j.copied
        /\ \A u \in j.copied : \E q \in table : Uuid(q) = u
        /\ \A q \in table : q.session = s =>
              /\ \E k \in 1 .. j.at : q.kind = CopiedKinds[k]
              /\ \E r \in table : r.session = j.from /\ r.kind = q.kind /\ r.name = q.name
        /\ j.status = "done" => j.at = 5 /\ j.todo = {}
        /\ j.status = "failed" =>
              \E l \in table : l.session = j.from /\ l.kind = "link" /\ l.ap = NoKey /\ l.sector = NoKey

Untouched(s) == s \notin touched /\ jobs[s].from \notin touched

CopiesInv == \A s \in CopyJobs : Untouched(s) => Copying(s)

\* The order of the kinds, links last.
LEMMA KindsInOrder ==
    /\ Len(CopiedKinds) = 5
    /\ CopiedKinds[1] = "ap" /\ CopiedKinds[2] = "sector" /\ CopiedKinds[3] = "cpe"
    /\ CopiedKinds[4] = "ptp" /\ CopiedKinds[5] = "link"
  BY DEF CopiedKinds

\* A copy is where it was if its own job and the rows of its two sessions are.
LEMMA CopyUndisturbed ==
    ASSUME LinksInv, NEW s \in CopyJobs, Copying(s), jobs'[s] = jobs[s], s \in DOMAIN sessions',
           jobs[s].from \in DOMAIN jobs' => jobs'[jobs[s].from].status # "running",
           \A r \in table : r.session \in {s, jobs[s].from} => r \in table',
           \A r \in table' : r.session \in {s, jobs[s].from} => r \in table
    PROVE  Copying(s)'
<1> DEFINE j == jobs[s]
<1>1. s \in DOMAIN jobs /\ \A u \in j.copied : u[1] = s
  BY DEF LinksInv, OwnCopies, CopyJobs
<1>2. /\ j.todo \subseteq table
      /\ \A r \in j.todo : j.at > 0 /\ r.session = j.from /\ r.kind = CopiedKinds[j.at]
  BY DEF Copying
<1>3. j.todo \subseteq table'
  BY <1>2
<1>4. \A r \in table' : \A k \in 1 .. j.at :
         r.session = j.from /\ r.kind = CopiedKinds[k] =>
             (k = j.at /\ r \in j.todo) \/ <<s, r.name>> \in j.copied
  BY DEF Copying
<1>5. \A u \in j.copied : \E q \in table' : Uuid(q) = u
  <2> SUFFICES ASSUME NEW u \in j.copied PROVE \E q \in table' : Uuid(q) = u
    OBVIOUS
  <2>1. PICK q \in table : Uuid(q) = u
    BY DEF Copying
  <2>2. q.session = s
    BY <1>1, <2>1 DEF Uuid
  <2>3. QED
    BY <2>1, <2>2
<1>6. \A q \in table' : q.session = s =>
         /\ \E k \in 1 .. j.at : q.kind = CopiedKinds[k]
         /\ \E r \in table' : r.session = j.from /\ r.kind = q.kind /\ r.name = q.name
  BY DEF Copying
<1>7. /\ j.status = "done" => j.at = 5 /\ j.todo = {}
      /\ j.status = "failed" =>
            \E l \in table' : l.session = j.from /\ l.kind = "link" /\ l.ap = NoKey /\ l.sector = NoKey
  BY DEF Copying
<1> HIDE DEF j
<1>8. QED
  BY <1>2, <1>3, <1>4, <1>5, <1>6, <1>7 DEF Copying, Uuid, CopiedKinds, j

\* The rows of an imported session take along no other rows.
LEMMA ImportsGoAlone ==
    ASSUME LinksInv, NEW s \in ImportJobs
    PROVE  \A r \in Cascaded({r \in table : r.session = s}) : r.session = s
<1> DEFINE D == {r \in table : r.session = s}
           More(T) == T \cup {r \in table : Refs(r) \cap Uuids(T) # {}}
<1>1. \A r \in table : \A u \in Refs(r) : u[1] = s => r.session = s
  BY DEF LinksInv, AllProper, Proper
<1>2. More(D) = D
  BY <1>1 DEF Uuids, Uuid
<1>3. Cascaded(D) = More(More(More(D)))
  BY DEF Cascaded
<1>4. Cascaded(D) = D
  BY <1>2, <1>3
<1>5. QED
  BY <1>4

\* A new copy has everything before it; an old one sees no difference.
LEMMA SaveAsCopies ==
    ASSUME LinksInv, CopiesInv, NEW f \in DOMAIN sessions, NEW t, SaveAs(f, t)
    PROVE  CopiesInv'
<1> DEFINE j == [op |-> "copy", from |-> f, at |-> 0, todo |-> {}, copied |-> {},
                 status |-> "running"]
<1>1. Start(t, j) /\ UNCHANGED <<table, changes>> /\ touched \subseteq touched'
      /\ (f \in DOMAIN jobs /\ jobs[f].status = "running" => f \in touched')
  BY DEF SaveAs
<1>2. j \in SessionJob
  BY DEF SessionJob, Statuses, LinksInv, SessionsTypeOK
<1>3. /\ j.todo = {} /\ j.copied = {} /\ j.at = 0 /\ j.op = "copy" /\ j.from = f
      /\ j.status = "running"
  OBVIOUS
<1> HIDE DEF j
<1>4. /\ DOMAIN sessions' = DOMAIN sessions \cup {created'} /\ created' = created + 1
      /\ DOMAIN jobs' = DOMAIN jobs \cup {created'}
      /\ jobs'[created'] = j /\ (\A x \in DOMAIN jobs : x # created' /\ jobs'[x] = jobs[x])
      /\ CopyJobs' \subseteq CopyJobs \cup {created'}
  BY <1>1, <1>2, <1>3, NewJob
<1>5. /\ created \in Nat /\ DOMAIN jobs \subseteq 2 .. created /\ f \in 1 .. created
      /\ \A r \in table : r.session \in 1 .. created
      /\ \A x \in CopyJobs : x \in DOMAIN jobs /\ jobs[x].from \in 1 .. (x - 1)
  BY DEF LinksInv, SessionsTypeOK, AllProper, Proper, Scope, CopyJobs
<1> SUFFICES ASSUME NEW x \in CopyJobs', Untouched(x)' PROVE Copying(x)'
  BY DEF CopiesInv
<1>6. CASE x = created'
  <2>1. jobs'[x] = j /\ x \in DOMAIN sessions'
    BY <1>4, <1>6
  <2>2. f \in DOMAIN jobs' => jobs'[f].status # "running"
    BY <1>1, <1>3, <1>4, <1>5, <2>1 DEF Untouched
  <2>3. \A q \in table' : q.session # x
    BY <1>1, <1>4, <1>5, <1>6
  <2>4. 1 .. 0 = {}
    OBVIOUS
  <2>5. QED
    BY <1>3, <2>1, <2>2, <2>3, <2>4 DEF Copying
<1>7. CASE x # created'
  <2>1. x \in CopyJobs /\ x \in DOMAIN jobs /\ jobs'[x] = jobs[x]
    BY <1>4, <1>5, <1>7
  <2>2. Untouched(x)
    BY <1>1, <2>1 DEF Untouched
  <2>3. Copying(x)
    BY <2>1, <2>2 DEF CopiesInv
  <2>4. x \in DOMAIN sessions' /\ (jobs[x].from \in DOMAIN jobs => jobs[jobs[x].from].status # "running")
    BY <1>4, <2>3 DEF Copying
  <2>5. jobs[x].from \in DOMAIN jobs' => jobs'[jobs[x].from].status # "running"
    BY <1>4, <1>5, <2>1, <2>4
  <2>6. QED
    BY <1>1, <2>1, <2>3, <2>4, <2>5, CopyUndisturbed
<1>8. QED
  BY <1>6, <1>7

\* An import that begins concerns no copy.
LEMMA ImportCopies ==
    ASSUME LinksInv, CopiesInv, NEW f \in Files, NEW t, Import(f, t)
    PROVE  CopiesInv'
<1> DEFINE j == [op |-> "import", from |-> f, at |-> 0, todo |-> {}, copied |-> {},
                 status |-> "running"]
<1>1. Start(t, j) /\ UNCHANGED <<table, changes, touched>>
  BY DEF Import
<1>2. j \in SessionJob
  BY DEF SessionJob, Statuses
<1>3. /\ j.todo = {} /\ j.copied = {} /\ j.at = 0 /\ j.op = "import" /\ j.from = f
  OBVIOUS
<1> HIDE DEF j
<1>4. /\ DOMAIN sessions' = DOMAIN sessions \cup {created'} /\ created' = created + 1
      /\ DOMAIN jobs' = DOMAIN jobs \cup {created'}
      /\ jobs'[created'] = j /\ (\A x \in DOMAIN jobs : x # created' /\ jobs'[x] = jobs[x])
      /\ CopyJobs' \subseteq CopyJobs \cup {created'}
  BY <1>1, <1>2, <1>3, NewJob
<1>5. /\ created \in Nat /\ DOMAIN jobs \subseteq 2 .. created
      /\ \A x \in CopyJobs : x \in DOMAIN jobs /\ jobs[x].from \in 1 .. (x - 1)
  BY DEF LinksInv, SessionsTypeOK, Scope, CopyJobs
<1> SUFFICES ASSUME NEW x \in CopyJobs', Untouched(x)' PROVE Copying(x)'
  BY DEF CopiesInv
<1>6. x # created'
  BY <1>3, <1>4 DEF CopyJobs
<1>7. x \in CopyJobs /\ x \in DOMAIN jobs /\ jobs'[x] = jobs[x]
  BY <1>4, <1>5, <1>6
<1>8. Copying(x)
  BY <1>1, <1>7 DEF Untouched, CopiesInv
<1>9. x \in DOMAIN sessions' /\ (jobs[x].from \in DOMAIN jobs => jobs[jobs[x].from].status # "running")
  BY <1>4, <1>8 DEF Copying
<1>10. jobs[x].from \in DOMAIN jobs' => jobs'[jobs[x].from].status # "running"
  BY <1>4, <1>5, <1>7, <1>9
<1>11. QED
  BY <1>1, <1>7, <1>8, <1>9, <1>10, CopyUndisturbed

\* A step of one job, which leaves the rows of other sessions as they are.
LEMMA OtherCopies ==
    ASSUME LinksInv, CopiesInv, NEW s \in DOMAIN jobs, jobs[s].status = "running",
           touched' = touched, DOMAIN jobs' = DOMAIN jobs,
           \A x \in DOMAIN jobs : x # s => jobs'[x] = jobs[x],
           CopyJobs' = CopyJobs,
           \A x \in DOMAIN sessions : x # s => x \in DOMAIN sessions',
           \A r \in table : r.session # s => r \in table',
           \A r \in table' : r.session # s => r \in table
    PROVE  \A x \in CopyJobs' : x # s /\ Untouched(x)' => Copying(x)'
<1> SUFFICES ASSUME NEW x \in CopyJobs, x # s, Untouched(x)' PROVE Copying(x)'
  OBVIOUS
<1>1. x \in DOMAIN jobs /\ jobs'[x] = jobs[x]
  BY DEF CopyJobs
<1>2. Copying(x)
  BY <1>1 DEF Untouched, CopiesInv
<1>3. x \in DOMAIN sessions' /\ (jobs[x].from \in DOMAIN jobs => jobs[jobs[x].from].status # "running")
  BY <1>2 DEF Copying
<1>4. jobs[x].from # s
  BY <1>3
<1>5. jobs[x].from \in DOMAIN jobs' => jobs'[jobs[x].from].status # "running"
  BY <1>3, <1>4
<1>6. QED
  BY <1>1, <1>2, <1>3, <1>4, <1>5, CopyUndisturbed

\* A running copy reads the rows of the next kind, or has had them all.
LEMMA NextKindCopies ==
    ASSUME LinksInv, CopiesInv, NEW s \in DOMAIN jobs, NextKind(s)
    PROVE  CopiesInv'
<1>1. /\ jobs[s] \in SessionJob /\ s \in CopyJobs /\ jobs[s].status = "running" /\ jobs[s].todo = {}
      /\ UNCHANGED <<sessions, table, created, changes, touched>>
  BY DEF NextKind, Running, LinksInv, SessionsTypeOK, CopyJobs
<1>2. jobs[s].at \in 0 .. 5 /\ jobs[s].from \in 1 .. (s - 1)
  BY <1>1 DEF LinksInv, Scope
<1>3. /\ DOMAIN jobs' = DOMAIN jobs /\ (\A x \in DOMAIN jobs : x # s => jobs'[x] = jobs[x])
      /\ \/ /\ jobs[s].at = 5 /\ jobs'[s] = [jobs[s] EXCEPT !.status = "done"]
         \/ /\ jobs[s].at # 5
            /\ jobs'[s] = [jobs[s] EXCEPT !.at = @ + 1,
                                          !.todo = Of(jobs[s].from, CopiedKinds[jobs[s].at + 1])]
  BY KindsInOrder DEF NextKind, End, LinksInv, SessionsTypeOK
<1>4. jobs'[s].op = "copy" /\ jobs'[s].from = jobs[s].from
  BY <1>1, <1>3 DEF SessionJob, CopyJobs
<1>5. CopyJobs' = CopyJobs
  BY <1>1, <1>3, <1>4 DEF CopyJobs
<1>6. \A x \in CopyJobs' : x # s /\ Untouched(x)' => Copying(x)'
  BY <1>1, <1>3, <1>5, OtherCopies
<1>7. ASSUME Untouched(s)' PROVE Copying(s)'
  <2> DEFINE j == jobs[s]
             from == jobs[s].from
  <2>1. Copying(s)
    BY <1>1, <1>4, <1>7 DEF Untouched, CopiesInv
  <2>2. /\ s \in DOMAIN sessions' /\ (from \in DOMAIN jobs' => jobs'[from].status # "running")
    BY <1>1, <1>2, <1>3, <2>1 DEF Copying
  <2>3. /\ \A r \in table : \A k \in 1 .. j.at : r.session = from /\ r.kind = CopiedKinds[k] =>
              <<s, r.name>> \in j.copied
        /\ \A u \in j.copied : \E q \in table : Uuid(q) = u
        /\ \A q \in table : q.session = s =>
              /\ \E k \in 1 .. j.at : q.kind = CopiedKinds[k]
              /\ \E r \in table : r.session = from /\ r.kind = q.kind /\ r.name = q.name
    BY <1>1, <2>1 DEF Copying
  <2>4. CASE jobs[s].at = 5
    <3>1. /\ jobs'[s].at = 5 /\ jobs'[s].todo = {} /\ jobs'[s].copied = j.copied
          /\ jobs'[s].status = "done"
      BY <1>1, <1>3, <2>4 DEF SessionJob
    <3>2. QED
      BY <1>1, <1>4, <2>2, <2>3, <2>4, <3>1 DEF Copying, Uuid, CopiedKinds
  <2>5. CASE jobs[s].at # 5
    <3> DEFINE i == jobs[s].at + 1
               S == Of(from, CopiedKinds[i])
    <3>1. i \in Nat /\ i > 0 /\ S \subseteq SessionRow /\ S \subseteq table
          /\ \A r \in table : r \in S <=> r.session = from /\ r.kind = CopiedKinds[i]
      BY <1>2 DEF Of, LinksInv, SessionsTypeOK
    <3> HIDE DEF S
    <3>2. jobs'[s] = [jobs[s] EXCEPT !.at = i, !.todo = S]
      BY <1>3, <2>5 DEF S
    <3>3. /\ jobs'[s].at = i /\ jobs'[s].todo = S /\ jobs'[s].copied = j.copied
          /\ jobs'[s].status = "running"
      BY <1>1, <3>1, <3>2 DEF SessionJob
    <3>4. \A k \in 1 .. i : k = i \/ k \in 1 .. j.at
      BY <1>2
    <3>5. \A r \in table : \A k \in 1 .. i : r.session = from /\ r.kind = CopiedKinds[k] =>
              (k = i /\ r \in S) \/ <<s, r.name>> \in j.copied
      BY <2>3, <3>1, <3>4
    <3>6. \A q \in table : q.session = s =>
              /\ \E k \in 1 .. i : q.kind = CopiedKinds[k]
              /\ \E r \in table : r.session = from /\ r.kind = q.kind /\ r.name = q.name
      BY <1>2, <2>3
    <3> HIDE DEF i
    <3>7. QED
      BY <1>1, <1>4, <2>2, <2>3, <3>1, <3>3, <3>5, <3>6 DEF Copying, Uuid, CopiedKinds
  <2>6. QED
    BY <2>4, <2>5
<1>8. QED
  BY <1>5, <1>6, <1>7 DEF CopiesInv

\* A copy that nobody disturbs can save every row but a link without a tower: the
\* keys a row keeps name rows that are there, and of a link's ends, which are of
\* kinds that come before, there are copies.
LEMMA CopySaves ==
    ASSUME LinksInv, NEW s \in CopyJobs, Copying(s), NEW r \in jobs[s].todo,
           r.kind = "link" => r.ap # NoKey \/ r.sector # NoKey
    PROVE  Copyable(r, s) /\ Saves(CopyOf(r, s))
<1> DEFINE j == jobs[s]
<1>1. /\ s \in DOMAIN jobs /\ s \in DOMAIN sessions /\ r \in table /\ r \in SessionRow /\ Proper(r)
      /\ j.at \in 0 .. 5 /\ j.at > 0 /\ r.session = j.from /\ r.kind = CopiedKinds[j.at]
      /\ s \in 1 .. created /\ created \in Nat /\ s \notin ImportJobs
  BY DEF Copying, LinksInv, SessionsTypeOK, AllProper, Scope, CopyJobs, ImportJobs
<1>2. Refs(r) \subseteq Uuids(table)
  BY <1>1 DEF LinksInv, Referential
<1>3. CopyOf(r, s).session = s
  BY <1>1, CopyIsProper
<1>4. CASE r.kind # "link"
  <2>1. Refs(CopyOf(r, s)) = Refs(r)
    BY <1>4 DEF CopyOf, RowOf, Refs
  <2>2. QED
    BY <1>1, <1>2, <1>3, <1>4, <2>1 DEF Copyable, Saves
<1>5. CASE r.kind = "link"
  <2>1. j.at = 5
    <3>1. j.at \in {1, 2, 3, 4, 5}
      BY <1>1
    <3> HIDE DEF j
    <3>2. QED
      BY <1>1, <1>5, <3>1, KindsInOrder
  <2>2. \A u \in Refs(r) : <<s, u[2]>> \in j.copied
    <3> SUFFICES ASSUME NEW u \in Refs(r) PROVE <<s, u[2]>> \in j.copied
      OBVIOUS
    <3>1. PICK q \in table : Uuid(q) = u
      BY <1>2 DEF Uuids
    <3>2. u[1] = j.from
      BY <1>1, <1>5 DEF LinksInv, Inside, LinkIsInside
    <3>3. q.session = j.from /\ q.name = u[2]
      BY <3>1, <3>2 DEF Uuid
    <3>4. q \in SessionRow /\ WellKeyed(q) /\ WellKeyed(r)
      BY <1>1 DEF LinksInv, SessionsTypeOK, AllProper, Proper
    <3>5. q.kind \in {"ap", "sector", "cpe"}
      BY <1>1, <1>5, <3>1, <3>4, KeysGoUp
    <3>6. PICK k \in 1 .. 4 : q.kind = CopiedKinds[k]
      BY <3>5, KindsInOrder
    <3>7. k \in 1 .. j.at /\ k # j.at
      BY <2>1
    <3>8. <<s, q.name>> \in j.copied
      BY <3>3, <3>6, <3>7 DEF Copying
    <3>9. QED
      BY <3>3, <3>8
  <2>3. \A u \in j.copied : u \in Uuids(table)
    BY DEF Copying, Uuids
  <2>4. \A u \in Refs(CopyOf(r, s)) : \E v \in Refs(r) : u = <<s, v[2]>>
    BY <1>5 DEF CopyOf, RowOf, Refs
  <2>5. Refs(CopyOf(r, s)) \subseteq Uuids(table)
    BY <2>2, <2>3, <2>4
  <2>6. QED
    BY <1>1, <1>2, <1>3, <2>2, <2>5 DEF Copyable, Saves
<1>6. QED
  BY <1>4, <1>5

\* A running copy comes one row further, or fails for a link without a tower.
LEMMA CopyRowCopies ==
    ASSUME LinksInv, CopiesInv, NEW s \in DOMAIN jobs, CopyRow(s)
    PROVE  CopiesInv'
<1>1. /\ jobs[s] \in SessionJob /\ s \in CopyJobs /\ jobs[s].status = "running"
      /\ UNCHANGED <<sessions, created, changes, touched>>
  BY DEF CopyRow, Running, LinksInv, SessionsTypeOK, CopyJobs
<1>2. /\ jobs[s].at \in 0 .. 5 /\ jobs[s].from \in 1 .. (s - 1) /\ jobs[s].todo \subseteq SessionRow
      /\ s \in 1 .. created /\ created \in Nat /\ s \notin ImportJobs
  BY <1>1 DEF LinksInv, Scope, SessionsTypeOK, SessionJob, CopyJobs, ImportJobs
<1>3. PICK r \in jobs[s].todo :
         IF Copyable(r, s) /\ Saves(CopyOf(r, s))
         THEN /\ table' = table \cup {CopyOf(r, s)}
              /\ jobs' = [jobs EXCEPT ![s].todo = @ \ {r},
                                      ![s].copied = @ \cup {Uuid(CopyOf(r, s))}]
         ELSE End(s, "failed") /\ UNCHANGED table
  BY DEF CopyRow
<1> DEFINE c == CopyOf(r, s)
           U == {Uuid(c)}
           from == jobs[s].from
<1>4. r \in SessionRow /\ Proper(r)
  BY <1>1, <1>2 DEF LinksInv, AllProper
<1>5. c \in SessionRow /\ c.session = s /\ c.name = r.name /\ c.kind = r.kind
  BY <1>2, <1>4, CopyIsProper
<1>6. U = {<<s, r.name>>} /\ U \subseteq Key
  BY <1>2, <1>4, <1>5 DEF Uuid, Key, SessionRow
<1>7. \/ /\ table' = table \cup {c}
         /\ jobs' = [jobs EXCEPT ![s].todo = @ \ {r}, ![s].copied = @ \cup U]
      \/ /\ ~ (Copyable(r, s) /\ Saves(CopyOf(r, s)))
         /\ jobs' = [jobs EXCEPT ![s].status = "failed"] /\ table' = table
  BY <1>3 DEF End
<1> HIDE DEF c, U
<1>8. /\ DOMAIN jobs' = DOMAIN jobs /\ (\A x \in DOMAIN jobs : x # s => jobs'[x] = jobs[x])
      /\ jobs'[s].op = "copy" /\ jobs'[s].from = from /\ jobs'[s].at = jobs[s].at
      /\ \/ /\ table' = table \cup {c} /\ jobs'[s].status = "running"
            /\ jobs'[s].todo = jobs[s].todo \ {r} /\ jobs'[s].copied = jobs[s].copied \cup U
         \/ /\ ~ (Copyable(r, s) /\ Saves(CopyOf(r, s))) /\ table' = table
            /\ jobs'[s].status = "failed"
            /\ jobs'[s].todo = jobs[s].todo /\ jobs'[s].copied = jobs[s].copied
  <2>1. jobs \in [DOMAIN jobs -> SessionJob] /\ jobs[s].op = "copy"
    BY <1>1 DEF LinksInv, SessionsTypeOK, CopyJobs
  <2>2. CASE /\ table' = table \cup {c}
             /\ jobs' = [jobs EXCEPT ![s].todo = @ \ {r}, ![s].copied = @ \cup U]
    <3>1. jobs'[s] = [jobs[s] EXCEPT !.todo = @ \ {r}, !.copied = @ \cup U]
      BY <2>1, <2>2
    <3>2. /\ jobs'[s].op = "copy" /\ jobs'[s].from = from /\ jobs'[s].at = jobs[s].at
          /\ jobs'[s].status = "running"
          /\ jobs'[s].todo = jobs[s].todo \ {r} /\ jobs'[s].copied = jobs[s].copied \cup U
      BY <1>1, <1>6, <2>1, <3>1 DEF SessionJob
    <3>3. QED
      BY <2>1, <2>2, <3>2
  <2>3. CASE /\ ~ (Copyable(r, s) /\ Saves(CopyOf(r, s)))
             /\ jobs' = [jobs EXCEPT ![s].status = "failed"] /\ table' = table
    BY <1>1, <2>1, <2>3 DEF SessionJob
  <2>4. QED
    BY <1>7, <2>2, <2>3
<1>9. CopyJobs' = CopyJobs
  BY <1>1, <1>8 DEF CopyJobs
<1>10. \A x \in CopyJobs' : x # s /\ Untouched(x)' => Copying(x)'
  BY <1>1, <1>5, <1>8, <1>9, OtherCopies
<1>11. ASSUME Untouched(s)' PROVE Copying(s)'
  <2>1. Copying(s)
    BY <1>1, <1>8, <1>11 DEF Untouched, CopiesInv
  <2>2. /\ s \in DOMAIN sessions' /\ (from \in DOMAIN jobs' => jobs'[from].status # "running")
    BY <1>1, <1>2, <1>8, <2>1 DEF Copying
  <2>3. /\ r \in table /\ r.session = from /\ jobs[s].at > 0 /\ r.kind = CopiedKinds[jobs[s].at]
    BY <2>1 DEF Copying
  <2>4. CASE /\ table' = table \cup {c} /\ jobs'[s].status = "running"
             /\ jobs'[s].todo = jobs[s].todo \ {r} /\ jobs'[s].copied = jobs[s].copied \cup U
    <3>1. from # s
      BY <1>2
    <3>2. /\ jobs'[s].todo \subseteq table'
          /\ \A q \in jobs'[s].todo : jobs[s].at > 0 /\ q.session = from /\ q.kind = CopiedKinds[jobs[s].at]
      BY <2>1, <2>4 DEF Copying
    <3>3. \A q \in table' : \A k \in 1 .. jobs[s].at :
             q.session = from /\ q.kind = CopiedKinds[k] =>
                 (k = jobs[s].at /\ q \in jobs'[s].todo) \/ <<s, q.name>> \in jobs'[s].copied
      BY <1>5, <1>6, <2>1, <2>4, <3>1 DEF Copying
    <3>4. \A u \in jobs'[s].copied : \E q \in table' : Uuid(q) = u
      BY <2>1, <2>4 DEF Copying, U
    <3>5. \A q \in table' : q.session = s =>
             /\ \E k \in 1 .. jobs[s].at : q.kind = CopiedKinds[k]
             /\ \E p \in table' : p.session = from /\ p.kind = q.kind /\ p.name = q.name
      BY <1>2, <1>5, <2>1, <2>3, <2>4 DEF Copying
    <3>6. QED
      BY <1>8, <2>2, <2>4, <3>2, <3>3, <3>4, <3>5 DEF Copying, Uuid, CopiedKinds
  <2>5. CASE /\ ~ (Copyable(r, s) /\ Saves(CopyOf(r, s))) /\ table' = table
             /\ jobs'[s].status = "failed"
             /\ jobs'[s].todo = jobs[s].todo /\ jobs'[s].copied = jobs[s].copied
    <3>1. r.kind = "link" /\ r.ap = NoKey /\ r.sector = NoKey
      BY <1>1, <2>1, <2>5, CopySaves
    <3>2. \E l \in table' : l.session = from /\ l.kind = "link" /\ l.ap = NoKey /\ l.sector = NoKey
      BY <2>3, <2>5, <3>1
    <3>3. QED
      BY <1>8, <2>1, <2>2, <2>5, <3>2 DEF Copying, Uuid, CopiedKinds
  <2>6. QED
    BY <1>8, <2>4, <2>5
<1>12. QED
  BY <1>9, <1>10, <1>11 DEF CopiesInv

\* What an import makes, or takes with it when it fails, is its own.
LEMMA ImportFeatureCopies ==
    ASSUME LinksInv, CopiesInv, NEW s \in DOMAIN jobs, ImportFeature(s)
    PROVE  CopiesInv'
<1>1. /\ jobs[s] \in SessionJob /\ s \in ImportJobs /\ s \notin CopyJobs /\ jobs[s].status = "running"
      /\ Running(s, "import") /\ UNCHANGED <<created, changes, touched>>
      /\ jobs \in [DOMAIN jobs -> SessionJob]
  <2>1. Running(s, "import") /\ UNCHANGED <<created, changes, touched>>
    BY DEF ImportFeature
  <2>2. QED
    BY <2>1 DEF LinksInv, SessionsTypeOK, Running, CopyJobs, ImportJobs
<1> DEFINE file == jobs[s].from
           i == jobs[s].at + 1
<1>2. file \in Seq({"ap", "cpe", "ptp", "area", "bad"}) /\ i \in Nat \ {0}
  BY <1>1, FilesAssumption DEF LinksInv, Scope, ImportJobs, SessionJob
<1>3. \/ End(s, "done") /\ UNCHANGED <<sessions, table>>
      \/ \E S \in Imported(s, file[i], <<file[i], i>>) :
           \/ /\ file[i] # "bad" /\ s \in DOMAIN sessions
              /\ \A r \in S : Refs(r) \subseteq Uuids(table \cup S)
              /\ table' = table \cup S
              /\ jobs' = [jobs EXCEPT ![s].at = i, ![s].copied = @ \cup Uuids(S)]
              /\ UNCHANGED sessions
           \/ Discard(s) /\ End(s, "failed")
  BY DEF ImportFeature
<1>4. file[i] \in {"ap", "cpe", "ptp", "area"} \/ file[i] = "bad" \/ i > Len(file)
  BY <1>2
<1>5. /\ DOMAIN jobs' = DOMAIN jobs /\ (\A x \in DOMAIN jobs : x # s => jobs'[x] = jobs[x])
      /\ jobs'[s].op = "import"
  <2>1. CASE \E how : jobs' = [jobs EXCEPT ![s].status = how]
    BY <1>1, <2>1 DEF SessionJob, ImportJobs
  <2>2. CASE \E U : jobs' = [jobs EXCEPT ![s].at = i, ![s].copied = @ \cup U]
    BY <1>1, <2>2 DEF SessionJob, ImportJobs
  <2>3. QED
    BY <1>3, <2>1, <2>2 DEF End
<1>6. CopyJobs' = CopyJobs
  BY <1>1, <1>5 DEF CopyJobs
<1>7. /\ \A x \in DOMAIN sessions : x # s => x \in DOMAIN sessions'
      /\ \A r \in table : r.session # s => r \in table'
      /\ \A r \in table' : r.session # s => r \in table
  <2>1. CASE UNCHANGED <<sessions, table>>
    BY <2>1
  <2>2. CASE Discard(s)
    <3>1. /\ DOMAIN sessions' = DOMAIN sessions \ {s}
          /\ table' = table \ Cascaded({r \in table : r.session = s})
      BY <2>2 DEF Discard
    <3>2. QED
      BY <1>1, <3>1, ImportsGoAlone
  <2>3. CASE \E S \in Imported(s, file[i], <<file[i], i>>) : table' = table \cup S /\ UNCHANGED sessions
    <3>1. \A k, n : \A S \in Imported(s, k, n) : \A r \in S : r.session = s
      BY DEF Imported, RowOf
    <3>2. QED
      BY <2>3, <3>1
  <2>4. QED
    BY <1>3, <2>1, <2>2, <2>3
<1>8. \A x \in CopyJobs' : x # s /\ Untouched(x)' => Copying(x)'
  BY <1>1, <1>5, <1>6, <1>7, OtherCopies
<1>9. QED
  BY <1>1, <1>6, <1>8 DEF CopiesInv

\* A job that is killed is neither done nor failed.
LEMMA KilledCopies ==
    ASSUME LinksInv, CopiesInv, NEW s \in DOMAIN jobs, Killed(s)
    PROVE  CopiesInv'
<1>1. /\ jobs[s] \in SessionJob /\ jobs[s].status = "running" /\ jobs \in [DOMAIN jobs -> SessionJob]
      /\ UNCHANGED <<sessions, table, created, changes, touched>>
      /\ jobs' = [jobs EXCEPT ![s].status = "killed"]
  BY DEF Killed, End, LinksInv, SessionsTypeOK
<1>2. /\ DOMAIN jobs' = DOMAIN jobs /\ (\A x \in DOMAIN jobs : x # s => jobs'[x] = jobs[x])
      /\ jobs'[s].op = jobs[s].op /\ jobs'[s].from = jobs[s].from /\ jobs'[s].at = jobs[s].at
      /\ jobs'[s].todo = jobs[s].todo /\ jobs'[s].copied = jobs[s].copied
      /\ jobs'[s].status = "killed"
  BY <1>1 DEF SessionJob
<1>3. CopyJobs' = CopyJobs
  BY <1>2 DEF CopyJobs
<1>4. \A x \in CopyJobs' : x # s /\ Untouched(x)' => Copying(x)'
  BY <1>1, <1>2, <1>3, OtherCopies
<1>5. ASSUME s \in CopyJobs', Untouched(s)' PROVE Copying(s)'
  <2>1. Copying(s) /\ jobs[s].from \in 1 .. (s - 1)
    BY <1>1, <1>2, <1>3, <1>5 DEF Untouched, CopiesInv, LinksInv, Scope
  <2>2. jobs[s].from \in DOMAIN jobs' => jobs'[jobs[s].from].status # "running"
    BY <1>2, <2>1 DEF Copying
  <2>3. QED
    BY <1>1, <1>2, <2>1, <2>2 DEF Copying, Uuid, CopiedKinds
<1>6. QED
  BY <1>4, <1>5 DEF CopiesInv

\* An edit touches the sessions whose rows it adds or removes.
LEMMA EditCopies ==
    ASSUME LinksInv, CopiesInv, UNCHANGED jobs, touched \subseteq touched',
           \A x \in DOMAIN sessions : x \in touched' \/ x \in DOMAIN sessions',
           \A r \in table : r.session \in touched' \/ r \in table',
           \A r \in table' : r.session \in touched' \/ r \in table
    PROVE  CopiesInv'
<1>1. CopyJobs' = CopyJobs
  BY DEF CopyJobs
<1> SUFFICES ASSUME NEW x \in CopyJobs, Untouched(x)' PROVE Copying(x)'
  BY <1>1 DEF CopiesInv
<1>2. jobs'[x] = jobs[x] /\ x \notin touched' /\ jobs[x].from \notin touched'
  BY DEF Untouched
<1>3. Copying(x)
  BY <1>2 DEF Untouched, CopiesInv
<1>4. x \in DOMAIN sessions' /\ (jobs[x].from \in DOMAIN jobs' => jobs'[jobs[x].from].status # "running")
  BY <1>2, <1>3 DEF Copying
<1>5. QED
  BY <1>2, <1>3, <1>4, CopyUndisturbed

\* Every step keeps what the untouched copies have.
LEMMA CopiesStep == LinksInv /\ CopiesInv /\ [SessionsNext]_sessionVars => CopiesInv'
<1> SUFFICES ASSUME LinksInv, CopiesInv, [SessionsNext]_sessionVars PROVE CopiesInv'
  OBVIOUS
<1>1. ASSUME NEW t \in Titles, NEW s \in DOMAIN sessions, SaveAs(s, t) PROVE CopiesInv'
  BY <1>1, SaveAsCopies
<1>2. ASSUME NEW t \in Titles, NEW f \in Files, Import(f, t) PROVE CopiesInv'
  BY <1>2, ImportCopies
<1>3. ASSUME NEW s \in DOMAIN jobs, NextKind(s) PROVE CopiesInv'
  BY <1>3, NextKindCopies
<1>4. ASSUME NEW s \in DOMAIN jobs, CopyRow(s) PROVE CopiesInv'
  BY <1>4, CopyRowCopies
<1>5. ASSUME NEW s \in DOMAIN jobs, ImportFeature(s) PROVE CopiesInv'
  BY <1>5, ImportFeatureCopies
<1>6. ASSUME NEW s \in DOMAIN jobs, Killed(s) PROVE CopiesInv'
  BY <1>6, KilledCopies
<1>7. ASSUME NEW r \in table, RemoveRow(r) PROVE CopiesInv'
  <2>1. /\ touched' = touched \cup {q.session : q \in Cascaded({r})}
        /\ table' = table \ Cascaded({r}) /\ UNCHANGED <<sessions, jobs>>
    BY <1>7 DEF RemoveRow, Change
  <2>2. QED
    BY <2>1, EditCopies
<1>8. ASSUME NEW x \in table, x.kind = "sector", AddLinked(x) PROVE CopiesInv'
  <2> DEFINE c == RowOf(x.session, <<"cpe", changes, "new">>, "cpe", NoKey, Uuid(x), NoKey)
             l == RowOf(x.session, <<"link", changes, "new">>, "link", NoKey, Uuid(x), Uuid(c))
  <2>1. /\ touched' = touched \cup {x.session}
        /\ table' = table \cup {c, l} /\ UNCHANGED <<sessions, jobs>>
    BY <1>8 DEF AddLinked, Change
  <2>2. c.session = x.session /\ l.session = x.session
    BY DEF RowOf
  <2> HIDE DEF c, l
  <2>3. QED
    BY <2>1, <2>2, EditCopies
<1>9. ASSUME NEW s \in DOMAIN sessions, DeleteSession(s) PROVE CopiesInv'
  <2> DEFINE C == Cascaded({r \in table : r.session = s})
  <2>1. /\ touched' = touched \cup ({s} \cup {r.session : r \in C})
        /\ table' = table \ C /\ DOMAIN sessions' = DOMAIN sessions \ {s} /\ UNCHANGED jobs
    BY <1>9 DEF DeleteSession, Discard, Change
  <2> HIDE DEF C
  <2>2. QED
    BY <2>1, EditCopies
<1>10. CASE UNCHANGED sessionVars
  <2>1. UNCHANGED <<sessions, table, jobs, touched>>
    BY <1>10 DEF sessionVars
  <2>2. QED
    BY <2>1, EditCopies
<1>11. QED
  BY <1>1, <1>2, <1>3, <1>4, <1>5, <1>6, <1>7, <1>8, <1>9, <1>10 DEF SessionsNext

\* A network that nobody edits while it is copied is copied whole, however many
\* copies, imports and edits of other networks go on (duplicate): when the copy is
\* done it has the same rows but for areas, and it fails only for a link without
\* a tower.
THEOREM UntouchedCopiesAreWhole == SessionsSpec => []UntouchedCopyIsWhole
<1>1. SessionsInit => CopiesInv
  BY DEF SessionsInit, CopiesInv, CopyJobs
<1>2. LinksInv /\ CopiesInv => UntouchedCopyIsWhole
  <2> SUFFICES ASSUME LinksInv, CopiesInv, NEW s \in DOMAIN jobs, jobs[s].op = "copy",
                      s \notin touched, jobs[s].from \notin touched
               PROVE  LET from == jobs[s].from
                      IN  /\ jobs[s].status = "done" =>
                                Names(s, AllButAreas) = Names(from, AllButAreas)
                          /\ jobs[s].status = "failed" =>
                                \E l \in Of(from, "link") : l.ap = NoKey /\ l.sector = NoKey
    BY DEF UntouchedCopyIsWhole
  <2> DEFINE from == jobs[s].from
  <2>1. Copying(s) /\ s \in CopyJobs
    BY DEF CopiesInv, CopyJobs, Untouched
  <2>2. ASSUME jobs[s].status = "done"
        PROVE  Names(s, AllButAreas) = Names(from, AllButAreas)
    <3>1. jobs[s].at = 5 /\ jobs[s].todo = {}
      BY <2>1, <2>2 DEF Copying
    <3>2. \A k \in AllButAreas : \E i \in 1 .. 5 : k = CopiedKinds[i]
      BY KindsInOrder DEF AllButAreas
    <3>3. ASSUME NEW r \in table, r.session = from, r.kind \in AllButAreas
          PROVE  \E q \in table : q.session = s /\ q.kind = r.kind /\ q.name = r.name
      <4>1. <<s, r.name>> \in jobs[s].copied
        BY <2>1, <3>1, <3>2, <3>3 DEF Copying
      <4>2. PICK q \in table : Uuid(q) = <<s, r.name>>
        BY <2>1, <4>1 DEF Copying
      <4>3. q.session = s /\ q.name = r.name
        BY <4>2 DEF Uuid
      <4>4. q.kind = q.name[1] /\ r.kind = r.name[1]
        BY DEF LinksInv, AllProper, Proper, WellKeyed
      <4>5. QED
        BY <4>3, <4>4
    <3>4. \A q \in table : q.session = s =>
             \E r \in table : r.session = from /\ r.kind = q.kind /\ r.name = q.name
      BY <2>1 DEF Copying
    <3>5. QED
      BY <3>3, <3>4 DEF Names
  <2>3. ASSUME jobs[s].status = "failed"
        PROVE  \E l \in Of(from, "link") : l.ap = NoKey /\ l.sector = NoKey
    BY <2>1, <2>3 DEF Copying, Of
  <2>4. QED
    BY <2>2, <2>3
<1>3. QED
  BY LinksStart, LinksStep, CopiesStep, <1>1, <1>2, PTL DEF SessionsSpec

(***************************************************************************)
(*                         Towers without sectors                          *)
(***************************************************************************)

Places == {"unborn", "queued", "row", "start", "check", "clear", "fill", "hash", "drop", "insert",
           "raster", "tiles", "load", "judge", "save", "done", "failed", "killed"}
ListPlaces == {"unborn", "queued", "row", "start", "check", "clear", "fill", "hash",
               "done", "failed", "killed"}
SeePlaces == Places \ {"check", "clear", "fill"}
WithRow    == {"start", "check", "clear", "fill", "hash", "drop", "raster", "tiles"}

ListRow  == [task : Job \cup {NoJob}, hash : Nat]
SightRow == [id : Job \X {1, 2}, task : Job \cup {NoJob}, hash : Nat, tiles : Nat]
Member   == [at : Places, form : Nat, row : {NoRecord} \cup ListRow \cup SightRow,
             todo : SUBSET Job, early : BOOLEAN]

\* Where a task may be, and that it has its row while it works on it.
Fits(x, c) == IF x[1] = "list" THEN c.at \in ListPlaces /\ (c.at \in WithRow => c.row \in ListRow)
                               ELSE c.at \in SeePlaces /\ (c.at \in WithRow => c.row \in SightRow)

TowerTypeOK ==
    /\ mast \in Nat /\ askable \in Nat
    /\ ask \in [n : Nat, owed : BOOLEAN, heard : Nat] /\ ask.n + askable <= MaxAsks
    /\ listing \in {NoRecord} \cup ListRow /\ sight \in {NoRecord} \cup SightRow
    /\ rasterOf \in Nat /\ nearby \subseteq [by : Job, area : Nat, seen : Nat]
    /\ crew \in [Job -> Member]
    /\ \A x \in Job : Fits(x, crew[x])

Calm == mishap \cap {"impatient", "elsewhere"} = {} /\ mast # 0

ListsFine == \A x \in Job : x[1] = "list" => crew[x].at \notin {"failed", "killed"}

\* One request's tasks are under way, and the last one's have been started.
OneRequest ==
    /\ \A x \in Job : Underway(x) => x[2] = ask.n /\ ~ask.owed
    /\ \A x \in Job : x[2] <= ask.n <=> crew[x].at # "unborn"

WellListed == /\ listing # NoRecord /\ listing.hash # 0
              /\ nearby # {} /\ \A b \in nearby : b.area = listing.hash
NothingListed == listing = NoRecord /\ nearby = {}

\* How far the listing has come.
ListState(x) == LET c == crew[x] IN
    /\ c.at \in {"row", "clear", "fill", "hash"} => c.form = mast
    /\ c.at \in {"start", "check"} => c.form \in {0, mast}
    /\ c.at \in {"check", "clear", "fill", "hash"} => listing = c.row
    /\ c.at \in {"queued", "row"} => NothingListed \/ WellListed
    /\ c.at \in {"start", "check"} =>
          \/ c.row.hash = 0 /\ nearby = {}
          \/ c.row.hash = listing.hash /\ WellListed
    /\ c.at = "fill" => nearby = {}
    /\ c.at = "hash" => nearby # {} /\ \A b \in nearby : b.area = mast
    /\ c.at = "done" => WellListed /\ (~ask.owed => listing.hash = mast)

Listed == ListsFine =>
    IF ask.n = 0 THEN NothingListed ELSE ListState(<<"list", ask.n>>)

\* A hash is of tiles that are there, and of the raster too unless an upload was lost.
SightKept == sight # NoRecord /\ sight.hash # 0 =>
    sight.tiles = sight.hash /\ ("lose" \notin mishap => rasterOf = sight.hash)

OwnRaster == "lose" \notin mishap => rasterOf = mast

OwnSight == sight # NoRecord /\ sight.hash = mast /\ sight.tiles = mast

\* How far the viewshed and the verdicts have come.
SeeState(x) == LET c == crew[x] IN
    /\ c.at \in {"row", "drop", "insert", "start", "raster", "tiles", "hash", "load"}
          => c.form = mast
    /\ c.at \in {"judge", "save"} => c.form = rasterOf /\ rasterOf # 0
    /\ c.at = "drop" => sight = NoRecord \/ sight.id = c.row.id
    /\ c.at = "insert" => sight = NoRecord
    /\ c.at \in {"start", "raster", "tiles", "hash"} => c.row.hash = 0
    /\ c.at \in {"start", "raster", "tiles"} => sight = c.row
    /\ c.at = "hash" => sight = [c.row EXCEPT !.tiles = mast]
    /\ c.at \in {"tiles", "hash", "load", "judge", "save"} => OwnRaster
    /\ c.at \in {"load", "judge", "save"} => OwnSight
    /\ c.at = "done" /\ ~ask.owed => OwnSight /\ rasterOf # 0
    /\ c.at \in {"save", "done"} /\ ~c.early => crew[<<"list", x[2]>>].at = "done"
    /\ c.at = "save" /\ ~c.early => \A b \in nearby : b.by \in c.todo \/ b.seen = rasterOf
    /\ c.at = "done" /\ ~c.early /\ ~ask.owed => \A b \in nearby : b.seen = rasterOf

Seen == SightKept /\ (ask.n # 0 => SeeState(<<"see", ask.n>>))

TowerInv == TowerTypeOK /\ (Calm => OneRequest /\ Listed /\ Seen)

------------------------------------------------------------------------------
(* Jobs, rows and members of the crew *)

\* The tasks of a request.
LEMMA JobIs ==
    /\ \A x \in Job : x[1] \in {"list", "see"} /\ x[2] \in 1 .. MaxAsks /\ x = <<x[1], x[2]>>
    /\ \A n \in 1 .. MaxAsks : <<"list", n>> \in Job /\ <<"see", n>> \in Job
    /\ NoJob \notin Job
  BY DEF Job, NoJob

\* A row is a row.
LEMMA RowsAreThere == \A r \in ListRow \cup SightRow : r # NoRecord
<1>1. ASSUME NEW r \in ListRow PROVE r # NoRecord
  <2>1. DOMAIN r = {"task", "hash"}
    BY DEF ListRow
  <2>2. DOMAIN NoRecord = {}
    BY DEF NoRecord
  <2>3. QED
    BY <2>1, <2>2
<1>2. ASSUME NEW r \in SightRow PROVE r # NoRecord
  <2>1. DOMAIN r = {"id", "task", "hash", "tiles"}
    BY DEF SightRow
  <2>2. DOMAIN NoRecord = {}
    BY DEF NoRecord
  <2>3. QED
    BY <2>1, <2>2
<1>3. QED
  BY <1>1, <1>2

\* The tasks that may be at work.
Lister == <<"list", ask.n>>
Seer   == <<"see", ask.n>>

\* At work is one of the last request's tasks.
LEMMA AtWork ==
    ASSUME OneRequest, TowerTypeOK, NEW x \in Job, Underway(x)
    PROVE  /\ ~ ask.owed /\ ask.n # 0 /\ ask.n \in 1 .. MaxAsks
           /\ Lister \in Job /\ Seer \in Job /\ Lister # Seer
           /\ Lister[1] = "list" /\ Seer[1] = "see" /\ Lister[2] = ask.n /\ Seer[2] = ask.n
           /\ x = IF x[1] = "list" THEN Lister ELSE Seer
<1>1. x[2] = ask.n /\ ~ ask.owed
  BY DEF OneRequest
<1>2. ask.n \in 1 .. MaxAsks /\ ask.n # 0
  BY <1>1, JobIs
<1>3. x = IF x[1] = "list" THEN Lister ELSE Seer
  BY <1>1, JobIs DEF Lister, Seer
<1>4. QED
  BY <1>1, <1>2, <1>3, JobIs DEF Lister, Seer

\* A task goes on, or ends.
LEMMA BecomesIs ==
    ASSUME TowerTypeOK, NEW x \in Job, NEW place \in Places, Becomes(x, place)
    PROVE  \E c \in Member : /\ crew' = [crew EXCEPT ![x] = c] /\ c.at = place
                             /\ c.early = crew[x].early
                             /\ place \notin {"done", "failed", "killed"} =>
                                  /\ c.form = crew[x].form /\ c.row = crew[x].row
                                  /\ c.todo = crew[x].todo
<1>1. crew[x] \in Member /\ crew \in [Job -> Member]
  BY DEF TowerTypeOK
<1>2. CASE place \in {"done", "failed", "killed"}
  <2> DEFINE c == [Unborn EXCEPT !.at = place, !.early = crew[x].early]
  <2>1. c \in Member /\ c.at = place /\ c.early = crew[x].early
    BY <1>1 DEF Unborn, Member
  <2>2. crew' = [crew EXCEPT ![x] = c]
    BY <1>2 DEF Becomes
  <2>3. QED
    BY <1>2, <2>1, <2>2
<1>3. CASE place \notin {"done", "failed", "killed"}
  <2> DEFINE c == [crew[x] EXCEPT !.at = place]
  <2>1. /\ c \in Member /\ c.at = place /\ c.early = crew[x].early
        /\ c.form = crew[x].form /\ c.row = crew[x].row /\ c.todo = crew[x].todo
    BY <1>1 DEF Member
  <2>2. crew' = [crew EXCEPT ![x] = c]
    BY <1>3, <1>1 DEF Becomes
  <2>3. QED
    BY <2>1, <2>2
<1>4. QED
  BY <1>2, <1>3

\* One task is somewhere else; the others are where they were.
LEMMA Moved ==
    ASSUME TowerTypeOK, NEW x \in Job, NEW c \in Member, crew' = [crew EXCEPT ![x] = c],
           Fits(x, c),
           UNCHANGED <<mast, askable, ask>>,
           listing' \in {NoRecord} \cup ListRow, sight' \in {NoRecord} \cup SightRow,
           rasterOf' \in Nat, nearby' \subseteq [by : Job, area : Nat, seen : Nat]
    PROVE  TowerTypeOK' /\ \A y \in Job : crew'[y] = IF y = x THEN c ELSE crew[y]
<1>1. \A y \in Job : crew'[y] = IF y = x THEN c ELSE crew[y]
  BY DEF TowerTypeOK
<1>2. crew' \in [Job -> Member]
  BY DEF TowerTypeOK
<1>3. QED
  BY <1>1, <1>2 DEF TowerTypeOK

\* What a step of one task leaves to show.
LEMMA TaskStep ==
    ASSUME TowerInv, TowerTypeOK', NEW x \in Job, Underway(x), NEW c, c.at # "unborn",
           \A y \in Job : crew'[y] = IF y = x THEN c ELSE crew[y],
           UNCHANGED <<mishap, mast, ask>>,
           Calm /\ ListsFine /\ OneRequest /\ ask.n # 0 /\ ListState(Lister) => ListState(Lister)',
           Calm /\ OneRequest /\ ask.n # 0 /\ SightKept /\ SeeState(Seer)
             => SightKept' /\ SeeState(Seer)'
    PROVE  TowerInv'
<1> SUFFICES ASSUME Calm' PROVE OneRequest' /\ Listed' /\ Seen'
  BY DEF TowerInv
<1>1. Calm /\ TowerTypeOK /\ OneRequest /\ Listed /\ Seen
  BY DEF Calm, TowerInv
<1>2. ask.n # 0 /\ ~ ask.owed /\ x[2] = ask.n
  BY <1>1, AtWork DEF OneRequest
<1>3. OneRequest'
  BY <1>1, <1>2 DEF OneRequest, Underway
<1>4. Listed'
  <2> SUFFICES ASSUME ListsFine' PROVE ListState(<<"list", ask.n>>)'
    BY <1>2 DEF Listed
  <2>1. ListsFine
    BY DEF ListsFine, Underway
  <2>2. ListState(Lister)
    BY <1>1, <1>2, <2>1 DEF Listed, Lister
  <2>3. ListState(Lister)'
    BY <1>1, <1>2, <2>1, <2>2
  <2>4. QED
    BY <2>3 DEF Lister
<1>5. Seen'
  <2>1. SightKept /\ SeeState(Seer)
    BY <1>1, <1>2 DEF Seen, Seer
  <2>2. SightKept' /\ SeeState(Seer)'
    BY <1>1, <1>2, <2>1
  <2>3. QED
    BY <2>2 DEF Seen, Seer
<1>6. QED
  BY <1>3, <1>4, <1>5

\* The listing goes on without the viewshed ...
LEMMA SeeUntouched ==
    ASSUME crew[Lister].at # "done", crew'[Seer] = crew[Seer],
           UNCHANGED <<mishap, mast, ask, sight, rasterOf>>, SightKept, SeeState(Seer)
    PROVE  SightKept' /\ SeeState(Seer)'
<1>1. crew[<<"list", Seer[2]>>].at # "done"
  BY DEF Lister, Seer
<1>2. Seer' = Seer
  BY DEF Seer
<1>3. SightKept'
  BY DEF SightKept
<1>4. ~ (crew[Seer].at \in {"save", "done"} /\ ~ crew[Seer].early)
  BY <1>1 DEF SeeState
<1>5. SeeState(Seer)'
  BY <1>2, <1>4 DEF SeeState, OwnSight, OwnRaster
<1>6. QED
  BY <1>3, <1>5

\* ... and the viewshed without the listing: verdicts change no building's area.
LEMMA ListUntouched ==
    ASSUME crew'[Lister] = crew[Lister], UNCHANGED <<mast, ask, listing>>, ListState(Lister),
           nearby' = {} <=> nearby = {},
           \A b \in nearby' : \E d \in nearby : b.area = d.area
    PROVE  ListState(Lister)'
<1>1. Lister' = Lister
  BY DEF Lister
<1>2. /\ WellListed => WellListed' /\ listing' = listing
      /\ NothingListed => NothingListed'
  BY DEF WellListed, NothingListed
<1>3. QED
  BY <1>1, <1>2 DEF ListState

------------------------------------------------------------------------------
(* Both tasks *)

\* A task that fails leaves the rows; one that listed leaves nothing to claim.
LEMMA EndsKeeps ==
    ASSUME TowerInv, NEW x \in Job, Underway(x), NEW place \in {"failed", "killed"},
           Becomes(x, place),
           UNCHANGED <<mishap, askable, mast, ask, listing, sight, rasterOf, nearby>>
    PROVE  TowerInv'
<1>1. TowerTypeOK /\ place \in Places
  BY DEF TowerInv, Places
<1>2. PICK c \in Member : crew' = [crew EXCEPT ![x] = c] /\ c.at = place
  BY <1>1, BecomesIs
<1>3. TowerTypeOK' /\ \A y \in Job : crew'[y] = IF y = x THEN c ELSE crew[y]
  BY <1>1, <1>2, Moved DEF TowerTypeOK, Fits, ListPlaces, SeePlaces, Places, WithRow
<1>4. ASSUME Calm' PROVE OneRequest' /\ Listed' /\ Seen'
  <2>1. Calm /\ OneRequest /\ Listed /\ Seen
    BY <1>4 DEF Calm, TowerInv
  <2>2. /\ ask.n # 0 /\ Lister \in Job /\ Seer \in Job /\ Lister # Seer
        /\ Lister[1] = "list" /\ Seer[1] = "see" /\ Lister[2] = ask.n /\ Seer[2] = ask.n
        /\ x = IF x[1] = "list" THEN Lister ELSE Seer
    BY <1>1, <2>1, AtWork
  <2>3. OneRequest'
    BY <1>2, <1>3, <2>1 DEF OneRequest, Underway
  <2>4. SightKept' /\ SightKept
    BY <2>1 DEF Seen, SightKept
  <2>5. SeeState(Seer)
    BY <2>1, <2>2 DEF Seen, Seer
  <2>6. CASE x[1] = "list"
    <3>1. ~ ListsFine'
      BY <1>2, <1>3, <2>6 DEF ListsFine
    <3>2. crew'[Seer] = crew[Seer] /\ crew[Lister].at # "done"
      BY <1>3, <2>2, <2>6 DEF Underway
    <3>3. SeeState(Seer)'
      BY <2>4, <2>5, <3>2, SeeUntouched
    <3>4. QED
      BY <2>2, <2>3, <2>4, <3>1, <3>3 DEF Listed, Seen, Seer
  <2>7. CASE x[1] # "list"
    <3>1. SeeState(Seer)'
      <4>1. crew'[Seer].at = place /\ Seer' = Seer
        BY <1>2, <1>3, <2>2, <2>7 DEF Seer
      <4>2. QED
        BY <4>1 DEF SeeState
    <3>2. ListsFine' => ListsFine
      BY <1>3, <2>7 DEF ListsFine
    <3>3. ListsFine => ListState(Lister)'
      <4>1. crew'[Lister] = crew[Lister]
        BY <1>3, <2>2, <2>7
      <4>2. ListsFine => ListState(Lister)
        BY <2>1, <2>2 DEF Listed, Lister
      <4>3. QED
        BY <4>1, <4>2, ListUntouched
    <3>4. QED
      BY <2>2, <2>3, <2>4, <3>1, <3>2, <3>3 DEF Listed, Seen, Seer, Lister
  <2>8. QED
    BY <2>6, <2>7
<1>5. QED
  BY <1>3, <1>4 DEF TowerInv

\* AccessPointLocation.objects.get: the form that is worked on is the tower's.
LEMMA GetTowerKeeps ==
    ASSUME TowerInv, NEW x \in Job, GetTower(x)
    PROVE  TowerInv'
<1> DEFINE c == [crew[x] EXCEPT !.at = "row", !.form = mast]
<1>1. /\ TowerTypeOK /\ crew[x] \in Member /\ crew \in [Job -> Member] /\ mast \in Nat
      /\ crew[x].at = "queued" /\ UNCHANGED <<mishap, askable, mast, ask>>
      /\ UNCHANGED <<listing, sight, rasterOf, nearby>>
  BY DEF GetTower, At, TowerInv, TowerTypeOK
<1>2. crew' = [crew EXCEPT ![x] = c]
  BY <1>1 DEF GetTower
<1>3. c \in Member /\ c.at = "row" /\ c.form = mast
  BY <1>1 DEF Member, Places
<1> HIDE DEF c
<1>4. TowerTypeOK' /\ \A y \in Job : crew'[y] = IF y = x THEN c ELSE crew[y]
  BY <1>1, <1>2, <1>3, Moved DEF TowerTypeOK, Fits, ListPlaces, SeePlaces, Places, WithRow
<1>5. Underway(x)
  BY <1>1 DEF Underway
<1>6. ASSUME Calm, ListsFine, OneRequest, ask.n # 0, ListState(Lister) PROVE ListState(Lister)'
  <2>1. Lister \in Job /\ Lister # Seer /\ x \in {Lister, Seer} /\ Lister' = Lister
    BY <1>1, <1>5, <1>6, AtWork DEF Lister
  <2>2. CASE x = Lister
    <3>1. NothingListed \/ WellListed
      BY <1>1, <1>6, <2>2 DEF ListState
    <3>2. (NothingListed \/ WellListed)'
      BY <1>1, <3>1 DEF NothingListed, WellListed
    <3>3. crew'[Lister].at = "row" /\ crew'[Lister].form = mast /\ mast' = mast
      BY <1>1, <1>3, <1>4, <2>1, <2>2
    <3>4. QED
      BY <2>1, <3>2, <3>3 DEF ListState
  <2>3. CASE x = Seer
    <3>1. crew'[Lister] = crew[Lister]
      BY <1>4, <2>1, <2>3
    <3>2. QED
      BY <1>1, <1>6, <3>1, ListUntouched
  <2>4. QED
    BY <2>1, <2>2, <2>3
<1>7. ASSUME Calm, OneRequest, ask.n # 0, SightKept, SeeState(Seer)
      PROVE  SightKept' /\ SeeState(Seer)'
  <2>1. /\ Lister \in Job /\ Seer \in Job /\ Lister # Seer /\ x \in {Lister, Seer}
        /\ Seer' = Seer
    BY <1>1, <1>5, <1>7, AtWork DEF Seer
  <2>2. CASE x = Lister
    <3>1. crew'[Seer] = crew[Seer] /\ crew[Lister].at # "done"
      BY <1>1, <1>4, <2>1, <2>2
    <3>2. QED
      BY <1>1, <1>7, <3>1, SeeUntouched
  <2>3. CASE x = Seer
    <3>1. crew'[Seer].at = "row" /\ crew'[Seer].form = mast /\ mast' = mast
      BY <1>1, <1>3, <1>4, <2>1, <2>3
    <3>2. SeeState(Seer)'
      BY <2>1, <3>1 DEF SeeState
    <3>3. SightKept'
      BY <1>1, <1>7 DEF SightKept
    <3>4. QED
      BY <3>2, <3>3
  <2>4. QED
    BY <2>1, <2>2, <2>3
<1>8. QED
  BY <1>1, <1>3, <1>4, <1>5, <1>6, <1>7, TaskStep

------------------------------------------------------------------------------
(* generateAccessPointCoverage *)

\* What a step of the listing leaves to show.
LEMMA ListerSteps ==
    ASSUME TowerInv, NEW x \in Job, x[1] = "list", Underway(x),
           NEW c \in Member, crew' = [crew EXCEPT ![x] = c], c.at # "unborn", Fits(x, c),
           UNCHANGED <<mishap, mast, askable, ask, sight, rasterOf>>,
           listing' \in {NoRecord} \cup ListRow,
           nearby' \subseteq [by : Job, area : Nat, seen : Nat],
           Calm /\ ListState(x) /\ ~ ask.owed /\ crew'[x] = c => ListState(x)'
    PROVE  TowerInv'
<1>0. TowerTypeOK
  BY DEF TowerInv
<1>1. TowerTypeOK' /\ \A y \in Job : crew'[y] = IF y = x THEN c ELSE crew[y]
  BY <1>0, Moved DEF TowerTypeOK
<1>2. ASSUME Calm, ListsFine, OneRequest, ask.n # 0, ListState(Lister) PROVE ListState(Lister)'
  <2>1. x = Lister /\ Lister' = Lister /\ ~ ask.owed
    BY <1>0, <1>2, AtWork DEF Lister
  <2>2. ListState(x)'
    BY <1>1, <1>2, <2>1
  <2>3. ListState(Lister)' <=> ListState(x)'
    BY <2>1 DEF ListState
  <2>4. QED
    BY <2>2, <2>3
<1>3. ASSUME Calm, OneRequest, ask.n # 0, SightKept, SeeState(Seer)
      PROVE  SightKept' /\ SeeState(Seer)'
  <2>1. x = Lister /\ Seer \in Job /\ Lister # Seer
    BY <1>0, <1>3, AtWork
  <2>2. crew'[Seer] = crew[Seer] /\ crew[Lister].at # "done"
    BY <1>1, <2>1 DEF Underway
  <2>3. QED
    BY <1>3, <2>2, SeeUntouched
<1>4. QED
  BY <1>1, <1>2, <1>3, TaskStep

\* What is known of a task that is at some place of the listing.
LEMMA ListerFacts ==
    ASSUME TowerInv, NEW x \in Job, NEW place \in Places \ {"unborn", "done", "failed", "killed"},
           At(x, place), x[1] = "list" \/ place \in {"check", "clear", "fill"}
    PROVE  /\ TowerTypeOK /\ crew[x] \in Member /\ crew \in [Job -> Member] /\ mast \in Nat
           /\ x[1] = "list" /\ Underway(x) /\ mast # 0 /\ crew[x].at = place
           /\ UNCHANGED <<mishap, askable, mast, ask>>
           /\ place \in WithRow => crew[x].row \in ListRow
           /\ listing \in {NoRecord} \cup ListRow
           /\ nearby \subseteq [by : Job, area : Nat, seen : Nat]
  BY JobIs DEF At, TowerInv, TowerTypeOK, Fits, Underway, SeePlaces, Places

\* get_or_create.
LEMMA GetListingKeeps ==
    ASSUME TowerInv, NEW x \in Job, GetListing(x)
    PROVE  TowerInv'
<1>0. At(x, "row") /\ x[1] = "list" /\ UNCHANGED <<sight, rasterOf, nearby>>
  BY DEF GetListing
<1>1. /\ TowerTypeOK /\ crew[x] \in Member /\ crew \in [Job -> Member] /\ mast \in Nat
      /\ Underway(x) /\ mast # 0 /\ crew[x].at = "row"
      /\ UNCHANGED <<mishap, askable, mast, ask>>
      /\ listing \in {NoRecord} \cup ListRow
      /\ nearby \subseteq [by : Job, area : Nat, seen : Nat]
  BY <1>0, ListerFacts DEF Places
<1>2. CASE listing = NoRecord
  <2> DEFINE c == [crew[x] EXCEPT !.at = "start", !.row = Blank0]
  <2>1. Blank0 \in ListRow /\ Blank0.hash = 0
    BY DEF Blank0, ListRow
  <2>2. crew' = [crew EXCEPT ![x] = c] /\ listing' = Blank0
    BY <1>1, <1>2 DEF GetListing
  <2>3. c \in Member /\ c.at = "start" /\ c.row = Blank0 /\ c.form = crew[x].form
    BY <1>1, <2>1 DEF Member, Places
  <2> HIDE DEF c
  <2>4. ASSUME ListState(x), crew'[x] = c PROVE ListState(x)'
    <3>1. crew[x].form = mast /\ (NothingListed \/ WellListed)
      BY <1>1, <2>4 DEF ListState
    <3>2. nearby = {}
      BY <1>2, <3>1 DEF NothingListed, WellListed
    <3>3. QED
      BY <1>0, <1>1, <2>1, <2>3, <2>4, <3>1, <3>2 DEF ListState
  <2>5. QED
    BY <1>0, <1>1, <2>1, <2>2, <2>3, <2>4, ListerSteps DEF Fits, ListPlaces, WithRow
<1>3. CASE listing # NoRecord
  <2> DEFINE r == [listing EXCEPT !.task = x]
             c == [crew[x] EXCEPT !.at = "start", !.row = r, !.form = 0]
  <2>1. r \in ListRow /\ r.hash = listing.hash
    BY <1>1, <1>3 DEF ListRow
  <2>2. crew' = [crew EXCEPT ![x] = c] /\ listing' = listing
    BY <1>1, <1>3 DEF GetListing
  <2> HIDE DEF r
  <2>3. c \in Member /\ c.at = "start" /\ c.row = r /\ c.form = 0
    BY <1>1, <2>1 DEF Member, Places
  <2> HIDE DEF c
  <2>4. ASSUME ListState(x), crew'[x] = c PROVE ListState(x)'
    <3>1. WellListed
      BY <1>1, <1>3, <2>4 DEF ListState, NothingListed
    <3>2. WellListed'
      BY <1>0, <2>2, <3>1 DEF WellListed
    <3>3. QED
      BY <2>1, <2>2, <2>3, <2>4, <3>2 DEF ListState
  <2>5. QED
    BY <1>0, <1>1, <2>1, <2>2, <2>3, <2>4, ListerSteps DEF Fits, ListPlaces, WithRow
<1>4. QED
  BY <1>2, <1>3

\* on_task_start saves the row.
LEMMA StartListingKeeps ==
    ASSUME TowerInv, NEW x \in Job, StartListing(x)
    PROVE  TowerInv'
<1>0. /\ At(x, "start") /\ x[1] = "list" /\ UNCHANGED <<sight, rasterOf, nearby>>
      /\ Becomes(x, "check")
      /\ listing' = crew[x].row
  BY DEF StartListing
<1>1. /\ TowerTypeOK /\ crew[x] \in Member /\ mast \in Nat /\ Underway(x) /\ crew[x].at = "start"
      /\ UNCHANGED <<mishap, askable, mast, ask>> /\ crew[x].row \in ListRow
      /\ nearby \subseteq [by : Job, area : Nat, seen : Nat]
  BY <1>0, ListerFacts DEF Places, WithRow
<1>2. PICK c \in Member : /\ crew' = [crew EXCEPT ![x] = c] /\ c.at = "check"
                          /\ c.form = crew[x].form /\ c.row = crew[x].row
  BY <1>0, <1>1, BecomesIs DEF Places
<1>3. ASSUME ListState(x), crew'[x] = c PROVE ListState(x)'
  <2>1. /\ crew[x].form \in {0, mast}
        /\ \/ crew[x].row.hash = 0 /\ nearby = {}
           \/ crew[x].row.hash = listing.hash /\ WellListed
    BY <1>1, <1>3 DEF ListState
  <2>2. listing' # NoRecord
    BY <1>0, <1>1, RowsAreThere
  <2>3. \/ c.row.hash = 0 /\ nearby' = {}
        \/ c.row.hash = listing'.hash /\ WellListed'
    BY <1>0, <1>2, <2>1, <2>2 DEF WellListed
  <2>4. QED
    BY <1>0, <1>1, <1>2, <1>3, <2>1, <2>3 DEF ListState
<1>4. QED
  BY <1>0, <1>1, <1>2, <1>3, ListerSteps DEF Fits, ListPlaces, WithRow

\* A listing whose hash is the tower's is whole; another one is done again.
LEMMA CheckListingKeeps ==
    ASSUME TowerInv, NEW x \in Job, CheckListing(x)
    PROVE  TowerInv'
<1> DEFINE form == IF crew[x].form = 0 THEN mast ELSE crew[x].form
<1>0. /\ At(x, "check") /\ UNCHANGED <<listing, sight, rasterOf, nearby>>
      /\ IF crew[x].row.hash = form THEN Becomes(x, "done")
         ELSE crew' = [crew EXCEPT ![x].form = form, ![x].at = "clear"]
  BY DEF CheckListing
<1>1. /\ TowerTypeOK /\ crew[x] \in Member /\ crew \in [Job -> Member] /\ mast \in Nat /\ mast # 0
      /\ Underway(x) /\ crew[x].at = "check" /\ x[1] = "list"
      /\ UNCHANGED <<mishap, askable, mast, ask>> /\ crew[x].row \in ListRow
      /\ listing \in {NoRecord} \cup ListRow
      /\ nearby \subseteq [by : Job, area : Nat, seen : Nat]
  BY <1>0, ListerFacts DEF Places, WithRow
<1>2. form \in Nat
  BY <1>1 DEF Member
<1>3. ASSUME ListState(x)
      PROVE  /\ form = mast /\ listing = crew[x].row
             /\ crew[x].row.hash = 0 \/ WellListed
  BY <1>1, <1>3 DEF ListState
<1> HIDE DEF form
<1>4. CASE crew[x].row.hash = form
  <2>1. PICK c \in Member : crew' = [crew EXCEPT ![x] = c] /\ c.at = "done"
    BY <1>0, <1>1, <1>4, BecomesIs DEF Places
  <2>2. ASSUME ListState(x), ~ ask.owed, crew'[x] = c PROVE ListState(x)'
    <3>1. listing.hash = mast /\ WellListed
      BY <1>1, <1>3, <1>4, <2>2
    <3>2. listing'.hash = mast' /\ WellListed'
      BY <1>0, <1>1, <3>1 DEF WellListed
    <3>3. QED
      BY <2>1, <2>2, <3>2 DEF ListState
  <2>3. QED
    BY <1>0, <1>1, <2>1, <2>2, ListerSteps DEF Fits, ListPlaces, WithRow
<1>5. CASE crew[x].row.hash # form
  <2> DEFINE c == [crew[x] EXCEPT !.form = form, !.at = "clear"]
  <2>1. crew' = [crew EXCEPT ![x] = c]
    BY <1>0, <1>1, <1>5
  <2>2. c \in Member /\ c.at = "clear" /\ c.row = crew[x].row /\ c.form = form
    BY <1>1, <1>2 DEF Member, Places
  <2> HIDE DEF c
  <2>3. ASSUME ListState(x), crew'[x] = c PROVE ListState(x)'
    BY <1>0, <1>1, <1>3, <2>2, <2>3 DEF ListState
  <2>4. QED
    BY <1>0, <1>1, <2>1, <2>2, <2>3, ListerSteps DEF Fits, ListPlaces, WithRow
<1>6. QED
  BY <1>4, <1>5

\* What was listed goes.
LEMMA ClearNearbyKeeps ==
    ASSUME TowerInv, NEW x \in Job, ClearNearby(x)
    PROVE  TowerInv'
<1>0. /\ At(x, "clear") /\ Becomes(x, "fill")
      /\ UNCHANGED <<listing, sight, rasterOf>> /\ nearby' = {}
  BY DEF ClearNearby
<1>1. /\ TowerTypeOK /\ crew[x] \in Member /\ Underway(x) /\ crew[x].at = "clear" /\ x[1] = "list"
      /\ UNCHANGED <<mishap, askable, mast, ask>> /\ crew[x].row \in ListRow
      /\ listing \in {NoRecord} \cup ListRow
  BY <1>0, ListerFacts DEF Places, WithRow
<1>2. PICK c \in Member : /\ crew' = [crew EXCEPT ![x] = c] /\ c.at = "fill"
                          /\ c.form = crew[x].form /\ c.row = crew[x].row
  BY <1>0, <1>1, BecomesIs DEF Places
<1>3. ASSUME ListState(x), crew'[x] = c PROVE ListState(x)'
  BY <1>0, <1>1, <1>2, <1>3 DEF ListState
<1>4. QED
  BY <1>0, <1>1, <1>2, <1>3, ListerSteps DEF Fits, ListPlaces, WithRow

\* The buildings around the tower, as it is.
LEMMA FillNearbyKeeps ==
    ASSUME TowerInv, NEW x \in Job, FillNearby(x)
    PROVE  TowerInv'
<1> DEFINE new == [by |-> x, area |-> crew[x].form, seen |-> 0]
<1>0. /\ At(x, "fill") /\ Becomes(x, "hash")
      /\ UNCHANGED <<listing, sight, rasterOf>> /\ nearby' = nearby \cup {new}
  BY DEF FillNearby
<1>1. /\ TowerTypeOK /\ crew[x] \in Member /\ Underway(x) /\ crew[x].at = "fill" /\ x[1] = "list"
      /\ UNCHANGED <<mishap, askable, mast, ask>> /\ crew[x].row \in ListRow
      /\ listing \in {NoRecord} \cup ListRow
      /\ nearby \subseteq [by : Job, area : Nat, seen : Nat]
  BY <1>0, ListerFacts DEF Places, WithRow
<1>2. new \in [by : Job, area : Nat, seen : Nat] /\ new.area = crew[x].form
  BY <1>1 DEF Member
<1> HIDE DEF new
<1>3. PICK c \in Member : /\ crew' = [crew EXCEPT ![x] = c] /\ c.at = "hash"
                          /\ c.form = crew[x].form /\ c.row = crew[x].row
  BY <1>0, <1>1, BecomesIs DEF Places
<1>4. ASSUME ListState(x), crew'[x] = c PROVE ListState(x)'
  <2>1. crew[x].form = mast /\ nearby = {} /\ listing = crew[x].row
    BY <1>1, <1>4 DEF ListState
  <2>2. nearby' # {} /\ \A b \in nearby' : b.area = mast'
    BY <1>0, <1>1, <1>2, <2>1
  <2>3. QED
    BY <1>0, <1>1, <1>3, <1>4, <2>1, <2>2 DEF ListState
<1>5. QED
  BY <1>0, <1>1, <1>2, <1>3, <1>4, ListerSteps DEF Fits, ListPlaces, WithRow

\* Status and hash, once the buildings are there.
LEMMA FinishListingKeeps ==
    ASSUME TowerInv, NEW x \in Job, FinishListing(x)
    PROVE  TowerInv'
<1> DEFINE r == [crew[x].row EXCEPT !.hash = crew[x].form]
<1>0. /\ At(x, "hash") /\ x[1] = "list" /\ Becomes(x, "done")
      /\ UNCHANGED <<sight, rasterOf, nearby>> /\ listing' = r
  BY DEF FinishListing
<1>1. /\ TowerTypeOK /\ crew[x] \in Member /\ Underway(x) /\ crew[x].at = "hash" /\ mast # 0
      /\ UNCHANGED <<mishap, askable, mast, ask>> /\ crew[x].row \in ListRow
      /\ nearby \subseteq [by : Job, area : Nat, seen : Nat]
  BY <1>0, ListerFacts DEF Places, WithRow
<1>2. r \in ListRow /\ r.hash = crew[x].form
  BY <1>1 DEF ListRow, Member
<1> HIDE DEF r
<1>3. PICK c \in Member : crew' = [crew EXCEPT ![x] = c] /\ c.at = "done"
  BY <1>0, <1>1, BecomesIs DEF Places
<1>4. ASSUME ListState(x), crew'[x] = c PROVE ListState(x)'
  <2>1. crew[x].form = mast /\ nearby # {} /\ \A b \in nearby : b.area = mast
    BY <1>1, <1>4 DEF ListState
  <2>2. listing'.hash = mast' /\ WellListed'
    BY <1>0, <1>1, <1>2, <2>1, RowsAreThere DEF WellListed
  <2>3. QED
    BY <1>3, <1>4, <2>2 DEF ListState
<1>5. QED
  BY <1>0, <1>1, <1>2, <1>3, <1>4, ListerSteps DEF Fits, ListPlaces, WithRow

------------------------------------------------------------------------------
(* computeViewshed *)

\* What a step of the viewshed leaves to show.
LEMMA SeerSteps ==
    ASSUME TowerInv, NEW x \in Job, x[1] = "see", Underway(x),
           NEW c \in Member, crew' = [crew EXCEPT ![x] = c], c.at # "unborn", Fits(x, c),
           UNCHANGED <<mishap, mast, askable, ask, listing>>,
           sight' \in {NoRecord} \cup SightRow, rasterOf' \in Nat,
           nearby' \subseteq [by : Job, area : Nat, seen : Nat],
           nearby' = {} <=> nearby = {},
           \A b \in nearby' : \E d \in nearby : b.area = d.area,
           Calm /\ SightKept /\ SeeState(x) /\ ~ ask.owed /\ crew'[x] = c
             /\ crew'[<<"list", x[2]>>] = crew[<<"list", x[2]>>]
             => SightKept' /\ SeeState(x)'
    PROVE  TowerInv'
<1>0. TowerTypeOK
  BY DEF TowerInv
<1>1. TowerTypeOK' /\ \A y \in Job : crew'[y] = IF y = x THEN c ELSE crew[y]
  BY <1>0, Moved DEF TowerTypeOK
<1>2. ASSUME Calm, ListsFine, OneRequest, ask.n # 0, ListState(Lister) PROVE ListState(Lister)'
  <2>1. x = Seer /\ Lister \in Job /\ Lister # Seer
    BY <1>0, <1>2, AtWork
  <2>2. crew'[Lister] = crew[Lister]
    BY <1>1, <2>1
  <2>3. QED
    BY <1>2, <2>2, ListUntouched
<1>3. ASSUME Calm, OneRequest, ask.n # 0, SightKept, SeeState(Seer)
      PROVE  SightKept' /\ SeeState(Seer)'
  <2>1. x = Seer /\ Seer' = Seer /\ ~ ask.owed /\ Lister \in Job /\ Lister # Seer /\ x[2] = ask.n
    BY <1>0, <1>3, AtWork DEF Seer
  <2>2. crew'[x] = c /\ crew'[<<"list", x[2]>>] = crew[<<"list", x[2]>>]
    BY <1>1, <2>1 DEF Lister
  <2>3. SightKept' /\ SeeState(x)'
    BY <1>3, <2>1, <2>2
  <2>4. SeeState(Seer)' <=> SeeState(x)'
    BY <2>1 DEF SeeState
  <2>5. QED
    BY <2>3, <2>4
<1>4. QED
  BY <1>1, <1>2, <1>3, TaskStep

\* What is known of a task that is at some place of the viewshed.
LEMMA SeerFacts ==
    ASSUME TowerInv, NEW x \in Job, NEW place \in Places \ {"unborn", "done", "failed", "killed"},
           At(x, place),
           x[1] = "see" \/ place \in {"drop", "insert", "raster", "tiles", "load", "judge", "save"}
    PROVE  /\ TowerTypeOK /\ crew[x] \in Member /\ crew \in [Job -> Member]
           /\ mast \in Nat /\ rasterOf \in Nat /\ crew[x].form \in Nat
           /\ x[1] = "see" /\ Underway(x) /\ mast # 0 /\ crew[x].at = place
           /\ UNCHANGED <<mishap, askable, mast, ask>>
           /\ place \in WithRow => crew[x].row \in SightRow
           /\ sight \in {NoRecord} \cup SightRow
           /\ nearby \subseteq [by : Job, area : Nat, seen : Nat]
  BY JobIs DEF At, TowerInv, TowerTypeOK, Fits, Underway, ListPlaces, Places, Member

\* A row that is saved is there, over the tiles that were there, or the task fails.
LEMMA SaveSightIs ==
    ASSUME TowerTypeOK, NEW x \in Job, x[1] = "see", NEW row \in SightRow,
           NEW next \in SeePlaces \ {"done", "failed", "killed"}, SaveSight(x, row, next)
    PROVE  \/ /\ sight = NoRecord \/ sight.id = row.id
              /\ sight' \in SightRow /\ sight'.id = row.id /\ sight'.task = row.task
              /\ sight'.hash = row.hash
              /\ sight'.tiles = IF sight = NoRecord THEN 0 ELSE sight.tiles
              /\ \E c \in Member : /\ crew' = [crew EXCEPT ![x] = c] /\ c.at = next /\ c.row = row
                                   /\ c.form = crew[x].form /\ c.early = crew[x].early
                                   /\ c.todo = crew[x].todo
           \/ Becomes(x, "failed") /\ sight' = sight /\ sight # NoRecord /\ sight.id # row.id
<1>1. crew[x] \in Member /\ crew \in [Job -> Member] /\ sight \in {NoRecord} \cup SightRow
  BY DEF TowerTypeOK
<1>2. CASE sight = NoRecord \/ sight.id = row.id
  <2> DEFINE tiles == IF sight = NoRecord THEN 0 ELSE sight.tiles
             c == [crew[x] EXCEPT !.at = next, !.row = row]
  <2>1. tiles \in Nat
    BY <1>1 DEF SightRow
  <2>2. sight' = [row EXCEPT !.tiles = tiles] /\ crew' = [crew EXCEPT ![x] = c]
    BY <1>1, <1>2 DEF SaveSight
  <2>3. /\ sight' \in SightRow /\ sight'.id = row.id /\ sight'.task = row.task
        /\ sight'.hash = row.hash /\ sight'.tiles = tiles
    BY <2>1, <2>2 DEF SightRow
  <2>4. /\ c \in Member /\ c.at = next /\ c.row = row /\ c.form = crew[x].form
        /\ c.early = crew[x].early /\ c.todo = crew[x].todo
    BY <1>1 DEF Member, SeePlaces
  <2>5. QED
    BY <1>2, <2>2, <2>3, <2>4
<1>3. CASE ~ (sight = NoRecord \/ sight.id = row.id)
  BY <1>3 DEF SaveSight
<1>4. QED
  BY <1>2, <1>3

\* A row of the task's own.
LEMMA NewSightIs ==
    ASSUME NEW x \in Job, NEW k \in {1, 2}
    PROVE  NewSight(x, k) \in SightRow /\ NewSight(x, k).hash = 0
  BY DEF NewSight, SightRow

\* ap.viewshed, or one that is made.
LEMMA GetSightKeeps ==
    ASSUME TowerInv, NEW x \in Job, GetSight(x)
    PROVE  TowerInv'
<1>0. At(x, "row") /\ x[1] = "see" /\ UNCHANGED <<listing, rasterOf, nearby>>
  BY DEF GetSight
<1>1. /\ TowerTypeOK /\ crew[x] \in Member /\ crew \in [Job -> Member] /\ mast \in Nat /\ mast # 0
      /\ Underway(x) /\ crew[x].at = "row" /\ rasterOf \in Nat
      /\ UNCHANGED <<mishap, askable, mast, ask>>
      /\ sight \in {NoRecord} \cup SightRow
      /\ nearby \subseteq [by : Job, area : Nat, seen : Nat]
  BY <1>0, SeerFacts DEF Places
<1>2. CASE sight = NoRecord
  <2>1. SaveSight(x, NewSight(x, 1), "drop")
    BY <1>2 DEF GetSight
  <2>2. /\ sight' \in SightRow /\ sight'.id = NewSight(x, 1).id /\ sight'.hash = 0
        /\ \E c \in Member : /\ crew' = [crew EXCEPT ![x] = c] /\ c.at = "drop"
                             /\ c.row = NewSight(x, 1) /\ c.form = crew[x].form
    BY <1>0, <1>1, <1>2, <2>1, SaveSightIs, NewSightIs DEF SeePlaces, Places
  <2>3. PICK c \in Member : /\ crew' = [crew EXCEPT ![x] = c] /\ c.at = "drop"
                            /\ c.row = NewSight(x, 1) /\ c.form = crew[x].form
    BY <2>2
  <2>4. c.row \in SightRow
    BY <2>3, NewSightIs
  <2>5. ASSUME SeeState(x), crew'[x] = c PROVE SightKept' /\ SeeState(x)'
    <3>1. crew[x].form = mast
      BY <1>1, <2>5 DEF SeeState
    <3>2. SightKept'
      BY <2>2 DEF SightKept
    <3>3. SeeState(x)'
      BY <1>1, <2>2, <2>3, <2>5, <3>1 DEF SeeState
    <3>4. QED
      BY <3>2, <3>3
  <2>6. QED
    BY <1>0, <1>1, <2>2, <2>3, <2>4, <2>5, SeerSteps DEF Fits, SeePlaces, Places, WithRow
<1>3. CASE sight # NoRecord
  <2> DEFINE place == IF sight.hash = crew[x].form THEN "load" ELSE "drop"
             c == [crew[x] EXCEPT !.row = sight, !.at = place]
  <2>1. crew' = [crew EXCEPT ![x] = c] /\ sight' = sight
    BY <1>1, <1>3 DEF GetSight
  <2>2. c \in Member /\ c.at = place /\ c.row = sight /\ c.form = crew[x].form /\ sight \in SightRow
    BY <1>1, <1>3 DEF Member, Places
  <2>3. place \in {"load", "drop"} /\ (place = "load" => sight.hash = crew[x].form)
    OBVIOUS
  <2> HIDE DEF c, place
  <2>4. ASSUME SightKept, SeeState(x), crew'[x] = c PROVE SightKept' /\ SeeState(x)'
    <3>1. crew[x].form = mast
      BY <1>1, <2>4 DEF SeeState
    <3>2. SightKept'
      BY <1>0, <1>1, <2>1, <2>4 DEF SightKept
    <3>3. place = "load" => OwnSight' /\ OwnRaster'
      BY <1>0, <1>1, <1>3, <2>1, <2>3, <2>4, <3>1 DEF SightKept, OwnSight, OwnRaster
    <3>4. SeeState(x)'
      BY <1>0, <1>1, <2>1, <2>2, <2>3, <2>4, <3>1, <3>3 DEF SeeState
    <3>5. QED
      BY <3>2, <3>4
  <2>5. QED
    BY <1>0, <1>1, <2>1, <2>2, <2>3, <2>4, SeerSteps DEF Fits, SeePlaces, Places, WithRow
<1>4. QED
  BY <1>2, <1>3

\* The row goes, if it is the one that was read.
LEMMA DropSightKeeps ==
    ASSUME TowerInv, NEW x \in Job, DropSight(x)
    PROVE  TowerInv'
<1>0. /\ At(x, "drop") /\ UNCHANGED <<listing, rasterOf, nearby>> /\ Becomes(x, "insert")
      /\ sight' = IF sight # NoRecord /\ sight.id = crew[x].row.id THEN NoRecord ELSE sight
  BY DEF DropSight
<1>1. /\ TowerTypeOK /\ crew[x] \in Member /\ x[1] = "see" /\ Underway(x) /\ crew[x].at = "drop"
      /\ UNCHANGED <<mishap, askable, mast, ask>> /\ rasterOf \in Nat
      /\ sight \in {NoRecord} \cup SightRow
      /\ nearby \subseteq [by : Job, area : Nat, seen : Nat]
  BY <1>0, SeerFacts DEF Places
<1>2. PICK c \in Member : crew' = [crew EXCEPT ![x] = c] /\ c.at = "insert" /\ c.form = crew[x].form
  BY <1>0, <1>1, BecomesIs DEF Places
<1>3. ASSUME SightKept, SeeState(x), crew'[x] = c PROVE SightKept' /\ SeeState(x)'
  <2>1. crew[x].form = mast /\ (sight = NoRecord \/ sight.id = crew[x].row.id)
    BY <1>1, <1>3 DEF SeeState
  <2>2. sight' = NoRecord
    BY <1>0, <2>1
  <2>3. QED
    BY <1>0, <1>1, <1>2, <1>3, <2>1, <2>2 DEF SeeState, SightKept
<1>4. QED
  BY <1>0, <1>1, <1>2, <1>3, SeerSteps DEF Fits, SeePlaces, Places, WithRow

\* A row of its own is inserted, or the task ends.
LEMMA InsertSightKeeps ==
    ASSUME TowerInv, NEW x \in Job, InsertSight(x)
    PROVE  TowerInv'
<1>0. /\ At(x, "insert") /\ UNCHANGED <<listing, rasterOf, nearby>>
      /\ IF sight = NoRecord THEN SaveSight(x, NewSight(x, 2), "start")
                             ELSE Becomes(x, "failed") /\ UNCHANGED sight
  BY DEF InsertSight
<1>1. /\ TowerTypeOK /\ crew[x] \in Member /\ x[1] = "see" /\ Underway(x) /\ crew[x].at = "insert"
      /\ UNCHANGED <<mishap, askable, mast, ask>> /\ rasterOf \in Nat
      /\ sight \in {NoRecord} \cup SightRow
      /\ nearby \subseteq [by : Job, area : Nat, seen : Nat]
  BY <1>0, SeerFacts DEF Places
<1>2. CASE sight = NoRecord
  <2>1. /\ sight' \in SightRow /\ sight'.id = NewSight(x, 2).id /\ sight'.task = NewSight(x, 2).task
        /\ sight'.hash = 0 /\ sight'.tiles = 0
        /\ \E c \in Member : /\ crew' = [crew EXCEPT ![x] = c] /\ c.at = "start"
                             /\ c.row = NewSight(x, 2) /\ c.form = crew[x].form
    BY <1>0, <1>1, <1>2, SaveSightIs, NewSightIs DEF SeePlaces, Places
  <2>2. PICK c \in Member : /\ crew' = [crew EXCEPT ![x] = c] /\ c.at = "start"
                            /\ c.row = NewSight(x, 2) /\ c.form = crew[x].form
    BY <2>1
  <2>3. c.row \in SightRow /\ c.row.hash = 0
    BY <2>2, NewSightIs
  <2>4. sight' = NewSight(x, 2)
    BY <2>1 DEF NewSight, SightRow
  <2>5. ASSUME SeeState(x), crew'[x] = c PROVE SightKept' /\ SeeState(x)'
    <3>1. crew[x].form = mast
      BY <1>1, <2>5 DEF SeeState
    <3>2. SightKept'
      BY <2>1 DEF SightKept
    <3>3. SeeState(x)'
      BY <1>1, <2>2, <2>3, <2>4, <2>5, <3>1 DEF SeeState
    <3>4. QED
      BY <3>2, <3>3
  <2>6. QED
    BY <1>0, <1>1, <2>1, <2>2, <2>3, <2>5, SeerSteps DEF Fits, SeePlaces, Places, WithRow
<1>3. CASE sight # NoRecord
  BY <1>0, <1>1, <1>3, EndsKeeps
<1>4. QED
  BY <1>2, <1>3

\* The task's id goes into the row; the row says nothing is cached until the end.
LEMMA StartSightKeeps ==
    ASSUME TowerInv, NEW x \in Job, StartSight(x)
    PROVE  TowerInv'
<1> DEFINE r == [crew[x].row EXCEPT !.task = x]
<1>0. /\ At(x, "start") /\ x[1] = "see" /\ UNCHANGED <<listing, rasterOf, nearby>>
      /\ SaveSight(x, r, "raster")
  BY DEF StartSight
<1>1. /\ TowerTypeOK /\ crew[x] \in Member /\ Underway(x) /\ crew[x].at = "start"
      /\ UNCHANGED <<mishap, askable, mast, ask>> /\ rasterOf \in Nat
      /\ crew[x].row \in SightRow /\ sight \in {NoRecord} \cup SightRow
      /\ nearby \subseteq [by : Job, area : Nat, seen : Nat]
  BY <1>0, SeerFacts DEF Places, WithRow
<1>2. r \in SightRow /\ r.hash = crew[x].row.hash /\ r.id = crew[x].row.id
      /\ r.tiles = crew[x].row.tiles
  BY <1>1 DEF SightRow
<1> HIDE DEF r
<1>3. CASE Becomes(x, "failed") /\ sight' = sight
  BY <1>0, <1>1, <1>3, EndsKeeps
<1>4. CASE ~ (Becomes(x, "failed") /\ sight' = sight)
  <2>1. /\ sight' \in SightRow /\ sight'.id = r.id /\ sight'.task = r.task /\ sight'.hash = r.hash
        /\ sight'.tiles = IF sight = NoRecord THEN 0 ELSE sight.tiles
        /\ \E c \in Member : /\ crew' = [crew EXCEPT ![x] = c] /\ c.at = "raster"
                             /\ c.row = r /\ c.form = crew[x].form
    BY <1>0, <1>1, <1>2, <1>4, SaveSightIs DEF SeePlaces, Places
  <2>2. PICK c \in Member : /\ crew' = [crew EXCEPT ![x] = c] /\ c.at = "raster"
                            /\ c.row = r /\ c.form = crew[x].form
    BY <2>1
  <2>3. ASSUME SeeState(x), crew'[x] = c PROVE SightKept' /\ SeeState(x)'
    <3>1. crew[x].form = mast /\ crew[x].row.hash = 0 /\ sight = crew[x].row
      BY <1>1, <2>3 DEF SeeState
    <3>2. sight # NoRecord
      BY <1>1, <3>1, RowsAreThere
    <3>3. sight' = r
      BY <1>2, <2>1, <3>1, <3>2 DEF SightRow
    <3>4. SightKept'
      BY <1>2, <3>1, <3>3 DEF SightKept
    <3>5. SeeState(x)'
      BY <1>1, <1>2, <2>2, <2>3, <3>1, <3>3 DEF SeeState
    <3>6. QED
      BY <3>4, <3>5
  <2>4. QED
    BY <1>0, <1>1, <1>2, <2>1, <2>2, <2>3, SeerSteps DEF Fits, SeePlaces, Places, WithRow
<1>5. QED
  BY <1>3, <1>4

\* The raster, while no hash says that it is there.
LEMMA WriteRasterKeeps ==
    ASSUME TowerInv, NEW x \in Job, WriteRaster(x)
    PROVE  TowerInv'
<1>0. /\ At(x, "raster") /\ UNCHANGED <<listing, sight, nearby>>
      /\ Becomes(x, "tiles")
      /\ rasterOf' = crew[x].form \/ ("lose" \in mishap /\ rasterOf' = rasterOf)
  BY DEF WriteRaster
<1>1. /\ TowerTypeOK /\ crew[x] \in Member /\ x[1] = "see" /\ Underway(x) /\ crew[x].at = "raster"
      /\ UNCHANGED <<mishap, askable, mast, ask>> /\ crew[x].form \in Nat /\ rasterOf' \in Nat
      /\ crew[x].row \in SightRow /\ sight \in {NoRecord} \cup SightRow
      /\ nearby \subseteq [by : Job, area : Nat, seen : Nat]
  BY <1>0, SeerFacts DEF Places, WithRow
<1>2. PICK c \in Member : /\ crew' = [crew EXCEPT ![x] = c] /\ c.at = "tiles"
                          /\ c.form = crew[x].form /\ c.row = crew[x].row
  BY <1>0, <1>1, BecomesIs DEF Places
<1>3. ASSUME SeeState(x), crew'[x] = c PROVE SightKept' /\ SeeState(x)'
  <2>1. crew[x].form = mast /\ crew[x].row.hash = 0 /\ sight = crew[x].row
    BY <1>1, <1>3 DEF SeeState
  <2>2. SightKept'
    BY <1>0, <2>1 DEF SightKept
  <2>3. SeeState(x)'
    BY <1>0, <1>1, <1>2, <1>3, <2>1 DEF SeeState, OwnRaster
  <2>4. QED
    BY <2>2, <2>3
<1>4. QED
  BY <1>0, <1>1, <1>2, <1>3, SeerSteps DEF Fits, SeePlaces, Places, WithRow

\* The tiles of the row that is there.
LEMMA WriteTilesKeeps ==
    ASSUME TowerInv, NEW x \in Job, WriteTiles(x)
    PROVE  TowerInv'
<1>0. /\ At(x, "tiles") /\ UNCHANGED <<listing, rasterOf, nearby>>
      /\ IF sight # NoRecord /\ sight.id = crew[x].row.id
         THEN sight' = [sight EXCEPT !.tiles = crew[x].form] /\ Becomes(x, "hash")
         ELSE Becomes(x, "failed") /\ UNCHANGED sight
  BY DEF WriteTiles
<1>1. /\ TowerTypeOK /\ crew[x] \in Member /\ x[1] = "see" /\ Underway(x) /\ crew[x].at = "tiles"
      /\ UNCHANGED <<mishap, askable, mast, ask>> /\ crew[x].form \in Nat /\ rasterOf \in Nat
      /\ crew[x].row \in SightRow /\ sight \in {NoRecord} \cup SightRow
      /\ nearby \subseteq [by : Job, area : Nat, seen : Nat]
  BY <1>0, SeerFacts DEF Places, WithRow
<1>2. CASE sight # NoRecord /\ sight.id = crew[x].row.id
  <2>1. /\ sight' = [sight EXCEPT !.tiles = crew[x].form] /\ Becomes(x, "hash")
    BY <1>0, <1>2
  <2>2. /\ sight' \in SightRow /\ sight'.hash = sight.hash
    BY <1>1, <1>2, <2>1 DEF SightRow
  <2>3. PICK c \in Member : /\ crew' = [crew EXCEPT ![x] = c] /\ c.at = "hash"
                            /\ c.form = crew[x].form /\ c.row = crew[x].row
    BY <1>1, <2>1, BecomesIs DEF Places
  <2>4. ASSUME SeeState(x), crew'[x] = c PROVE SightKept' /\ SeeState(x)'
    <3>1. crew[x].form = mast /\ crew[x].row.hash = 0 /\ sight = crew[x].row /\ OwnRaster
      BY <1>1, <2>4 DEF SeeState
    <3>2. SightKept'
      BY <2>2, <3>1 DEF SightKept
    <3>3. sight' = [c.row EXCEPT !.tiles = mast']
      BY <1>1, <2>1, <2>3, <3>1
    <3>4. SeeState(x)'
      BY <1>0, <1>1, <2>3, <2>4, <3>1, <3>3 DEF SeeState, OwnRaster
    <3>5. QED
      BY <3>2, <3>4
  <2>5. QED
    BY <1>0, <1>1, <2>2, <2>3, <2>4, SeerSteps DEF Fits, SeePlaces, Places, WithRow
<1>3. CASE ~ (sight # NoRecord /\ sight.id = crew[x].row.id)
  BY <1>0, <1>1, <1>3, EndsKeeps
<1>4. QED
  BY <1>2, <1>3

\* cache_result, with the work done.
LEMMA FinishSightKeeps ==
    ASSUME TowerInv, NEW x \in Job, FinishSight(x)
    PROVE  TowerInv'
<1> DEFINE r == [crew[x].row EXCEPT !.hash = crew[x].form]
<1>0. /\ At(x, "hash") /\ x[1] = "see" /\ UNCHANGED <<listing, rasterOf, nearby>>
      /\ SaveSight(x, r, "load")
  BY DEF FinishSight
<1>1. /\ TowerTypeOK /\ crew[x] \in Member /\ Underway(x) /\ crew[x].at = "hash"
      /\ UNCHANGED <<mishap, askable, mast, ask>> /\ crew[x].form \in Nat /\ rasterOf \in Nat
      /\ crew[x].row \in SightRow /\ sight \in {NoRecord} \cup SightRow
      /\ nearby \subseteq [by : Job, area : Nat, seen : Nat]
  BY <1>0, SeerFacts DEF Places, WithRow
<1>2. r \in SightRow /\ r.hash = crew[x].form /\ r.id = crew[x].row.id
  BY <1>1 DEF SightRow
<1> HIDE DEF r
<1>3. CASE Becomes(x, "failed") /\ sight' = sight
  BY <1>0, <1>1, <1>3, EndsKeeps
<1>4. CASE ~ (Becomes(x, "failed") /\ sight' = sight)
  <2>1. /\ sight' \in SightRow /\ sight'.hash = r.hash
        /\ sight'.tiles = IF sight = NoRecord THEN 0 ELSE sight.tiles
        /\ \E c \in Member : /\ crew' = [crew EXCEPT ![x] = c] /\ c.at = "load"
                             /\ c.row = r /\ c.form = crew[x].form
    BY <1>0, <1>1, <1>2, <1>4, SaveSightIs DEF SeePlaces, Places
  <2>2. PICK c \in Member : /\ crew' = [crew EXCEPT ![x] = c] /\ c.at = "load"
                            /\ c.row = r /\ c.form = crew[x].form
    BY <2>1
  <2>3. ASSUME SeeState(x), crew'[x] = c PROVE SightKept' /\ SeeState(x)'
    <3>1. crew[x].form = mast /\ OwnRaster /\ sight = [crew[x].row EXCEPT !.tiles = mast]
      BY <1>1, <2>3 DEF SeeState
    <3>2. sight # NoRecord /\ sight.tiles = mast
      <4>1. sight \in SightRow /\ sight.tiles = mast
        BY <1>1, <3>1 DEF SightRow
      <4>2. QED
        BY <4>1, RowsAreThere
    <3>3. sight'.hash = mast' /\ sight'.tiles = mast' /\ sight' # NoRecord /\ OwnRaster'
      BY <1>0, <1>1, <1>2, <2>1, <3>1, <3>2, RowsAreThere DEF OwnRaster
    <3>4. SightKept' /\ OwnSight'
      BY <3>3 DEF SightKept, OwnSight, OwnRaster
    <3>5. SeeState(x)'
      BY <1>1, <2>2, <2>3, <3>1, <3>3, <3>4 DEF SeeState
    <3>6. QED
      BY <3>4, <3>5
  <2>4. QED
    BY <1>0, <1>1, <1>2, <2>1, <2>2, <2>3, SeerSteps DEF Fits, SeePlaces, Places, WithRow
<1>5. QED
  BY <1>3, <1>4

------------------------------------------------------------------------------
(* calculateCoverage *)

\* The raster in S3 is the tower's by then, if it was not lost.
LEMMA LoadRasterKeeps ==
    ASSUME TowerInv, NEW x \in Job, LoadRaster(x)
    PROVE  TowerInv'
<1>0. /\ At(x, "load") /\ UNCHANGED <<listing, sight, rasterOf, nearby>>
      /\ IF sight # NoRecord /\ rasterOf # 0
         THEN crew' = [crew EXCEPT ![x].at = "judge", ![x].form = rasterOf]
         ELSE Becomes(x, "failed")
  BY DEF LoadRaster
<1>1. /\ TowerTypeOK /\ crew[x] \in Member /\ crew \in [Job -> Member] /\ x[1] = "see"
      /\ Underway(x) /\ crew[x].at = "load"
      /\ UNCHANGED <<mishap, askable, mast, ask>> /\ rasterOf \in Nat
      /\ sight \in {NoRecord} \cup SightRow
      /\ nearby \subseteq [by : Job, area : Nat, seen : Nat]
  BY <1>0, SeerFacts DEF Places
<1>2. CASE sight # NoRecord /\ rasterOf # 0
  <2> DEFINE c == [crew[x] EXCEPT !.at = "judge", !.form = rasterOf]
  <2>1. crew' = [crew EXCEPT ![x] = c]
    BY <1>0, <1>1, <1>2
  <2>2. c \in Member /\ c.at = "judge" /\ c.form = rasterOf
    BY <1>1 DEF Member, Places
  <2> HIDE DEF c
  <2>3. ASSUME SightKept, SeeState(x), crew'[x] = c PROVE SightKept' /\ SeeState(x)'
    <3>1. OwnRaster /\ OwnSight
      BY <1>1, <2>3 DEF SeeState
    <3>2. SightKept' /\ OwnSight' /\ OwnRaster'
      BY <1>0, <1>1, <2>3, <3>1 DEF SightKept, OwnSight, OwnRaster
    <3>3. SeeState(x)'
      BY <1>0, <1>1, <1>2, <2>2, <2>3, <3>2 DEF SeeState
    <3>4. QED
      BY <3>2, <3>3
  <2>4. QED
    BY <1>0, <1>1, <2>1, <2>2, <2>3, SeerSteps DEF Fits, SeePlaces, Places, WithRow
<1>3. CASE ~ (sight # NoRecord /\ rasterOf # 0)
  BY <1>0, <1>1, <1>3, EndsKeeps
<1>4. QED
  BY <1>2, <1>3

\* What is listed by now is what will be judged.
LEMMA ListToJudgeKeeps ==
    ASSUME TowerInv, NEW x \in Job, ListToJudge(x)
    PROVE  TowerInv'
<1> DEFINE todo == {b.by : b \in nearby}
           early == crew[<<"list", x[2]>>].at # "done"
           c == [crew[x] EXCEPT !.at = "save", !.todo = todo, !.early = early]
<1>0. At(x, "judge") /\ UNCHANGED <<listing, sight, rasterOf, nearby>>
  BY DEF ListToJudge
<1>1. /\ TowerTypeOK /\ crew[x] \in Member /\ crew \in [Job -> Member] /\ x[1] = "see"
      /\ Underway(x) /\ crew[x].at = "judge"
      /\ UNCHANGED <<mishap, askable, mast, ask>> /\ rasterOf \in Nat
      /\ sight \in {NoRecord} \cup SightRow
      /\ nearby \subseteq [by : Job, area : Nat, seen : Nat]
  BY <1>0, SeerFacts DEF Places
<1>2. CASE listing = NoRecord
  <2>1. Becomes(x, "failed")
    BY <1>2 DEF ListToJudge
  <2>2. QED
    BY <1>0, <1>1, <2>1, EndsKeeps
<1>3. CASE listing # NoRecord
  <2>1. crew' = [crew EXCEPT ![x] = c]
    BY <1>1, <1>3 DEF ListToJudge
  <2>2. todo \subseteq Job
    BY <1>1
  <2>3. c \in Member /\ c.at = "save" /\ c.form = crew[x].form /\ c.todo = todo /\ c.early = early
    BY <1>1, <2>2 DEF Member, Places
  <2>4. \A b \in nearby : b.by \in todo
    OBVIOUS
  <2> HIDE DEF c, todo
  <2>5. ASSUME SightKept, SeeState(x), crew'[x] = c,
               crew'[<<"list", x[2]>>] = crew[<<"list", x[2]>>]
        PROVE  SightKept' /\ SeeState(x)'
    <3>1. OwnRaster /\ OwnSight /\ crew[x].form = rasterOf /\ rasterOf # 0
      BY <1>1, <2>5 DEF SeeState
    <3>2. SightKept' /\ OwnSight' /\ OwnRaster'
      BY <1>0, <1>1, <2>5, <3>1 DEF SightKept, OwnSight, OwnRaster
    <3>3. ~ c.early => crew'[<<"list", x[2]>>].at = "done"
      BY <2>3, <2>5
    <3>4. SeeState(x)'
      BY <1>0, <1>1, <2>3, <2>4, <2>5, <3>1, <3>2, <3>3 DEF SeeState
    <3>5. QED
      BY <3>2, <3>4
  <2>6. QED
    BY <1>0, <1>1, <2>1, <2>3, <2>5, SeerSteps DEF Fits, SeePlaces, Places, WithRow
<1>4. QED
  BY <1>2, <1>3

\* A verdict by the raster that was loaded, or the end.
LEMMA JudgeKeeps ==
    ASSUME TowerInv, NEW x \in Job, Judge(x)
    PROVE  TowerInv'
<1>0. At(x, "save") /\ UNCHANGED <<listing, sight, rasterOf>>
  BY DEF Judge
<1>1. /\ TowerTypeOK /\ crew[x] \in Member /\ crew \in [Job -> Member] /\ x[1] = "see"
      /\ Underway(x) /\ crew[x].at = "save" /\ crew[x].form \in Nat
      /\ UNCHANGED <<mishap, askable, mast, ask>> /\ rasterOf \in Nat
      /\ sight \in {NoRecord} \cup SightRow
      /\ nearby \subseteq [by : Job, area : Nat, seen : Nat]
  BY <1>0, SeerFacts DEF Places
<1>2. ASSUME SightKept, SeeState(x)
      PROVE  /\ SightKept' /\ OwnSight' /\ OwnRaster'
             /\ crew[x].form = rasterOf /\ rasterOf # 0
             /\ ~ crew[x].early => /\ crew[<<"list", x[2]>>].at = "done"
                                   /\ \A b \in nearby : b.by \in crew[x].todo \/ b.seen = rasterOf
  BY <1>0, <1>1, <1>2 DEF SeeState, SightKept, OwnSight, OwnRaster
<1>3. CASE crew[x].todo = {}
  <2>1. Becomes(x, "done") /\ nearby' = nearby
    BY <1>3 DEF Judge
  <2>2. PICK c \in Member : /\ crew' = [crew EXCEPT ![x] = c] /\ c.at = "done"
                            /\ c.early = crew[x].early
    BY <1>1, <2>1, BecomesIs DEF Places
  <2>3. ASSUME SightKept, SeeState(x), crew'[x] = c,
               crew'[<<"list", x[2]>>] = crew[<<"list", x[2]>>]
        PROVE  SightKept' /\ SeeState(x)'
    <3>1. SeeState(x)'
      BY <1>0, <1>1, <1>2, <1>3, <2>1, <2>2, <2>3 DEF SeeState
    <3>2. QED
      BY <1>2, <2>3, <3>1
  <2>4. QED
    BY <1>0, <1>1, <2>1, <2>2, <2>3, SeerSteps DEF Fits, SeePlaces, Places, WithRow
<1>4. CASE crew[x].todo # {}
  <2>1. PICK t \in crew[x].todo :
              IF t \in {b.by : b \in nearby}
              THEN /\ nearby' = {IF b.by = t THEN [b EXCEPT !.seen = crew[x].form] ELSE b : b \in nearby}
                   /\ crew' = [crew EXCEPT ![x].todo = @ \ {t}]
              ELSE Becomes(x, "failed") /\ UNCHANGED nearby
    BY <1>4 DEF Judge
  <2>2. CASE t \in {b.by : b \in nearby}
    <3> DEFINE judged(b) == IF b.by = t THEN [b EXCEPT !.seen = crew[x].form] ELSE b
               c == [crew[x] EXCEPT !.todo = crew[x].todo \ {t}]
    <3>1. crew' = [crew EXCEPT ![x] = c] /\ nearby' = {judged(b) : b \in nearby}
      BY <1>1, <2>1, <2>2
    <3>2. /\ c \in Member /\ c.at = "save" /\ c.form = crew[x].form
          /\ c.todo = crew[x].todo \ {t} /\ c.early = crew[x].early
      BY <1>1 DEF Member
    <3>3. ASSUME NEW b \in nearby
          PROVE  /\ judged(b) \in [by : Job, area : Nat, seen : Nat] /\ judged(b).area = b.area
                 /\ judged(b).by = b.by
                 /\ judged(b).seen = IF b.by = t THEN crew[x].form ELSE b.seen
      BY <1>1
    <3> HIDE DEF c, judged
    <3>4. /\ nearby' \subseteq [by : Job, area : Nat, seen : Nat]
          /\ nearby' = {} <=> nearby = {}
          /\ \A b \in nearby' : \E d \in nearby : b.area = d.area
      BY <3>1, <3>3
    <3>5. ASSUME SightKept, SeeState(x), crew'[x] = c,
                 crew'[<<"list", x[2]>>] = crew[<<"list", x[2]>>]
          PROVE  SightKept' /\ SeeState(x)'
      <4>1. ~ c.early => \A b \in nearby' : b.by \in c.todo \/ b.seen = rasterOf
        BY <1>2, <3>1, <3>2, <3>3, <3>5
      <4>2. SeeState(x)'
        BY <1>0, <1>1, <1>2, <3>2, <3>5, <4>1 DEF SeeState
      <4>3. QED
        BY <1>2, <3>5, <4>2
    <3>6. QED
      BY <1>0, <1>1, <3>1, <3>2, <3>4, <3>5, SeerSteps DEF Fits, SeePlaces, Places, WithRow
  <2>3. CASE t \notin {b.by : b \in nearby}
    BY <1>0, <1>1, <2>1, <2>3, EndsKeeps
  <2>4. QED
    BY <2>2, <2>3
<1>5. QED
  BY <1>3, <1>4

------------------------------------------------------------------------------
(* The page and the consumer *)

\* When nobody is at work, the tasks of the last request have ended.
LEMMA AtRest ==
    ASSUME TowerTypeOK, OneRequest, NoneAtWork, ask.n # 0
    PROVE  /\ Lister \in Job /\ Seer \in Job
           /\ crew[Lister].at \in {"done", "failed", "killed"}
           /\ crew[Seer].at \in {"done", "failed", "killed"}
<1>1. ask.n \in 1 .. MaxAsks
  <2>1. ask.n \in Nat /\ askable \in Nat /\ ask.n + askable <= MaxAsks /\ MaxAsks \in Nat
    BY TowerAssumption DEF TowerTypeOK
  <2>2. QED
    BY <2>1
<1>2. Lister \in Job /\ Seer \in Job /\ Lister[2] = ask.n /\ Seer[2] = ask.n
  BY <1>1, JobIs DEF Lister, Seer
<1>3. crew[Lister].at # "unborn" /\ crew[Seer].at # "unborn"
  BY <1>1, <1>2 DEF OneRequest
<1>4. QED
  BY <1>2, <1>3 DEF NoneAtWork, Underway

\* Another form: what was listed and seen is of the one before, until the page asks.
LEMMA ChangeTowerKeeps ==
    ASSUME TowerInv, NEW f \in Forms, ChangeTower(f)
    PROVE  TowerInv'
<1>1. /\ f \in Nat /\ f # 0 /\ mast' = f /\ mast # 0
      /\ ask' = [ask EXCEPT !.owed = TRUE]
      /\ "impatient" \in mishap \/ NoneAtWork
      /\ UNCHANGED <<mishap, askable, listing, sight, rasterOf, nearby, crew>>
  BY TowerAssumption DEF ChangeTower, MayTurn
<1>2. TowerTypeOK /\ ask \in [n : Nat, owed : BOOLEAN, heard : Nat]
  BY DEF TowerInv, TowerTypeOK
<1>3. /\ ask' \in [n : Nat, owed : BOOLEAN, heard : Nat] /\ ask'.n = ask.n /\ ask'.owed
  BY <1>1, <1>2
<1>4. TowerTypeOK'
  BY <1>1, <1>2, <1>3 DEF TowerTypeOK
<1>5. ASSUME Calm' PROVE OneRequest' /\ Listed' /\ Seen'
  <2>1. Calm /\ NoneAtWork /\ OneRequest /\ Listed /\ Seen
    BY <1>1, <1>5 DEF Calm, TowerInv
  <2>2. OneRequest'
    BY <1>1, <1>3, <2>1 DEF OneRequest, NoneAtWork, Underway
  <2>3. CASE ask.n = 0
    BY <1>1, <1>3, <2>1, <2>2, <2>3
       DEF Listed, ListsFine, NothingListed, Seen, SightKept
  <2>4. CASE ask.n # 0
    <3>1. crew[Lister].at \in {"done", "failed", "killed"} /\ Lister \in Job
          /\ crew[Seer].at \in {"done", "failed", "killed"} /\ Lister[1] = "list"
      BY <1>2, <2>1, <2>4, AtRest DEF Lister
    <3>2. ASSUME ListsFine' PROVE ListState(Lister)'
      <4>1. ListsFine /\ ListState(Lister) /\ Lister' = Lister
        BY <1>1, <1>3, <2>1, <2>4, <3>2 DEF ListsFine, Listed, Lister
      <4>2. crew[Lister].at = "done"
        BY <3>1, <4>1 DEF ListsFine
      <4>3. WellListed'
        BY <1>1, <4>1, <4>2 DEF ListState, WellListed
      <4>4. QED
        BY <1>1, <1>3, <4>1, <4>2, <4>3 DEF ListState
    <3>3. SeeState(Seer)'
      <4>1. SeeState(Seer) /\ Seer' = Seer
        BY <1>3, <2>1, <2>4 DEF Seen, Seer
      <4>2. QED
        BY <1>1, <1>3, <3>1, <4>1 DEF SeeState
    <3>4. SightKept'
      BY <1>1, <2>1 DEF Seen, SightKept
    <3>5. QED
      BY <1>3, <2>2, <2>4, <3>2, <3>3, <3>4 DEF Listed, Seen, Lister, Seer
  <2>5. QED
    BY <2>3, <2>4
<1>6. QED
  BY <1>4, <1>5 DEF TowerInv

\* Two tasks more.
LEMMA StartBothIs ==
    ASSUME TowerTypeOK, askable > 0, askable' = askable - 1, StartBoth(ask.n + 1),
           ask' \in [n : Nat, owed : BOOLEAN, heard : Nat], ask'.n = ask.n + 1,
           UNCHANGED <<mast, listing, sight, rasterOf, nearby>>
    PROVE  /\ TowerTypeOK' /\ Lister' \in Job /\ Seer' \in Job
           /\ \A x \in Job : IF x[2] = ask.n + 1 THEN crew'[x].at = "queued"
                                                 ELSE crew'[x] = crew[x]
<1> DEFINE q == [Unborn EXCEPT !.at = "queued"]
<1>1. q \in Member /\ q.at = "queued" /\ \A x \in Job : Fits(x, q)
  BY DEF Unborn, Member, Places, Fits, ListPlaces, SeePlaces, WithRow
<1>2. ask.n + 1 \in 1 .. MaxAsks /\ askable' \in Nat /\ ask'.n + askable' <= MaxAsks
  BY TowerAssumption DEF TowerTypeOK
<1>3. \A x \in Job : x \in TasksOf(ask.n + 1) <=> x[2] = ask.n + 1
  BY <1>2, JobIs DEF TasksOf
<1>4. crew' = [x \in Job |-> IF x \in TasksOf(ask.n + 1) THEN q ELSE crew[x]]
  BY DEF StartBoth
<1> HIDE DEF q
<1>5. \A x \in Job : crew'[x] = IF x[2] = ask.n + 1 THEN q ELSE crew[x]
  BY <1>3, <1>4
<1>6. crew' \in [Job -> Member] /\ \A x \in Job : Fits(x, crew'[x])
  BY <1>1, <1>4, <1>5 DEF TowerTypeOK
<1>7. Lister' \in Job /\ Seer' \in Job
  BY <1>2, JobIs DEF Lister, Seer
<1>8. QED
  BY <1>1, <1>2, <1>5, <1>6, <1>7 DEF TowerTypeOK

\* receive_json, when nothing runs any more.
LEMMA AskCoverageKeeps ==
    ASSUME TowerInv, AskCoverage
    PROVE  TowerInv'
<1>1. /\ mast # 0 /\ ("impatient" \in mishap \/ NoneAtWork)
      /\ askable > 0 /\ askable' = askable - 1 /\ StartBoth(ask.n + 1)
      /\ ask' = [n |-> ask.n + 1, owed |-> FALSE, heard |-> ask.n + 1]
      /\ UNCHANGED <<mishap, mast, listing, sight, rasterOf, nearby>>
  BY DEF AskCoverage, MayTurn
<1>2. TowerTypeOK /\ ask.n \in Nat
  BY DEF TowerInv, TowerTypeOK
<1>3. /\ ask' \in [n : Nat, owed : BOOLEAN, heard : Nat] /\ ask'.n = ask.n + 1 /\ ~ ask'.owed
      /\ ask'.n # 0
  BY <1>1, <1>2
<1>4. /\ TowerTypeOK' /\ Lister' \in Job /\ Seer' \in Job
      /\ \A x \in Job : IF x[2] = ask.n + 1 THEN crew'[x].at = "queued" ELSE crew'[x] = crew[x]
  BY <1>1, <1>2, <1>3, StartBothIs
<1>5. Lister'[1] = "list" /\ Lister'[2] = ask.n + 1 /\ Seer'[2] = ask.n + 1
  BY <1>3 DEF Lister, Seer
<1>6. crew'[Lister'].at = "queued" /\ crew'[Seer'].at = "queued"
  BY <1>4, <1>5
<1>7. ASSUME Calm' PROVE OneRequest' /\ Listed' /\ Seen'
  <2>1. Calm /\ NoneAtWork /\ OneRequest /\ Listed /\ Seen
    BY <1>1, <1>7 DEF Calm, TowerInv
  <2>2. OneRequest'
    <3>1. ASSUME NEW x \in Job, Underway(x)' PROVE x[2] = ask'.n /\ ~ ask'.owed
      BY <1>3, <1>4, <2>1, <3>1 DEF NoneAtWork, Underway
    <3>2. ASSUME NEW x \in Job PROVE x[2] <= ask'.n <=> crew'[x].at # "unborn"
      <4>1. x[2] \in Nat /\ (x[2] <= ask.n <=> crew[x].at # "unborn")
        BY <2>1, JobIs DEF OneRequest
      <4>2. QED
        BY <1>2, <1>3, <1>4, <4>1
    <3>3. QED
      BY <3>1, <3>2 DEF OneRequest
  <2>3. ASSUME ListsFine' PROVE ListState(Lister)'
    <3>1. ListsFine
      <4>1. SUFFICES ASSUME NEW x \in Job, x[1] = "list", crew[x].at \in {"failed", "killed"},
                            x[2] = ask.n + 1
                     PROVE  FALSE
        BY <1>4, <2>3 DEF ListsFine
      <4>2. crew[x].at = "unborn"
        BY <1>2, <2>1, <4>1 DEF OneRequest
      <4>3. QED
        BY <4>1, <4>2
    <3>2. NothingListed \/ WellListed
      <4>1. CASE ask.n = 0
        BY <2>1, <3>1, <4>1 DEF Listed
      <4>2. CASE ask.n # 0
        <5>1. crew[Lister].at = "done" /\ ListState(Lister)
          BY <1>2, <2>1, <3>1, <4>2, AtRest DEF ListsFine, Listed, Lister
        <5>2. QED
          BY <5>1 DEF ListState
      <4>3. QED
        BY <4>1, <4>2
    <3>3. (NothingListed \/ WellListed)'
      BY <1>1, <3>2 DEF NothingListed, WellListed
    <3>4. QED
      BY <1>6, <3>3 DEF ListState
  <2>4. SightKept' /\ SeeState(Seer)'
    BY <1>1, <1>6, <2>1 DEF Seen, SightKept, SeeState
  <2>5. QED
    BY <1>3, <2>2, <2>3, <2>4 DEF Listed, Seen, Lister, Seer
<1>8. QED
  BY <1>4, <1>7 DEF TowerInv

\* Nothing of this depends on which task the consumer can cancel.
LEMMA NothingMoves ==
    ASSUME TowerInv, ask' \in [n : Nat, owed : BOOLEAN, heard : Nat],
           ask'.n = ask.n, ask'.owed = ask.owed,
           UNCHANGED <<mishap, askable, mast, listing, sight, rasterOf, nearby, crew>>
    PROVE  TowerInv'
<1>1. TowerTypeOK'
  BY DEF TowerInv, TowerTypeOK
<1>2. ASSUME Calm' PROVE OneRequest' /\ Listed' /\ Seen'
  <2>1. Calm /\ OneRequest /\ Listed /\ Seen
    BY <1>2 DEF Calm, TowerInv
  <2>2. OneRequest'
    BY <2>1 DEF OneRequest, Underway
  <2>3. /\ ListsFine' => ListsFine
        /\ NothingListed => NothingListed'
        /\ WellListed => WellListed'
        /\ OwnSight => OwnSight'
        /\ SightKept => SightKept'
        /\ OwnRaster => OwnRaster'
        /\ Lister' = Lister /\ Seer' = Seer
    BY DEF ListsFine, NothingListed, WellListed, OwnSight, SightKept, OwnRaster, Lister, Seer
  <2>4. ListState(Lister) => ListState(Lister)'
    BY <2>3 DEF ListState
  <2>5. SeeState(Seer) => SeeState(Seer)'
    BY <2>3 DEF SeeState
  <2>6. Listed'
    BY <2>1, <2>3, <2>4 DEF Listed, Lister
  <2>7. Seen'
    BY <2>1, <2>3, <2>5 DEF Seen, Seer
  <2>8. QED
    BY <2>2, <2>6, <2>7
<1>3. QED
  BY <1>1, <1>2 DEF TowerInv

\* A request of another page, a lost connection and a deletion.
LEMMA OthersKeep ==
    ASSUME TowerInv, AskElsewhere \/ Disconnect \/ RemoveTower
    PROVE  TowerInv'
<1>1. /\ TowerTypeOK /\ ask \in [n : Nat, owed : BOOLEAN, heard : Nat]
  BY DEF TowerInv, TowerTypeOK
<1>2. CASE AskElsewhere
  <2>1. /\ "elsewhere" \in mishap /\ askable > 0 /\ askable' = askable - 1 /\ StartBoth(ask.n + 1)
        /\ ask' = [ask EXCEPT !.n = @ + 1]
        /\ UNCHANGED <<mishap, mast, listing, sight, rasterOf, nearby>>
    BY <1>2 DEF AskElsewhere
  <2>2. ask' \in [n : Nat, owed : BOOLEAN, heard : Nat] /\ ask'.n = ask.n + 1
    BY <1>1, <2>1
  <2>3. TowerTypeOK' /\ ~ Calm'
    BY <1>1, <2>1, <2>2, StartBothIs DEF Calm
  <2>4. QED
    BY <2>3 DEF TowerInv
<1>3. CASE Disconnect
  <2>1. /\ ask' = [ask EXCEPT !.heard = 0]
        /\ UNCHANGED <<mishap, askable, mast, listing, sight, rasterOf, nearby, crew>>
    BY <1>3 DEF Disconnect
  <2>2. ask' \in [n : Nat, owed : BOOLEAN, heard : Nat] /\ ask'.n = ask.n /\ ask'.owed = ask.owed
    BY <1>1, <2>1
  <2>3. QED
    BY <2>1, <2>2, NothingMoves
<1>4. CASE RemoveTower
  <2>1. /\ mast' = 0 /\ listing' = NoRecord /\ sight' = NoRecord /\ nearby' = {}
        /\ UNCHANGED <<mishap, askable, ask, rasterOf, crew>>
    BY <1>4 DEF RemoveTower
  <2>2. TowerTypeOK' /\ ~ Calm'
    BY <1>1, <2>1 DEF TowerTypeOK, Calm
  <2>3. QED
    BY <2>2 DEF TowerInv
<1>5. QED
  BY <1>2, <1>3, <1>4

------------------------------------------------------------------------------
(* The invariant *)

\* A new tower has no rows, no tasks and no request.
LEMMA TowerInvInit == TowerInit => TowerInv
<1> SUFFICES ASSUME TowerInit PROVE TowerInv
  OBVIOUS
<1>1. /\ mast \in Forms /\ ask = [n |-> 0, owed |-> FALSE, heard |-> 0]
      /\ listing = NoRecord /\ sight = NoRecord /\ rasterOf = 0 /\ nearby = {}
      /\ crew = [x \in Job |-> Unborn]
  BY DEF TowerInit, TowerQuiet
<1>2. askable \in 0 .. MaxAsks
  BY TowerAssumption DEF TowerInit
<1>3. Unborn \in Member /\ Unborn.at = "unborn" /\ \A x \in Job : Fits(x, Unborn)
  BY DEF Unborn, Member, Places, Fits, ListPlaces, SeePlaces, WithRow
<1>4. TowerTypeOK
  BY <1>1, <1>2, <1>3, TowerAssumption DEF TowerTypeOK
<1>5. OneRequest
  BY <1>1, <1>3, JobIs DEF OneRequest, Underway
<1>6. Listed /\ Seen
  BY <1>1 DEF Listed, NothingListed, Seen, SightKept
<1>7. QED
  BY <1>4, <1>5, <1>6 DEF TowerInv

\* Every step keeps it.
LEMMA TowerInvStep == TowerInv /\ [TowerNext]_towerVars => TowerInv'
<1> SUFFICES ASSUME TowerInv, [TowerNext]_towerVars PROVE TowerInv'
  OBVIOUS
<1>1. CASE AskCoverage
  BY <1>1, AskCoverageKeeps
<1>2. CASE AskElsewhere \/ Disconnect \/ RemoveTower
  BY <1>2, OthersKeep
<1>3. ASSUME NEW f \in Forms, ChangeTower(f) PROVE TowerInv'
  BY <1>3, ChangeTowerKeeps
<1>4. ASSUME NEW x \in Job, TowerTask(x) PROVE TowerInv'
  BY <1>4, GetTowerKeeps, GetListingKeeps, StartListingKeeps, CheckListingKeeps, ClearNearbyKeeps,
     FillNearbyKeeps, FinishListingKeeps, GetSightKeeps, DropSightKeeps, InsertSightKeeps,
     StartSightKeeps, WriteRasterKeeps, WriteTilesKeeps, FinishSightKeeps, LoadRasterKeeps,
     ListToJudgeKeeps, JudgeKeeps DEF TowerTask
<1>5. ASSUME NEW x \in Job, Fails(x) \/ Stopped(x) PROVE TowerInv'
  <2>1. /\ Underway(x) /\ (Becomes(x, "failed") \/ Becomes(x, "killed"))
        /\ UNCHANGED <<mishap, askable, mast, ask, listing, sight, rasterOf, nearby>>
    BY <1>5 DEF Fails, Stopped
  <2>2. QED
    BY <2>1, EndsKeeps
<1>6. CASE UNCHANGED towerVars
  <2>1. UNCHANGED <<mishap, askable, mast, ask, listing, sight, rasterOf, nearby, crew>>
    BY <1>6 DEF towerVars
  <2>2. ask \in [n : Nat, owed : BOOLEAN, heard : Nat]
    BY DEF TowerInv, TowerTypeOK
  <2>3. QED
    BY <2>1, <2>2, NothingMoves
<1>7. QED
  BY <1>1, <1>2, <1>3, <1>4, <1>5, <1>6 DEF TowerNext

\* When the tasks of the last request have ended well, the buildings listed before they
\* were judged, what is listed is the tower's and judged by the raster that is stored.
LEMMA TowerInvHolds == TowerInv => VerdictsAreOfTheTower
<1> SUFFICES ASSUME TowerInv, NoneAtWork, mast # 0, ask.n > 0, ~ ask.owed, EndedWell(ask.n),
                    mishap \cap {"impatient", "elsewhere"} = {},
                    \A x \in Job : x[1] = "list" => crew[x].at \notin {"failed", "killed"},
                    ~ crew[<<"see", ask.n>>].early
             PROVE  /\ listing.hash = mast /\ nearby # {}
                    /\ \A b \in nearby : b.area = mast /\ b.seen = rasterOf
                    /\ sight.hash = mast /\ sight.tiles = mast
                    /\ rasterOf # 0 /\ ("lose" \notin mishap => rasterOf = mast)
  BY DEF VerdictsAreOfTheTower
<1>1. TowerTypeOK /\ OneRequest /\ Listed /\ Seen /\ ListsFine /\ ask.n # 0
  BY DEF TowerInv, Calm, ListsFine, TowerTypeOK
<1>2. Lister \in Job /\ Seer \in Job /\ {Lister, Seer} = TasksOf(ask.n) /\ Seer[2] = ask.n
  BY <1>1, AtRest DEF Lister, Seer, TasksOf
<1>3. crew[Lister].at = "done" /\ crew[Seer].at = "done"
  BY <1>2 DEF EndedWell
<1>4. ListState(Lister) /\ SeeState(Seer) /\ ~ crew[Seer].early
  BY <1>1 DEF Listed, Seen, Lister, Seer
<1>5. WellListed /\ listing.hash = mast
  BY <1>3, <1>4 DEF ListState
<1>6. OwnSight /\ rasterOf # 0 /\ \A b \in nearby : b.seen = rasterOf
  BY <1>3, <1>4 DEF SeeState
<1>7. "lose" \notin mishap => rasterOf = mast
  BY <1>1, <1>6 DEF Seen, SightKept, OwnSight
<1>8. QED
  BY <1>5, <1>6, <1>7 DEF WellListed, OwnSight

\* However many requests came before, and whatever became of their viewsheds and uploads:
\* the buildings of a tower are its own and judged by the raster that is stored, which is
\* the tower's if no upload was lost (`computeViewshedCoverage`,
\* `generateAccessPointCoverage`, `writeS3Object`).
THEOREM TowerIsJudgedByItsRaster == TowerSpec => []VerdictsAreOfTheTower
<1>1. TowerInv /\ [TowerNext]_towerVars => TowerInv'
  BY TowerInvStep
<1>2. QED
  BY TowerInvInit, <1>1, TowerInvHolds, PTL DEF TowerSpec

(***************************************************************************)
(*                              Solar sizing                               *)
(***************************************************************************)


------------------------------------------------------------------------------
(* Numbers *)

\* What recursion along 1 .. n gives: the first value, and each next one.
Recurs(g, n, V, first, step) ==
    /\ g \in [1 .. n -> V]
    /\ \A i \in 1 .. n : g[i] = IF i = 1 THEN first ELSE step[<<g[i - 1], i - 1>>]

\* There is a function given by its first value and each next one.
LEMMA RecursionAlong ==
    ASSUME NEW n \in Nat \ {0}, NEW V, NEW first \in V,
           NEW step, \A v \in V : \A i \in 1 .. n - 1 : step[<<v, i>>] \in V
    PROVE  \E g : Recurs(g, n, V, first, step)
<1> DEFINE m == n - 1
<1>1. m \in Nat
  OBVIOUS
<1>2. PICK f : FoldSolution(f, m, V, first, step)
  <2> HIDE DEF m
  <2>1. \A v \in V : \A i \in 1 .. m : step[<<v, i>>] \in V
    BY DEF m
  <2>2. QED
    BY <1>1, <2>1, FoldExists
<1>3. FoldSolves(f, m, V, first, step)
  BY <1>1, <1>2 DEF FoldSolution, FoldSolves
<1>4. PICK v : FoldPasses(v, m, V, first, step, f[1 .. m])
  <2> HIDE DEF m
  <2>1. \A v \in V : \A i \in 1 .. m : step[<<v, i>>] \in V
    BY DEF m
  <2>2. QED
    BY <1>1, <1>3, <2>1, FoldRuns
<1> DEFINE g == [i \in 1 .. n |-> v[i - 1]]
<1>5. v \in [0 .. m -> V] /\ v[0] = first /\ \A i \in 1 .. m : v[i] = step[<<v[i - 1], i>>]
  BY <1>4 DEF FoldPasses
<1>6. g \in [1 .. n -> V]
  BY <1>5
<1>7. ASSUME NEW i \in 1 .. n PROVE g[i] = IF i = 1 THEN first ELSE step[<<g[i - 1], i - 1>>]
  <2>1. CASE i = 1
    BY <1>5, <2>1
  <2>2. CASE i # 1
    <3>1. i - 1 \in 1 .. m /\ i - 1 \in 1 .. n
      BY <2>2
    <3>2. v[i - 1] = step[<<v[i - 1 - 1], i - 1>>]
      BY <1>5, <3>1
    <3>3. g[i] = v[i - 1] /\ g[i - 1] = v[i - 1 - 1]
      BY <3>1
    <3>4. QED
      BY <2>2, <3>2, <3>3
  <2>3. QED
    BY <2>1, <2>2
<1> HIDE DEF g
<1>8. QED
  BY <1>6, <1>7 DEF Recurs

\* The promise's bounds, as a case distinction.
LEMMA Clipping ==
    ASSUME NEW cap \in Int, NEW x \in Int
    PROVE  Clipped(cap, x) = LET m == IF x < cap THEN x ELSE cap IN IF m < 0 THEN 0 ELSE m
<1>1. \A a, b \in Int : Max({a, b}) = IF a < b THEN b ELSE a
  <2> SUFFICES ASSUME NEW a \in Int, NEW b \in Int PROVE Max({a, b}) = IF a < b THEN b ELSE a
    OBVIOUS
  <2>1. \A y \in {a, b} : (\A z \in {a, b} : y >= z) <=> y = IF a < b THEN b ELSE a
    OBVIOUS
  <2>2. QED
    BY <2>1 DEF Max
<1>2. \A a, b \in Int : Min({a, b}) = IF a < b THEN a ELSE b
  <2> SUFFICES ASSUME NEW a \in Int, NEW b \in Int PROVE Min({a, b}) = IF a < b THEN a ELSE b
    OBVIOUS
  <2>1. \A y \in {a, b} : (\A z \in {a, b} : y <= z) <=> y = IF a < b THEN a ELSE b
    OBVIOUS
  <2>2. QED
    BY <2>1 DEF Min
<1> DEFINE m == Min({cap, x})
<1>3. m = IF cap < x THEN cap ELSE x
  BY <1>2
<1>4. m \in Int
  BY <1>3
<1> HIDE DEF m
<1>5. Max({0, m}) = IF 0 < m THEN m ELSE 0
  BY <1>1, <1>4
<1>6. QED
  BY <1>3, <1>5 DEF Clipped, m

------------------------------------------------------------------------------
(* The battery's energy *)

\* The change of the energy at a point of the series.
EnergyChange(power, i) == Demand(Balance(power, sizing.flux[i]))

Sizings == [site : Sites, controllers : Controllers, flux : Fluxes]

\* What the library's assumption says of the sizing asked for.
LEMMA SizingFacts ==
    ASSUME LibraryAssumption, sizing \in Sizings
    PROVE  /\ sizing.site \in [load : Nat, charge : Nat, discharge : Nat \ {0}, target : Nat, lifetime : Nat]
           /\ sizing.flux \in Seq(Nat) /\ Len(sizing.flux) \in Nat \ {0}
           /\ sizing.controllers \in Controllers
<1>1. sizing.site \in Sites /\ sizing.flux \in Seq(Nat) \ {<<>>} /\ sizing.controllers \in Controllers
  BY DEF Sizings, LibraryAssumption
<1>2. Len(sizing.flux) \in Nat \ {0}
  BY <1>1
<1>3. QED
  BY <1>1, <1>2 DEF LibraryAssumption

\* A change of the energy is a whole number, negative when the site draws on the battery.
LEMMA ChangeTyped ==
    ASSUME LibraryAssumption, sizing \in Sizings, NEW power \in Int,
           NEW i \in 1 .. Len(sizing.flux)
    PROVE  EnergyChange(power, i) \in Int
<1>1. sizing.flux[i] \in Nat /\ sizing.site.load \in Nat /\ sizing.site.charge \in Nat
      /\ sizing.site.discharge \in Nat \ {0}
  <2>1. sizing.flux \in Seq(Nat)
    BY SizingFacts
  <2>2. sizing.flux[i] \in Nat
    BY <2>1
  <2>3. QED
    BY <2>2, SizingFacts
<1> DEFINE b == Balance(power, sizing.flux[i])
<1>2. b \in Int
  BY <1>1 DEF Balance
<1> HIDE DEF b
<1>3. b * sizing.site.charge \in Int
  BY <1>1, <1>2
<1>4. (b * sizing.site.charge) \div 100 \in Int
  BY <1>3
<1>5. Ceil(-b * 100, sizing.site.discharge) \in Int
  BY <1>1, <1>2 DEF Ceil
<1>6. Demand(b) \in Int
  BY <1>4, <1>5 DEF Demand
<1>7. QED
  BY <1>6 DEF EnergyChange, b

\* What a simulation that starts with an empty battery goes through.
Simulated(h, cap, power) ==
    /\ h \in [1 .. Len(sizing.flux) -> Int]
    /\ \A i \in 1 .. Len(sizing.flux) :
          h[i] = IF i = 1 THEN 0 ELSE Stored(cap, h[i - 1], EnergyChange(power, i - 1))

\* So the script's does.
LEMMA HistoryRuns ==
    ASSUME LibraryAssumption, sizing \in Sizings, NEW power \in Int, NEW cap \in Int
    PROVE  Simulated(History(cap, power, 0), cap, power)
<1>0. PICK start \in Int : start = 0
  OBVIOUS
<1> DEFINE n == Len(sizing.flux)
           step == [p \in Int \X (1 .. n - 1) |-> Stored(cap, p[1], EnergyChange(power, p[2]))]
           Solves(f) == f = [i \in 1 .. n |-> IF i = 1 THEN start
                               ELSE Stored(cap, f[i - 1], Demand(Balance(power, sizing.flux[i - 1])))]
           f0 == CHOOSE f : Solves(f)
<1>1. n \in Nat \ {0}
  BY SizingFacts
<1>2. \A i \in 1 .. n : EnergyChange(power, i) \in Int
  BY ChangeTyped
<1>3. \A v \in Int, i \in 1 .. n - 1 : Stored(cap, v, EnergyChange(power, i)) \in Int
  <2>1. \A v, d \in Int : Stored(cap, v, d) \in Int
    BY DEF Stored, Least
  <2>2. \A i \in 1 .. n - 1 : i \in 1 .. n
    BY <1>1
  <2>3. QED
    BY <1>2, <2>1, <2>2
<1>4. \A v \in Int : \A i \in 1 .. n - 1 : step[<<v, i>>] = Stored(cap, v, EnergyChange(power, i))
  OBVIOUS
<1> HIDE DEF step, n
<1>5. PICK g : Recurs(g, n, Int, start, step)
  <2>1. \A v \in Int : \A i \in 1 .. n - 1 : step[<<v, i>>] \in Int
    BY <1>3, <1>4
  <2>2. QED
    BY <1>1, <2>1, RecursionAlong
<1>6. Solves(g)
  <2>1. \A i \in 1 .. n : g[i] = IF i = 1 THEN start ELSE Stored(cap, g[i - 1], EnergyChange(power, i - 1))
    <3>1. \A i \in 1 .. n : i # 1 => g[i - 1] \in Int /\ i - 1 \in 1 .. n - 1
      BY <1>1, <1>5 DEF Recurs
    <3>2. QED
      BY <1>4, <1>5, <3>1 DEF Recurs
  <2>2. QED
    BY <1>5, <2>1 DEF Recurs, EnergyChange
<1>7. Solves(f0)
  BY <1>6
<1>8. History(cap, power, start) = f0
  BY DEF History, n
<1> HIDE DEF f0
<1>9. /\ f0 = [i \in 1 .. n |-> f0[i]]
      /\ \A i \in 1 .. n : f0[i] = IF i = 1 THEN start ELSE Stored(cap, f0[i - 1], EnergyChange(power, i - 1))
  BY <1>7 DEF EnergyChange
<1> DEFINE S == {i \in 0 .. n : i = 0 \/ f0[i] \in Int}
<1>10. \A i \in 1 .. n : i - 1 \in S => i \in S
  <2> SUFFICES ASSUME NEW i \in 1 .. n, i - 1 \in S PROVE f0[i] \in Int
    BY <1>1
  <2>1. CASE i = 1
    BY <1>9, <2>1
  <2>2. CASE i # 1
    <3>1. f0[i - 1] \in Int /\ i - 1 \in 1 .. n - 1
      BY <1>1, <2>2
    <3>2. QED
      BY <1>3, <1>9, <2>2, <3>1
  <2>3. QED
    BY <2>1, <2>2
<1>11. 0 .. n \subseteq S
  <2>1. 0 \in S
    BY <1>1
  <2> HIDE DEF S
  <2>2. QED
    BY <1>1, <1>10, <2>1, Upwards
<1>12. f0 \in [1 .. n -> Int]
  BY <1>9, <1>11
<1>13. QED
  BY <1>0, <1>8, <1>9, <1>12 DEF n, Simulated

\* The energies of the promise, likewise.
LEMMA PromiseRuns ==
    ASSUME LibraryAssumption, sizing \in Sizings, NEW power \in Int, NEW cap \in Int
    PROVE  LET e == Promised(cap, power)
           IN  /\ e \in [1 .. Len(sizing.flux) -> Int]
               /\ \A i \in 1 .. Len(sizing.flux) :
                    e[i] = IF i = 1 THEN cap
                           ELSE Clipped(cap, e[i - 1] + EnergyChange(power, i - 1))
<1> DEFINE n == Len(sizing.flux)
           Next1(v, i) == Clipped(cap, v + EnergyChange(power, i))
           step == [p \in Int \X (1 .. n - 1) |-> Next1(p[1], p[2])]
           Solves(f) == f = [i \in 1 .. n |-> IF i = 1 THEN cap
                               ELSE Clipped(cap, f[i - 1] + Demand(Balance(power, sizing.flux[i - 1])))]
           f0 == CHOOSE f : Solves(f)
<1>1. n \in Nat \ {0}
  BY SizingFacts
<1>2. \A i \in 1 .. n : EnergyChange(power, i) \in Int
  BY ChangeTyped
<1>3. \A v \in Int, i \in 1 .. n - 1 : Next1(v, i) \in Int
  <2> SUFFICES ASSUME NEW v \in Int, NEW i \in 1 .. n - 1 PROVE Next1(v, i) \in Int
    OBVIOUS
  <2>1. v + EnergyChange(power, i) \in Int
    BY <1>1, <1>2
  <2>2. QED
    BY <2>1, Clipping
<1>4. \A v \in Int : \A i \in 1 .. n - 1 : step[<<v, i>>] = Next1(v, i)
  OBVIOUS
<1>5. \A v : \A i \in 2 .. n : Next1(v, i - 1) =
         Clipped(cap, v + Demand(Balance(power, sizing.flux[i - 1])))
  BY DEF EnergyChange
<1> HIDE DEF step, n, Next1
<1>6. PICK g : Recurs(g, n, Int, cap, step)
  <2>1. \A v \in Int : \A i \in 1 .. n - 1 : step[<<v, i>>] \in Int
    BY <1>3, <1>4
  <2>2. QED
    BY <1>1, <2>1, RecursionAlong
<1>7. Solves(g)
  <2>1. \A i \in 1 .. n : g[i] = IF i = 1 THEN cap ELSE Next1(g[i - 1], i - 1)
    <3>1. \A i \in 1 .. n : i # 1 => g[i - 1] \in Int /\ i - 1 \in 1 .. n - 1
      BY <1>1, <1>6 DEF Recurs
    <3>2. QED
      BY <1>4, <1>6, <3>1 DEF Recurs
  <2>2. \A i \in 1 .. n : i # 1 => i \in 2 .. n
    BY <1>1
  <2>3. QED
    BY <1>5, <1>6, <2>1, <2>2 DEF Recurs
<1>8. Solves(f0)
  BY <1>7
<1>9. Promised(cap, power) = f0
  BY DEF Promised, n
<1> HIDE DEF f0
<1>10. /\ f0 = [i \in 1 .. n |-> f0[i]]
       /\ \A i \in 1 .. n : f0[i] = IF i = 1 THEN cap ELSE Next1(f0[i - 1], i - 1)
  <2>1. f0 = [i \in 1 .. n |-> f0[i]]
    BY <1>8
  <2>2. ASSUME NEW i \in 1 .. n PROVE f0[i] = IF i = 1 THEN cap ELSE Next1(f0[i - 1], i - 1)
    <3>1. f0[i] = IF i = 1 THEN cap
                  ELSE Clipped(cap, f0[i - 1] + Demand(Balance(power, sizing.flux[i - 1])))
      BY <1>8
    <3>2. QED
      BY <3>1 DEF Next1, EnergyChange
  <2>3. QED
    BY <2>1, <2>2
<1> DEFINE S == {i \in 0 .. n : i = 0 \/ f0[i] \in Int}
<1>11. \A i \in 1 .. n : i - 1 \in S => i \in S
  <2> SUFFICES ASSUME NEW i \in 1 .. n, i - 1 \in S PROVE f0[i] \in Int
    BY <1>1
  <2>1. CASE i = 1
    BY <1>10, <2>1
  <2>2. CASE i # 1
    <3>1. f0[i - 1] \in Int /\ i - 1 \in 1 .. n - 1
      BY <1>1, <2>2
    <3>2. QED
      BY <1>3, <1>10, <2>2, <3>1
  <2>3. QED
    BY <2>1, <2>2
<1>12. 0 .. n \subseteq S
  <2>1. 0 \in S
    BY <1>1
  <2> HIDE DEF S
  <2>2. QED
    BY <1>1, <1>11, <2>1, Upwards
<1>13. f0 \in [1 .. n -> Int]
  <2>1. \A i \in 1 .. n : f0[i] \in Int
    BY <1>12
  <2>2. f0 = [i \in 1 .. n |-> f0[i]]
    BY <1>10
  <2> HIDE DEF S
  <2>3. QED
    BY <2>1, <2>2
<1>14. QED
  BY <1>9, <1>10, <1>13 DEF n, Next1

\* It is always one watt-hour behind one that starts full and is larger by one.
LEMMA SimulatedIsBehind ==
    ASSUME LibraryAssumption, sizing \in Sizings, NEW power \in Int, NEW cap \in Nat,
           NEW h, Simulated(h, cap, power)
    PROVE  LET e == Promised(cap + 1, power)
           IN  /\ DOMAIN h = 1 .. Len(sizing.flux) /\ DOMAIN e = 1 .. Len(sizing.flux)
               /\ \A i \in 1 .. Len(sizing.flux) : h[i] \in Int /\ e[i] \in Int /\ h[i] < e[i]
<1> DEFINE n == Len(sizing.flux)
           e == Promised(cap + 1, power)
           S == {i \in 0 .. n : i = 0 \/ h[i] < e[i]}
<1>1. /\ h \in [1 .. n -> Int]
      /\ \A i \in 1 .. n : h[i] = IF i = 1 THEN 0 ELSE Stored(cap, h[i - 1], EnergyChange(power, i - 1))
  BY DEF Simulated
<1>2. /\ e \in [1 .. n -> Int]
      /\ \A i \in 1 .. n : e[i] = IF i = 1 THEN cap + 1
                           ELSE Clipped(cap + 1, e[i - 1] + EnergyChange(power, i - 1))
  <2>1. cap + 1 \in Int
    OBVIOUS
  <2>2. QED
    BY <2>1, PromiseRuns
<1>3. n \in Nat \ {0} /\ \A i \in 1 .. n : EnergyChange(power, i) \in Int
  BY SizingFacts, ChangeTyped
<1> HIDE DEF n, e
<1>4. ASSUME NEW i \in 1 .. n, i - 1 \in S PROVE i \in S
  <2>0. SUFFICES h[i] < e[i]
    BY <1>3
  <2>1. CASE i = 1
    BY <1>1, <1>2, <2>1
  <2>2. CASE i # 1
    <3>1. i - 1 \in 1 .. n /\ h[i - 1] < e[i - 1]
      BY <1>3, <1>4, <2>2
    <3> DEFINE d == EnergyChange(power, i - 1)
               x == h[i - 1]
               y == e[i - 1]
    <3>2. d \in Int /\ x \in Int /\ y \in Int /\ x < y
      BY <1>1, <1>2, <1>3, <3>1
    <3>3. h[i] = Stored(cap, x, d) /\ e[i] = Clipped(cap + 1, y + d)
      BY <1>1, <1>2, <2>2
    <3> HIDE DEF d, x, y
    <3>4. y + d \in Int /\ cap + 1 \in Int
      BY <3>2
    <3>5. Clipped(cap + 1, y + d) =
              LET m == IF y + d < cap + 1 THEN y + d ELSE cap + 1 IN IF m < 0 THEN 0 ELSE m
      BY <3>4, Clipping
    <3>6. Stored(cap, x, d) < Clipped(cap + 1, y + d)
      BY <3>2, <3>5 DEF Stored, Least
    <3>7. QED
      BY <3>3, <3>6
  <2>3. QED
    BY <2>1, <2>2
<1>5. 0 .. n \subseteq S
  <2>1. 0 \in S
    BY <1>3
  <2> HIDE DEF S
  <2>2. QED
    BY <1>3, <1>4, <2>1, Upwards
<1>6. \A i \in 1 .. n : h[i] < e[i]
  BY <1>3, <1>5
<1>7. QED
  BY <1>1, <1>2, <1>6 DEF n, e

\* So it is available at no more points.
LEMMA SimulatedIsCautious ==
    ASSUME LibraryAssumption, sizing \in Sizings, NEW power \in Int, NEW cap \in Nat,
           NEW h, Simulated(h, cap, power)
    PROVE  Available(h) \in Nat /\ Available(h) <= Powered(Promised(cap + 1, power))
<1> DEFINE n == Len(sizing.flux)
           e == Promised(cap + 1, power)
           A == {i \in DOMAIN h : h[i] >= 0}
           B == {i \in DOMAIN e : e[i] > 0}
<1>1. /\ DOMAIN h = 1 .. n /\ DOMAIN e = 1 .. n
      /\ \A i \in 1 .. n : h[i] \in Int /\ e[i] \in Int /\ h[i] < e[i]
  BY SimulatedIsBehind
<1>2. n \in Nat
  BY SizingFacts
<1> HIDE DEF n, e
<1>3. A \subseteq B /\ B \subseteq 1 .. n
  BY <1>1
<1> HIDE DEF A, B
<1>4. IsFiniteSet(B)
  <2>1. IsFiniteSet(1 .. n)
    BY <1>2, FS_Interval
  <2>2. QED
    BY <1>3, <2>1, FS_Subset
<1>5. Cardinality(A) <= Cardinality(B) /\ Cardinality(A) \in Nat
  BY <1>3, <1>4, FS_Subset, FS_CardinalityType
<1>6. QED
  BY <1>5 DEF Available, Powered, A, B, e

------------------------------------------------------------------------------
(* The systems that can be built *)

\* A list that is not empty has a greatest element.
LEMMA SomeGreatest ==
    ASSUME NEW s \in Seq(Nat), Len(s) > 0
    PROVE  Greatest(s) \in Nat
<1> DEFINE n == Len(s)
           S == {k \in 0 .. n : k = 0 \/ \E j \in 1 .. k : \A i \in 1 .. k : s[i] <= s[j]}
<1>1. n \in Nat /\ n >= 1 /\ \A i \in 1 .. n : s[i] \in Nat
  OBVIOUS
<1> HIDE DEF n
<1>2. ASSUME NEW k \in 1 .. n, k - 1 \in S PROVE k \in S
  <2>0. SUFFICES \E j \in 1 .. k : \A i \in 1 .. k : s[i] <= s[j]
    OBVIOUS
  <2>1. CASE k = 1
    BY <1>1, <2>1
  <2>2. CASE k # 1
    <3>1. PICK j \in 1 .. k - 1 : \A i \in 1 .. k - 1 : s[i] <= s[j]
      BY <1>2, <2>2
    <3>2. \A i \in 1 .. k : i \in 1 .. k - 1 \/ i = k
      OBVIOUS
    <3>3. s[j] \in Nat /\ s[k] \in Nat /\ j \in 1 .. k /\ k \in 1 .. k
          /\ \A i \in 1 .. k : s[i] \in Nat
      BY <1>1
    <3>4. CASE s[j] <= s[k]
      <4>1. \A i \in 1 .. k : s[i] <= s[k]
        BY <3>1, <3>2, <3>3, <3>4
      <4>2. QED
        BY <3>3, <4>1
    <3>5. CASE ~ (s[j] <= s[k])
      <4>1. \A i \in 1 .. k : s[i] <= s[j]
        BY <3>1, <3>2, <3>3, <3>5
      <4>2. QED
        BY <3>3, <4>1
    <3>6. QED
      BY <3>4, <3>5
  <2>3. QED
    BY <2>1, <2>2
<1>3. n \in S
  <2>1. 0 \in S
    BY <1>1
  <2> HIDE DEF S
  <2>2. 0 .. n \subseteq S
    BY <1>1, <1>2, <2>1, Upwards
  <2>3. QED
    BY <1>1, <2>2
<1>4. PICK j \in 1 .. n : \A i \in 1 .. n : s[i] <= s[j]
  BY <1>1, <1>3
<1>5. DOMAIN s = 1 .. n
  BY DEF n
<1> DEFINE T == {s[i] : i \in DOMAIN s}
<1>6. s[j] \in T /\ (\A x \in T : s[j] >= x) /\ T \subseteq Nat
  BY <1>1, <1>4, <1>5
<1> HIDE DEF T
<1>7. Max(T) \in T
  BY <1>6 DEF Max
<1>8. QED
  BY <1>6, <1>7 DEF Greatest, T

\* What a system that can be built consists of.
LEMMA SystemFacts ==
    ASSUME LibraryAssumption, sizing \in Sizings, NEW c \in sizing.controllers,
           NEW s \in SystemsOf(c, sizing.site)
    PROVE  /\ s.pack.cap \in Nat /\ s.array.nop \in Int /\ s.cont = c
           /\ DOMAIN s = {"cont", "array", "pack"}
<1> DEFINE limit == Greatest(c.powers)
           PX == {px \in Panels \X (1 .. c.ocv) : px[2] * px[1].ocv <= c.ocv}
           BV == {bv \in Batteries \X {c.volts[i] : i \in DOMAIN c.volts} : bv[2] % bv[1].volt = 0}
           target == TargetCapacity(sizing.site)
           arrays == UNION {SolarArrays(px[1], px[2], limit) : px \in PX}
           packs == UNION {BatteryPacks(bv[1], bv[2] \div bv[1].volt, target) : bv \in BV}
<1>0. PICK a \in arrays, b \in packs : s = [cont |-> c, array |-> a, pack |-> b]
  BY DEF SystemsOf
<1>10. PICK px \in PX : a \in SolarArrays(px[1], px[2], limit)
  OBVIOUS
<1>11. PICK bv \in BV : b \in BatteryPacks(bv[1], bv[2] \div bv[1].volt, target)
  OBVIOUS
<1>1. /\ a \in SolarArrays(px[1], px[2], limit)
      /\ b \in BatteryPacks(bv[1], bv[2] \div bv[1].volt, target)
      /\ s = [cont |-> c, array |-> a, pack |-> b]
  BY <1>0, <1>10, <1>11
<1>2. /\ px[1] \in Panels /\ px[2] \in 1 .. c.ocv
      /\ bv[1] \in Batteries /\ bv[2] \in {c.volts[i] : i \in DOMAIN c.volts}
  OBVIOUS
<1>3. /\ c.volts \in Seq(Nat) /\ c.powers \in Seq(Nat) /\ Len(c.volts) = Len(c.powers) /\ c.ocv \in Nat
  BY SizingFacts DEF LibraryAssumption
<1>4. /\ {px[1].ocv, px[1].stc, px[1].life} \subseteq Nat \ {0} /\ px[1].notc \in Nat
      /\ {bv[1].volt, bv[1].usable, bv[1].life} \subseteq Nat \ {0}
  BY <1>2 DEF LibraryAssumption
<1>5. bv[2] \in Nat /\ Len(c.powers) > 0
  <2>1. PICK i \in DOMAIN c.volts : bv[2] = c.volts[i]
    BY <1>2
  <2> DEFINE q == c.volts
  <2>2. q \in Seq(Nat) /\ i \in DOMAIN q
    BY <1>3
  <2> HIDE DEF q
  <2>5. i \in 1 .. Len(q) /\ Len(q) \in Nat
    BY ONLY <2>2
  <2>3. q[i] \in Nat /\ i \in 1 .. Len(q) /\ Len(q) \in Nat
    BY <2>2, <2>5
  <2> USE DEF q
  <2>4. QED
    BY <1>3, <2>1, <2>3
<1>6. limit \in Nat
  BY <1>3, <1>5, SomeGreatest
<1> HIDE DEF limit, PX, BV, target
<1>7. a.nop \in Int
  <2>1. PICK n \in 1 .. Ceil(limit, px[1].stc * px[2]) : a.nop = Least(limit, px[2] * n * px[1].notc)
    BY <1>1 DEF SolarArrays
  <2>2. n \in Int /\ px[2] \in Int /\ px[1].notc \in Int
    BY <1>2, <1>4
  <2>3. QED
    BY <1>6, <2>1, <2>2 DEF Least
<1>8. b.cap \in Nat
  <2> DEFINE ser == bv[2] \div bv[1].volt
  <2>1. ser \in Nat
    <3> DEFINE u == bv[2]
               w == bv[1].volt
    <3>1. u \in Nat /\ w \in Nat \ {0}
      BY <1>4, <1>5
    <3> HIDE DEF u, w
    <3>2. u \div w \in Nat
      BY <3>1
    <3>3. QED
      BY <3>2 DEF u, w
  <2> HIDE DEF ser
  <2>2. PICK n \in 1 .. Ceil(target, ser * bv[1].usable) : b.cap = ser * n * bv[1].usable
    BY <1>1 DEF BatteryPacks, ser
  <2>3. n \in Nat /\ bv[1].usable \in Nat
    BY <1>4
  <2>4. ser * n \in Nat
    BY <2>1, <2>3
  <2>5. QED
    BY <2>2, <2>3, <2>4
<1>9. QED
  BY <1>1, <1>7, <1>8


\* Rising numbers among 1 .. n, n of them, are 1 .. n.
LEMMA RisingIsIdentity ==
    ASSUME NEW n \in Nat, NEW p \in [1 .. n -> 1 .. n],
           \A i, j \in 1 .. n : i < j => p[i] < p[j]
    PROVE  \A i \in 1 .. n : p[i] = i
<1> DEFINE A == {i \in 0 .. n : i = 0 \/ p[i] >= i}
           B == {k \in 0 .. n : k = 0 \/ p[n + 1 - k] <= n + 1 - k}
<1>1. \A i \in 1 .. n : p[i] \in 1 .. n
  OBVIOUS
<1>2. 0 .. n \subseteq A
  <2>1. ASSUME NEW i \in 1 .. n, i - 1 \in A PROVE i \in A
    <3>1. CASE i = 1
      BY <1>1, <3>1
    <3>2. CASE i # 1
      <4>1. i - 1 \in 1 .. n /\ i - 1 < i
        BY <3>2
      <4>2. p[i - 1] < p[i] /\ p[i - 1] >= i - 1
        BY <2>1, <4>1
      <4>3. p[i] >= i
        BY <1>1, <4>1, <4>2
      <4>4. QED
        BY <4>3
    <3>3. QED
      BY <3>1, <3>2
  <2>2. 0 \in A
    OBVIOUS
  <2> HIDE DEF A
  <2>3. QED
    BY <2>1, <2>2, Upwards
<1>3. 0 .. n \subseteq B
  <2>1. ASSUME NEW k \in 1 .. n, k - 1 \in B PROVE k \in B
    <3> DEFINE i == n + 1 - k
    <3>0. i \in 1 .. n
      OBVIOUS
    <3>1. CASE k = 1
      BY <1>1, <3>0, <3>1
    <3>2. CASE k # 1
      <4>1. i + 1 \in 1 .. n /\ i + 1 = n + 1 - (k - 1) /\ i < i + 1 /\ k - 1 # 0
        BY <3>2
      <4>2. p[i] < p[i + 1] /\ p[i + 1] <= i + 1
        BY <2>1, <3>0, <4>1
      <4>3. p[i] <= i
        BY <1>1, <3>0, <4>1, <4>2
      <4>4. QED
        BY <4>3
    <3>3. QED
      BY <3>1, <3>2
  <2>2. 0 \in B
    OBVIOUS
  <2> HIDE DEF B
  <2>3. QED
    BY <2>1, <2>2, Upwards
<1>4. ASSUME NEW i \in 1 .. n PROVE p[i] = i
  <2>1. p[i] >= i
    BY <1>2
  <2>2. n + 1 - i \in 0 .. n /\ n + 1 - i # 0 /\ n + 1 - (n + 1 - i) = i
    OBVIOUS
  <2>3. p[i] <= i
    BY <1>3, <2>2
  <2>4. QED
    BY <1>1, <2>1, <2>3
<1>5. QED
  BY <1>4

\* Voltages listed in ascending order stay where they are when they are sorted.
LEMMA SortedAscending ==
    ASSUME NEW s \in Seq(Nat), \A i, j \in DOMAIN s : i < j => s[i] < s[j]
    PROVE  \A i \in DOMAIN s : Sorted(s)[i] = s[i]
<1> DEFINE n == Len(s)
           D == DOMAIN s
           Arranged(p) == [i \in D |-> s[p[i]]]
           Rising(q) == \A i, j \in D : i < j => q[i] <= q[j]
           id == [i \in D |-> i]
<1>1. n \in Nat /\ D = 1 .. n /\ \A i \in D : s[i] \in Nat
  OBVIOUS
<1>2. SetToSeqs(D) = {f \in [D -> D] : \A i, j \in D : i # j => f[i] # f[j]}
  <2>0. \A k \in Nat : Cardinality(1 .. k) = k
    BY FS_Interval
  <2>1. Cardinality(1 .. n) = n
    BY <1>1, <2>0
  <2>2. 1 .. Cardinality(D) = D
    BY <1>1, <2>1
  <2> HIDE DEF D
  <2>3. QED
    BY <2>2, Zenon DEF SetToSeqs
<1>3. id \in SetToSeqs(D) /\ Rising(Arranged(id))
  <2>1. id \in [D -> D] /\ \A i \in D : id[i] = i
    OBVIOUS
  <2>2. id \in SetToSeqs(D)
    BY ONLY <1>2, <2>1
  <2>3. \A i, j \in D : i < j => s[i] <= s[j]
    BY <1>1
  <2>4. QED
    BY ONLY <2>1, <2>2, <2>3
<1> DEFINE Good == {q \in {Arranged(p) : p \in SetToSeqs(D)} : Rising(q)}
<1>4. Sorted(s) \in {Arranged(p) : p \in SetToSeqs(D)} /\ Rising(Sorted(s))
  <2>1. \E q \in {Arranged(p) : p \in SetToSeqs(D)} : Rising(q)
    BY <1>3
  <2>2. QED
    BY <2>1 DEF Sorted
<1>5. PICK p \in SetToSeqs(D) : Sorted(s) = Arranged(p)
  BY <1>4
<1>6. p \in [1 .. n -> 1 .. n] /\ \A i, j \in 1 .. n : i # j => p[i] # p[j]
  BY <1>1, <1>2, <1>5
<1>7. \A i \in 1 .. n : Sorted(s)[i] = s[p[i]]
  BY <1>1, <1>5
<1>8. ASSUME NEW i \in 1 .. n, NEW j \in 1 .. n, i < j PROVE p[i] < p[j]
  <2>1. s[p[i]] <= s[p[j]]
    BY <1>1, <1>4, <1>7, <1>8
  <2>2. p[i] \in 1 .. n /\ p[j] \in 1 .. n /\ p[i] # p[j]
    <3>1. i # j
      BY <1>8
    <3> HIDE DEF n
    <3>2. QED
      BY <1>6, <3>1
  <2>3. p[j] < p[i] => s[p[j]] < s[p[i]]
    BY <1>1, <2>2
  <2>4. s[p[i]] \in Nat /\ s[p[j]] \in Nat
    BY <1>1, <2>2
  <2> DEFINE a == p[i]
             b == p[j]
             x == s[p[i]]
             y == s[p[j]]
  <2>6. a \in Int /\ b \in Int /\ a # b /\ x \in Nat /\ y \in Nat
    BY ONLY <2>2, <2>4
  <2>7. x <= y /\ (b < a => y < x)
    BY ONLY <2>1, <2>3
  <2> HIDE DEF a, b, x, y
  <2>8. a < b
    BY ONLY <2>6, <2>7
  <2>5. QED
    BY ONLY <2>8 DEF a, b
<1>9. \A i \in 1 .. n : p[i] = i
  <2> HIDE DEF n
  <2>1. QED
    BY <1>1, <1>6, <1>8, RisingIsIdentity
<1>10. QED
  BY <1>1, <1>7, <1>9


------------------------------------------------------------------------------
(* The invariant *)

\* The systems are some that can be built within their controllers' limits.
SystemsFit ==
    \A s \in systems : WithinLimits(s) /\ \E c \in sizing.controllers : s \in SystemsOf(c, sizing.site)

\* A pair's availability is that of a simulation that starts empty.
Rated(q) == \E h : Simulated(h, q[1], q[2]) /\ perf[q].avail = Available(h)

PerfIsSimulated == perf # <<>> => systems # {} /\ \A q \in Pairs : Rated(q)

\* The answer is the cheapest of those above the target, or that there is none.
Answered(s) == AboveTarget(s) /\ \A t \in systems : AboveTarget(t) => Cost(s) <= Cost(t)

AnswerStands ==
    optimal # Unknown /\ systems # {} =>
        /\ perf # <<>>
        /\ \/ optimal = NoSystem /\ \A t \in systems : ~ AboveTarget(t)
           \/ \E s \in systems : optimal = s /\ Answered(s)

SolarInv == sizing \in Sizings /\ SystemsFit /\ PerfIsSimulated /\ AnswerStands

\* A simulation, a cost and a comparison with the target depend on no more than what they read.
LEMMA SolarFrame ==
    ASSUME sizing' = sizing
    PROVE  /\ \A h, cap, power : Simulated(h, cap, power)' <=> Simulated(h, cap, power)
           /\ perf' = perf => \A s : /\ Cost(s)' = Cost(s)
                                     /\ AboveTarget(s)' <=> AboveTarget(s)
<1>1. ASSUME NEW h, NEW cap, NEW power
      PROVE  Simulated(h, cap, power)' <=> Simulated(h, cap, power)
  <2>1. \A i : EnergyChange(power, i)' = EnergyChange(power, i)
    BY DEF EnergyChange, Demand, Balance, Ceil
  <2>2. QED
    BY <2>1 DEF Simulated, Stored, Least
<1>2. ASSUME perf' = perf, NEW s PROVE Cost(s)' = Cost(s) /\ (AboveTarget(s)' <=> AboveTarget(s))
  BY <1>2 DEF Cost, PerfOf, Ceil, AboveTarget, Share
<1>3. QED
  BY <1>1, <1>2

\* The invariant holds before anything is built,
LEMMA SolarInvInit ==
    ASSUME SolarInit
    PROVE  SolarInv
BY DEF SolarInit, SolarInv, SystemsFit, PerfIsSimulated, AnswerStands, Sizings

\* when the systems are built,
LEMMA BuildSystemsKeeps ==
    ASSUME SolarInv, BuildSystems
    PROVE  SolarInv'
<1> DEFINE valid == {s \in UNION {SystemsOf(c, sizing.site) : c \in sizing.controllers} : WithinLimits(s)}
<1>1. /\ systems = {} /\ optimal = Unknown /\ sizing' = sizing /\ perf' = perf
      /\ systems' = valid /\ optimal' = IF valid = {} THEN NoSystem ELSE Unknown
  BY DEF BuildSystems
<1>2. perf = <<>>
  BY <1>1 DEF SolarInv, PerfIsSimulated
<1>3. (sizing \in Sizings)'
  BY <1>1 DEF SolarInv, Sizings
<1>4. SystemsFit'
  BY <1>1 DEF SystemsFit
<1>5. PerfIsSimulated'
  BY <1>1, <1>2 DEF PerfIsSimulated
<1>6. AnswerStands'
  BY <1>1 DEF AnswerStands
<1>7. QED
  BY <1>3, <1>4, <1>5, <1>6 DEF SolarInv

\* when they are simulated,
LEMMA SimulateKeeps ==
    ASSUME LibraryAssumption, SolarInv, Simulate
    PROVE  SolarInv'
<1>1. /\ systems # {} /\ perf = <<>> /\ sizing' = sizing /\ systems' = systems /\ optimal' = optimal
      /\ perf' = [q \in Pairs |-> LET h == History(q[1], q[2], StartEnergy(q[1]))
                                  IN  [avail |-> Available(h), used |-> Used(h)]]
  BY DEF Simulate
<1>2. (sizing \in Sizings)'
  BY <1>1 DEF SolarInv, Sizings
<1>3. SystemsFit'
  BY <1>1 DEF SolarInv, SystemsFit
<1>4. Pairs' = Pairs
  BY <1>1 DEF Pairs
<1>5. PerfIsSimulated'
  <2>1. ASSUME NEW q \in Pairs PROVE Rated(q)'
    <3>1. PICK s \in systems : q = <<s.pack.cap, s.array.nop>>
      BY DEF Pairs
    <3>2. q[1] \in Int /\ q[2] \in Int
      BY <3>1, SystemFacts DEF SolarInv, SystemsFit
    <3> DEFINE g == History(q[1], q[2], 0)
    <3>3. PICK h : h = g
      OBVIOUS
    <3>7. \A cap, power \in Int : Simulated(History(cap, power, 0), cap, power)
      <4>1. LibraryAssumption /\ sizing \in Sizings
        BY DEF SolarInv
      <4>2. QED
        BY <4>1, HistoryRuns
    <3>4. perf'[q].avail = Available(h)
      BY <1>1, <3>3 DEF StartEnergy
    <3> HIDE DEF g
    <3>8. Simulated(h, q[1], q[2])
      BY <3>2, <3>3, <3>7 DEF g
    <3>5. Simulated(h, q[1], q[2])'
      BY <1>1, <3>8, SolarFrame
    <3>6. QED
      BY <3>4, <3>5 DEF Rated
  <2>2. QED
    BY <1>1, <1>4, <2>1 DEF PerfIsSimulated
<1>6. AnswerStands'
  BY <1>1 DEF SolarInv, AnswerStands
<1>7. QED
  BY <1>2, <1>3, <1>5, <1>6 DEF SolarInv

\* when one is chosen,
LEMMA ChooseKeeps ==
    ASSUME SolarInv, Choose
    PROVE  SolarInv'
<1>1. perf # <<>> /\ optimal = Unknown /\ sizing' = sizing /\ systems' = systems /\ perf' = perf
  BY DEF Choose
<1>2. (sizing \in Sizings)' /\ SystemsFit'
  BY <1>1 DEF SolarInv, Sizings, SystemsFit
<1>3. PerfIsSimulated'
  BY <1>1, SolarFrame DEF SolarInv, PerfIsSimulated, Pairs, Rated
<1>4. \A s : (AboveTarget(s)' <=> AboveTarget(s)) /\ Cost(s)' = Cost(s)
  BY <1>1, SolarFrame
<1>5. \A s : Answered(s)' <=> Answered(s)
  BY <1>1, <1>4 DEF Answered
<1>6. \/ optimal' = NoSystem /\ \A t \in systems : ~ AboveTarget(t)
      \/ \E s \in systems : optimal' = s /\ Answered(s)
  BY DEF Choose, Answered
<1>7. AnswerStands'
  BY <1>1, <1>4, <1>5, <1>6 DEF AnswerStands
<1>8. QED
  BY <1>2, <1>3, <1>7 DEF SolarInv

\* and so always.
LEMMA SolarInvHolds ==
    ASSUME LibraryAssumption
    PROVE  SolarSpec => []SolarInv
<1>1. SolarInit => SolarInv
  BY SolarInvInit
<1>2. SolarInv /\ [SolarNext]_solarVars => SolarInv'
  <2> SUFFICES ASSUME SolarInv, [SolarNext]_solarVars PROVE SolarInv'
    OBVIOUS
  <2>1. CASE UNCHANGED solarVars
    <3>1. sizing' = sizing /\ systems' = systems /\ perf' = perf /\ optimal' = optimal
      BY <2>1 DEF solarVars
    <3>2. \A s : (AboveTarget(s)' <=> AboveTarget(s)) /\ Cost(s)' = Cost(s)
      BY <3>1, SolarFrame
    <3>3. \A s : Answered(s)' <=> Answered(s)
      BY <3>1, <3>2 DEF Answered
    <3>4. (sizing \in Sizings)' /\ SystemsFit'
      BY <3>1 DEF SolarInv, Sizings, SystemsFit
    <3>5. PerfIsSimulated'
      BY <3>1, SolarFrame DEF SolarInv, PerfIsSimulated, Pairs, Rated
    <3>6. AnswerStands'
      BY <3>1, <3>2, <3>3 DEF SolarInv, AnswerStands
    <3>7. QED
      BY <3>4, <3>5, <3>6 DEF SolarInv
  <2>2. QED
    BY <2>1, BuildSystemsKeeps, SimulateKeeps, ChooseKeeps DEF SolarNext
<1>3. QED
  BY <1>1, <1>2, PTL DEF SolarSpec

------------------------------------------------------------------------------
(* The theorems *)

\* What perf holds of a system.
LEMMA PerfFacts ==
    ASSUME LibraryAssumption, SolarInv, perf # <<>>, NEW s \in systems
    PROVE  /\ s.pack.cap \in Nat /\ s.array.nop \in Int /\ DOMAIN s = {"cont", "array", "pack"}
           /\ s.cont \in sizing.controllers
           /\ PerfOf(s).avail \in Nat
           /\ PerfOf(s).avail <= Powered(Promised(s.pack.cap + 1, s.array.nop))
<1>1. PICK c \in sizing.controllers : s \in SystemsOf(c, sizing.site)
  BY DEF SolarInv, SystemsFit
<1>2. s.pack.cap \in Nat /\ s.array.nop \in Int /\ s.cont = c /\ DOMAIN s = {"cont", "array", "pack"}
  BY <1>1, SystemFacts DEF SolarInv
<1> DEFINE q == <<s.pack.cap, s.array.nop>>
<1>3. Rated(q)
  BY DEF SolarInv, PerfIsSimulated, Pairs
<1>4. PICK h : Simulated(h, q[1], q[2]) /\ perf[q].avail = Available(h)
  BY <1>3 DEF Rated
<1>5. Simulated(h, s.pack.cap, s.array.nop)
  BY <1>4
<1>6. Available(h) \in Nat /\ Available(h) <= Powered(Promised(s.pack.cap + 1, s.array.nop))
  BY <1>2, <1>5, SimulatedIsCautious DEF SolarInv
<1>7. QED
  BY <1>2, <1>4, <1>6 DEF PerfOf

\* The sizing script credits no system with more available data points than the docstring
\* of calc_historic_perf promises for a battery larger by one watt-hour: full at the start,
\* its energy bounded between 0 and its capacity, available when it contains energy.
THEOREM NoRosierThanPromised == SolarSpec => []AvailabilityIsCautious
<1>1. SolarInv => AvailabilityIsCautious
  <2> SUFFICES ASSUME SolarInv, perf # <<>>, NEW q \in Pairs
               PROVE  perf[q].avail <= Powered(Promised(q[1] + 1, q[2]))
    BY DEF AvailabilityIsCautious
  <2>1. PICK s \in systems : q = <<s.pack.cap, s.array.nop>>
    BY DEF Pairs
  <2>2. QED
    BY <2>1, PerfFacts, LibraryAssumption DEF PerfOf
<1>2. SolarSpec => []SolarInv
  BY SolarInvHolds, LibraryAssumption
<1>3. QED
  BY <1>1, <1>2, PTL

\* The answer meets the availability asked for, is no dearer than any system that
\* exceeds it, and keeps to its controller's limits where the library lists the
\* voltages in ascending order (solar_solver.py get_optimal_solar_system).
THEOREM CheapestOfTheAvailable == SolarSpec => []ChosenIsBest
<1>1. SolarInv => ChosenIsBest
  <2> DEFINE points == Len(sizing.flux)
             exceeds == {s \in systems : 100 * PerfOf(s).avail > sizing.site.target * points}
             InLimits(s) == \E i \in DOMAIN s.cont.volts :
                          /\ s.cont.volts[i] = s.pack.volt
                          /\ s.array.power <= s.cont.powers[i]
                          /\ s.array.power <= s.cont.current * s.cont.volts[i]
  <2> SUFFICES ASSUME SolarInv, optimal # Unknown, systems # {}
               PROVE  IF optimal = NoSystem THEN exceeds = {}
                      ELSE /\ 100 * PerfOf(optimal).avail >= sizing.site.target * points
                           /\ \A s \in exceeds : Cost(optimal) <= Cost(s)
                           /\ Ascending(optimal.cont) => InLimits(optimal)
    BY DEF ChosenIsBest
  <2>1. perf # <<>>
    BY DEF SolarInv, AnswerStands
  <2>2. ASSUME NEW s \in systems
        PROVE  /\ AboveTarget(s) <=> 100 * PerfOf(s).avail > sizing.site.target * points
               /\ AboveTarget(s) => 100 * PerfOf(s).avail >= sizing.site.target * points
    <3> DEFINE a == PerfOf(s).avail
               t == sizing.site.target * points
    <3>1. a \in Nat
      BY <2>1, PerfFacts, LibraryAssumption
    <3>2. t \in Nat
      <4>1. sizing.site.target \in Nat /\ points \in Nat
        BY SizingFacts, LibraryAssumption DEF SolarInv
      <4> HIDE DEF points
      <4>2. QED
        BY <4>1
    <3>3. AboveTarget(s) <=> a * 100 > t
      BY DEF AboveTarget, Share
    <3> HIDE DEF a, t
    <3>4. AboveTarget(s) <=> 100 * a > t
      BY <3>1, <3>3
    <3>5. AboveTarget(s) => 100 * a >= t
      BY <3>1, <3>2, <3>4
    <3>6. QED
      BY <3>4, <3>5 DEF a, t
  <2>3. CASE optimal = NoSystem
    <3>1. \A s \in systems : s # NoSystem
      <4>1. DOMAIN NoSystem = {"cont"}
        BY DEF NoSystem
      <4>2. QED
        BY <2>1, <4>1, PerfFacts, LibraryAssumption
    <3>2. \A t \in systems : ~ AboveTarget(t)
      BY <2>3, <3>1 DEF SolarInv, AnswerStands
    <3>3. QED
      BY <2>2, <2>3, <3>2
  <2>4. CASE optimal # NoSystem
    <3>1. PICK s \in systems : optimal = s /\ Answered(s)
      BY <2>4 DEF SolarInv, AnswerStands
    <3>2. 100 * PerfOf(s).avail >= sizing.site.target * points
      BY <2>2, <3>1 DEF Answered
    <3>3. \A t \in exceeds : Cost(s) <= Cost(t)
      BY <2>2, <3>1 DEF Answered
    <3>4. ASSUME Ascending(s.cont) PROVE InLimits(s)
      <4>1. PICK i \in DOMAIN s.cont.volts :
              /\ Sorted(s.cont.volts)[i] = s.pack.volt /\ s.array.power <= s.cont.powers[i]
              /\ s.array.power <= s.cont.current * s.pack.volt
        BY DEF SolarInv, SystemsFit, WithinLimits
      <4>2. s.cont.volts \in Seq(Nat)
        BY <2>1, PerfFacts, SizingFacts, LibraryAssumption DEF SolarInv, LibraryAssumption
      <4>3. Sorted(s.cont.volts)[i] = s.cont.volts[i]
        BY <3>4, <4>2, SortedAscending DEF Ascending
      <4>4. QED
        BY <4>1, <4>3
    <3>5. QED
      BY <2>4, <3>1, <3>2, <3>3, <3>4
  <2>5. QED
    BY <2>3, <2>4
<1>2. SolarSpec => []SolarInv
  BY SolarInvHolds, LibraryAssumption
<1>3. QED
  BY <1>1, <1>2, PTL

(***************************************************************************)
(*                            Building outlines                            *)
(***************************************************************************)

\* A quotient and a remainder.
LEMMA Division ==
    ASSUME NEW x \in Nat, NEW n \in Nat \ {0}
    PROVE  /\ x \div n \in Nat /\ x % n \in 0 .. n - 1
           /\ x = n * (x \div n) + (x % n)
  OBVIOUS

Box == {r \in Nat \X Nat \X Nat \X Nat : r[1] <= r[3] /\ r[2] <= r[4]}

Apart(r, s) == Pixels(r) \cap Pixels(s) = {}

\* The pixels of a rectangle are finite in number, and it has the first of them if any.
LEMMA PixelsFinite ==
    ASSUME NEW r \in Box
    PROVE  /\ IsFiniteSet(Pixels(r)) /\ IsFiniteSet(Pixels(r) \cap picture)
           /\ Size(r) \in Nat /\ Filled(r) \in Nat
<1>1. r[1] \in Int /\ r[2] \in Int /\ r[3] - 1 \in Int /\ r[4] - 1 \in Int
  BY DEF Box
<1>2. IsFiniteSet(r[1] .. r[3] - 1) /\ IsFiniteSet(r[2] .. r[4] - 1)
  BY <1>1, FS_Interval
<1>3. IsFiniteSet(Pixels(r))
  BY <1>2, FS_Product DEF Pixels
<1>4. IsFiniteSet(Pixels(r) \cap picture)
  BY <1>3, FS_Subset
<1>5. QED
  BY <1>3, <1>4, FS_CardinalityType DEF Size, Filled

\* Rectangles side by side, or one above the other, share no pixel.
LEMMA BesideIsApart ==
    ASSUME NEW r \in Box, NEW s \in Box,
           r[3] <= s[1] \/ s[3] <= r[1] \/ r[4] <= s[2] \/ s[4] <= r[2]
    PROVE  Apart(r, s)
<1>1. r \in Nat \X Nat \X Nat \X Nat /\ s \in Nat \X Nat \X Nat \X Nat
  BY DEF Box
<1>2. ASSUME NEW p \in Pixels(r) \cap Pixels(s) PROVE FALSE
  <2>1. p[1] \in r[1] .. r[3] - 1 /\ p[1] \in s[1] .. s[3] - 1
        /\ p[2] \in r[2] .. r[4] - 1 /\ p[2] \in s[2] .. s[4] - 1
    BY <1>2 DEF Pixels
  <2>2. QED
    BY <1>1, <2>1
<1>3. QED
  BY <1>2 DEF Apart

\* Ascending numbers.
Rising(g) == \A i \in 1 .. Len(g) - 1 : g[i] < g[i + 1]

\* Each of ascending numbers is smaller than every later one.
LEMMA RisingRises ==
    ASSUME NEW g \in Seq(Nat), Rising(g)
    PROVE  \A i, j \in 1 .. Len(g) : i < j => g[i] < g[j]
<1> DEFINE n == Len(g)
           S == {j \in 0 .. n : \A i \in 1 .. j - 1 : g[i] < g[j]}
<1>1. n \in Nat /\ \A i \in 1 .. n : g[i] \in Nat
  OBVIOUS
<1>2. 0 \in S
  BY <1>1
<1>3. ASSUME NEW j \in 1 .. n, j - 1 \in S PROVE j \in S
  <2>1. ASSUME NEW i \in 1 .. j - 1 PROVE g[i] < g[j]
    <3>1. CASE i = j - 1
      BY <1>1, <3>1 DEF Rising
    <3>2. CASE i < j - 1
      <4>1. g[i] < g[j - 1] /\ g[j - 1] < g[j]
        BY <1>1, <1>3, <3>2 DEF Rising
      <4>2. g[i] \in Nat /\ g[j - 1] \in Nat /\ g[j] \in Nat
        BY <1>1, <3>2
      <4>3. QED
        BY <4>1, <4>2
    <3>3. QED
      BY <3>1, <3>2
  <2>2. QED
    BY <2>1
<1>4. \A i \in 1 .. n : i - 1 \in S => i \in S
  BY <1>3
<1> HIDE DEF S
<1>5. 0 .. n \subseteq S
  BY <1>1, <1>2, <1>4, Upwards
<1>6. QED
  BY <1>1, <1>5 DEF S

Frame(g, max) ==
    /\ g \in Seq(Nat) /\ Len(g) >= 2 /\ g[1] = 0 /\ g[Len(g)] = max /\ Rising(g)

\* The rectangles of a grid are boxes, no two of which share a pixel.
LEMMA GridOfBoxes ==
    ASSUME NEW g, NEW w \in Nat, NEW h \in Nat, Frame(g[1], w), Frame(g[2], h)
    PROVE  /\ Rectangles(g) \in Seq(Box)
           /\ \A i, j \in DOMAIN Rectangles(g) : i # j => Apart(Rectangles(g)[i], Rectangles(g)[j])
<1> DEFINE cols == Len(g[1]) - 1
           rows == Len(g[2]) - 1
           Col(k) == ((k - 1) % cols) + 1
           Row(k) == (k - 1) \div cols + 1
           Rect(k) == <<g[1][Col(k)], g[2][Row(k)], g[1][Col(k) + 1], g[2][Row(k) + 1]>>
           n == cols * rows
<1>1. cols \in Nat \ {0} /\ rows \in Nat \ {0}
  <2> DEFINE x == Len(g[1])
             y == Len(g[2])
  <2>1. g[1] \in Seq(Nat) /\ g[2] \in Seq(Nat) /\ x >= 2 /\ y >= 2
    BY DEF Frame
  <2>2. x \in Nat /\ y \in Nat
    BY ONLY <2>1
  <2> HIDE DEF x, y
  <2>3. x - 1 \in Nat \ {0} /\ y - 1 \in Nat \ {0}
    BY ONLY <2>1, <2>2
  <2>4. QED
    BY ONLY <2>3 DEF x, y
<1>2. n \in Nat
  <2> HIDE DEF cols, rows
  <2>1. \A a, b \in Nat : a * b \in Nat
    OBVIOUS
  <2>2. QED
    BY <1>1, <2>1
<1>3. \A k \in 1 .. n : /\ Col(k) \in 1 .. cols /\ Row(k) \in Nat \ {0}
                        /\ k - 1 = cols * (Row(k) - 1) + Col(k) - 1
  <2> HIDE DEF cols, n
  <2>1. \A k \in 1 .. n : k - 1 \in Nat
    BY <1>2
  <2>2. \A k \in 1 .. n : /\ (k - 1) \div cols \in Nat /\ (k - 1) % cols \in 0 .. cols - 1
                          /\ k - 1 = cols * ((k - 1) \div cols) + ((k - 1) % cols)
    BY <1>1, <2>1, Division
  <2>3. QED
    BY <1>1, <2>2
<1>4. Rectangles(g) = [k \in 1 .. n |-> Rect(k)]
  BY DEF Rectangles
<1>12. /\ Len(g[1]) \in Nat /\ Len(g[2]) \in Nat
       /\ \A i \in 1 .. Len(g[1]) : g[1][i] \in Nat
       /\ \A i \in 1 .. Len(g[2]) : g[2][i] \in Nat
  <2>1. g[1] \in Seq(Nat) /\ g[2] \in Seq(Nat)
    BY DEF Frame
  <2>2. QED
    BY ONLY <2>1
<1>13. /\ Len(g[1]) = cols + 1 /\ Len(g[2]) = rows + 1
  BY <1>12
<1> HIDE DEF cols, rows, Col, Row
<1>5. \A k \in 1 .. n : Row(k) <= rows
  <2> SUFFICES ASSUME NEW k \in 1 .. n, Row(k) > rows PROVE FALSE
    BY <1>1, <1>3
  <2>1. cols * (Row(k) - 1) >= cols * rows
    <3>1. Row(k) - 1 >= rows /\ Row(k) - 1 \in Nat
      BY <1>1, <1>3
    <3>2. \A a, b, c \in Nat : b >= c => a * b >= a * c
      OBVIOUS
    <3>3. QED
      BY <1>1, <3>1, <3>2
  <2>2. k - 1 >= n
    <3>1. cols * (Row(k) - 1) \in Nat /\ cols * rows \in Nat /\ Col(k) - 1 >= 0 /\ Col(k) \in Nat
      BY <1>1, <1>3
    <3>2. QED
      BY <1>3, <2>1, <3>1
  <2>3. QED
    BY <1>2, <2>2
<1>14. \A k \in 1 .. n : Col(k) \in 1 .. cols /\ Row(k) \in 1 .. rows
  BY <1>1, <1>3, <1>5
<1>6. \A i, j \in 1 .. Len(g[1]) : i < j => g[1][i] < g[1][j]
  BY RisingRises DEF Frame
<1>7. \A i, j \in 1 .. Len(g[2]) : i < j => g[2][i] < g[2][j]
  BY RisingRises DEF Frame
<1>8. \A k \in 1 .. n : Rect(k) \in Box
  <2> TAKE k \in 1 .. n
  <2>1. Col(k) \in 1 .. Len(g[1]) /\ Col(k) + 1 \in 1 .. Len(g[1]) /\ Col(k) < Col(k) + 1
        /\ Row(k) \in 1 .. Len(g[2]) /\ Row(k) + 1 \in 1 .. Len(g[2]) /\ Row(k) < Row(k) + 1
    <3>1. Col(k) \in 1 .. cols /\ Row(k) \in 1 .. rows
      BY <1>14
    <3>2. QED
      BY ONLY <1>1, <1>13, <3>1
  <2>2. g[1][Col(k)] < g[1][Col(k) + 1] /\ g[2][Row(k)] < g[2][Row(k) + 1]
    BY <1>6, <1>7, <2>1
  <2>3. g[1][Col(k)] \in Nat /\ g[1][Col(k) + 1] \in Nat /\ g[2][Row(k)] \in Nat /\ g[2][Row(k) + 1] \in Nat
    BY <1>12, <2>1
  <2>4. QED
    BY <2>2, <2>3 DEF Box
<1>9. ASSUME NEW i \in 1 .. n, NEW j \in 1 .. n, Col(i) < Col(j) \/ Row(i) < Row(j)
      PROVE  Apart(Rect(i), Rect(j))
  <2>1. CASE Col(i) < Col(j)
    <3>1. g[1][Col(i) + 1] <= g[1][Col(j)]
      <4>1. Col(i) + 1 \in 1 .. Len(g[1]) /\ Col(j) \in 1 .. Len(g[1]) /\ Col(i) + 1 <= Col(j)
        <5>1. Col(i) \in 1 .. cols /\ Col(j) \in 1 .. cols
          BY <1>14
        <5>2. QED
          BY ONLY <1>1, <1>13, <2>1, <5>1
      <4>2. g[1][Col(i) + 1] \in Nat /\ g[1][Col(j)] \in Nat
        BY <1>12, <4>1
      <4>3. QED
        BY ONLY <1>6, <4>1, <4>2
    <3>2. QED
      BY <1>8, <3>1, BesideIsApart
  <2>2. CASE Row(i) < Row(j)
    <3>1. g[2][Row(i) + 1] <= g[2][Row(j)]
      <4>1. Row(i) + 1 \in 1 .. Len(g[2]) /\ Row(j) \in 1 .. Len(g[2]) /\ Row(i) + 1 <= Row(j)
        <5>1. Row(i) \in 1 .. rows /\ Row(j) \in 1 .. rows
          BY <1>14
        <5>2. QED
          BY ONLY <1>1, <1>13, <2>2, <5>1
      <4>2. g[2][Row(i) + 1] \in Nat /\ g[2][Row(j)] \in Nat
        BY <1>12, <4>1
      <4>3. QED
        BY <1>7, <4>1, <4>2
    <3>2. QED
      BY <1>8, <3>1, BesideIsApart
  <2>3. QED
    BY <1>9, <2>1, <2>2
<1>10. ASSUME NEW i \in 1 .. n, NEW j \in 1 .. n, i # j PROVE Apart(Rect(i), Rect(j))
  <2>1. Col(i) # Col(j) \/ Row(i) # Row(j)
    BY <1>3, <1>10
  <2>2. Col(i) \in Nat /\ Col(j) \in Nat /\ Row(i) \in Nat /\ Row(j) \in Nat
    BY <1>1, <1>3
  <2>3. CASE Col(i) < Col(j) \/ Row(i) < Row(j)
    BY <1>9, <2>3
  <2>4. CASE Col(j) < Col(i) \/ Row(j) < Row(i)
    BY <1>9, <2>4 DEF Apart
  <2>5. QED
    BY <2>1, <2>2, <2>3, <2>4
<1> HIDE DEF Rect, n
<1>11. QED
  BY <1>2, <1>4, <1>8, <1>10

\* The parts of a list of rectangles, or of one of them, share no pixel.
AllApart(q) == \A i, j \in DOMAIN q : i # j => Apart(q[i], q[j])

\* The quarters of a rectangle lie in it, and share no pixel.
LEMMA QuartersInside ==
    ASSUME NEW r \in Box
    PROVE  /\ Split(r) \in Seq(Box) /\ AllApart(Split(r))
           /\ \A i \in DOMAIN Split(r) : Pixels(Split(r)[i]) \subseteq Pixels(r)
<1> DEFINE x == (r[1] + r[3]) \div 2
           y == (r[2] + r[4]) \div 2
           q1 == <<r[1], r[2], x, y>>
           q2 == <<x, r[2], r[3], y>>
           q3 == <<r[1], y, x, r[4]>>
           q4 == <<x, y, r[3], r[4]>>
<1>1. /\ r \in Nat \X Nat \X Nat \X Nat /\ r[1] <= r[3] /\ r[2] <= r[4]
      /\ r[1] \in Nat /\ r[2] \in Nat /\ r[3] \in Nat /\ r[4] \in Nat
  BY DEF Box
<1>2. \A a, b \in Nat : a <= b => /\ (a + b) \div 2 \in Nat /\ a <= (a + b) \div 2 /\ (a + b) \div 2 <= b
  OBVIOUS
<1>3. /\ x \in Nat /\ r[1] <= x /\ x <= r[3]
      /\ y \in Nat /\ r[2] <= y /\ y <= r[4]
  BY <1>1, <1>2
<1>4. Split(r) = IF x - r[1] < MinSplit \/ y - r[2] < MinSplit THEN <<>> ELSE <<q1, q2, q3, q4>>
  BY DEF Split
<1> HIDE DEF x, y
<1>5. q1 \in Box /\ q2 \in Box /\ q3 \in Box /\ q4 \in Box
  BY <1>1, <1>3 DEF Box
<1>6. /\ Apart(q1, q2) /\ Apart(q1, q3) /\ Apart(q1, q4)
      /\ Apart(q2, q3) /\ Apart(q2, q4) /\ Apart(q3, q4)
  BY <1>1, <1>3, <1>5, BesideIsApart
<1>7. ASSUME NEW q \in Box, r[1] <= q[1], q[3] <= r[3], r[2] <= q[2], q[4] <= r[4]
      PROVE  Pixels(q) \subseteq Pixels(r)
  <2>1. q[1] \in Nat /\ q[2] \in Nat /\ q[3] \in Nat /\ q[4] \in Nat
    BY DEF Box
  <2>2. q[1] .. q[3] - 1 \subseteq r[1] .. r[3] - 1 /\ q[2] .. q[4] - 1 \subseteq r[2] .. r[4] - 1
    BY <1>1, <1>7, <2>1
  <2>3. QED
    BY <2>2 DEF Pixels
<1>8. /\ Pixels(q1) \subseteq Pixels(r) /\ Pixels(q2) \subseteq Pixels(r)
      /\ Pixels(q3) \subseteq Pixels(r) /\ Pixels(q4) \subseteq Pixels(r)
  BY <1>1, <1>3, <1>5, <1>7
<1> HIDE DEF q1, q2, q3, q4
<1>9. CASE Split(r) = <<>>
  BY <1>9 DEF AllApart
<1>10. CASE Split(r) = <<q1, q2, q3, q4>>
  <2>1. <<q1, q2, q3, q4>> \in Seq(Box) /\ DOMAIN <<q1, q2, q3, q4>> = 1 .. 4
    BY <1>5
  <2>2. \A i \in 1 .. 4 : <<q1, q2, q3, q4>>[i] \in {q1, q2, q3, q4}
    OBVIOUS
  <2>3. \A i, j \in 1 .. 4 : i # j => Apart(<<q1, q2, q3, q4>>[i], <<q1, q2, q3, q4>>[j])
    <3>1. /\ Apart(q2, q1) /\ Apart(q3, q1) /\ Apart(q4, q1)
          /\ Apart(q3, q2) /\ Apart(q4, q2) /\ Apart(q4, q3)
      BY <1>6 DEF Apart
    <3>2. QED
      BY <1>6, <3>1
  <2>4. QED
    BY <1>8, <1>10, <2>1, <2>2, <2>3 DEF AllApart
<1>11. QED
  BY <1>4, <1>9, <1>10

\* What is outlined, and what is still to be inspected: sets of pixels.
Outlined(S) == UNION {Pixels(r) : r \in S}

Building(S) == UNION {Pixels(r) \cap picture : r \in S}

OutlineInv ==
    /\ toInspect \in Seq(Box) /\ outline \subseteq Box
    /\ grid = <<>> => toInspect = <<>> /\ outline = {}
    /\ AllApart(toInspect)
    /\ \A r \in outline : \A s \in outline \ {r} : Apart(r, s)
    /\ \A r \in outline : \A i \in DOMAIN toInspect : Apart(r, toInspect[i])
    /\ IsFiniteSet(Outlined(outline))
    /\ 100 * Cardinality(Building(outline)) >= SuccessShare * Cardinality(Outlined(outline))

\* The property is the invariant's part about rectangles.
LEMMA OutlineInvBuilds ==
    OutlineInv => OutlineIsBuilding
BY DEF OutlineInv, OutlineIsBuilding, AllApart, Apart, Outlined, Building

\* A rectangle that is mostly building, apart from what is outlined, can be added.
LEMMA OutlineGrows ==
    ASSUME NEW S \in SUBSET Box, NEW r \in Box, \A s \in S : Apart(r, s),
           IsFiniteSet(Outlined(S)),
           100 * Cardinality(Building(S)) >= SuccessShare * Cardinality(Outlined(S)),
           100 * Filled(r) >= SuccessShare * Size(r)
    PROVE  /\ IsFiniteSet(Outlined(S \cup {r}))
           /\ 100 * Cardinality(Building(S \cup {r}))
                >= SuccessShare * Cardinality(Outlined(S \cup {r}))
<1>1. /\ Outlined(S \cup {r}) = Outlined(S) \cup Pixels(r)
      /\ Building(S \cup {r}) = Building(S) \cup (Pixels(r) \cap picture)
  BY DEF Outlined, Building
<1>2. Outlined(S) \cap Pixels(r) = {} /\ Building(S) \cap (Pixels(r) \cap picture) = {}
      /\ Building(S) \subseteq Outlined(S)
  BY DEF Outlined, Building, Apart
<1>3. IsFiniteSet(Pixels(r)) /\ IsFiniteSet(Pixels(r) \cap picture)
  BY PixelsFinite
<1>4. IsFiniteSet(Building(S))
  BY <1>2, FS_Subset
<1>5. Cardinality(Outlined(S) \cup Pixels(r)) = Cardinality(Outlined(S)) + Size(r)
      /\ IsFiniteSet(Outlined(S) \cup Pixels(r))
  <2>1. Cardinality(Outlined(S) \cap Pixels(r)) = 0
    BY <1>2, FS_EmptySet
  <2>2. Cardinality(Outlined(S)) \in Nat /\ Size(r) \in Nat
    BY <1>3, FS_CardinalityType, PixelsFinite
  <2>3. /\ IsFiniteSet(Outlined(S) \cup Pixels(r))
        /\ Cardinality(Outlined(S) \cup Pixels(r))
             = Cardinality(Outlined(S)) + Cardinality(Pixels(r)) - Cardinality(Outlined(S) \cap Pixels(r))
    BY <1>3, FS_Union
  <2>4. Size(r) = Cardinality(Pixels(r))
    BY DEF Size
  <2>5. QED
    BY <2>1, <2>2, <2>3, <2>4
<1>6. Cardinality(Building(S) \cup (Pixels(r) \cap picture)) = Cardinality(Building(S)) + Filled(r)
  <2>1. Cardinality(Building(S) \cap (Pixels(r) \cap picture)) = 0
    BY <1>2, FS_EmptySet
  <2>2. Cardinality(Building(S)) \in Nat /\ Filled(r) \in Nat
    BY <1>4, FS_CardinalityType, PixelsFinite
  <2>3. Cardinality(Building(S) \cup (Pixels(r) \cap picture))
          = Cardinality(Building(S)) + Cardinality(Pixels(r) \cap picture)
              - Cardinality(Building(S) \cap (Pixels(r) \cap picture))
    BY <1>3, <1>4, FS_Union
  <2>4. Filled(r) = Cardinality(Pixels(r) \cap picture)
    BY DEF Filled
  <2>5. QED
    BY <2>1, <2>2, <2>3, <2>4
<1>7. /\ Cardinality(Outlined(S)) \in Nat /\ Cardinality(Building(S)) \in Nat
      /\ Size(r) \in Nat /\ Filled(r) \in Nat
  BY <1>4, FS_CardinalityType, PixelsFinite
<1>8. \A a, b, c, d \in Nat : 100 * a >= 60 * b /\ 100 * c >= 60 * d => 100 * (a + c) >= 60 * (b + d)
  OBVIOUS
<1>9. 100 * (Cardinality(Building(S)) + Filled(r)) >= 60 * (Cardinality(Outlined(S)) + Size(r))
  BY <1>7, <1>8 DEF SuccessShare
<1>10. QED
  BY <1>1, <1>5, <1>6, <1>9 DEF SuccessShare

\* The grid: it is at the lines, and frames the picture.
Near(g, S) == \A c \in S : \E i \in DOMAIN g : g[i] - c < MaxGroup /\ c - g[i] < MaxGroup

GridInv ==
    /\ lines \in Lines
    /\ grid # <<>> => /\ Frame(grid[1], BoxWidth) /\ Near(grid[1], lines[1])
                      /\ Frame(grid[2], BoxHeight) /\ Near(grid[2], lines[2])

\* The property is what the invariant says of the grid.
LEMMA GridInvFollows ==
    GridInv => GridFollowsTheLines
<1> SUFFICES ASSUME GridInv, grid # <<>>, NEW d \in 1 .. 2
             PROVE  LET g == grid[d]
                    IN  /\ Head(g) = 0 /\ Last(g) = (IF d = 1 THEN BoxWidth ELSE BoxHeight)
                        /\ \A i \in 1 .. Len(g) - 1 : g[i] < g[i + 1]
                        /\ \A c \in lines[d] : \E i \in DOMAIN g : g[i] - c < MaxGroup /\ c - g[i] < MaxGroup
  BY DEF GridFollowsTheLines
<1>1. Frame(grid[d], IF d = 1 THEN BoxWidth ELSE BoxHeight) /\ Near(grid[d], lines[d])
  BY DEF GridInv
<1>2. Head(grid[d]) = grid[d][1] /\ Last(grid[d]) = grid[d][Len(grid[d])]
  BY <1>1 DEF Frame, Last
<1>3. QED
  BY <1>1, <1>2 DEF Frame, Near, Rising

\* Numbers of a set in ascending order.
InOrder(s, S) ==
    /\ s \in [1 .. Cardinality(S) -> S]
    /\ \A i, j \in 1 .. Cardinality(S) : i < j => s[i] < s[j]

\* A finite set of numbers can be put in order.
LEMMA OrderExists ==
    ASSUME NEW S, IsFiniteSet(S), S \subseteq Nat
    PROVE  \E s : InOrder(s, S)
<1> DEFINE N == Cardinality(S)
           X == {n \in 0 .. N : \A T \in SUBSET S : Cardinality(T) = n => \E s : InOrder(s, T)}
<1>1. N \in Nat
  BY FS_CardinalityType
<1>2. 0 \in X
  <2>1. ASSUME NEW T \in SUBSET S, Cardinality(T) = 0 PROVE InOrder(<<>>, T)
    <3>1. T = {}
      BY <2>1, FS_Subset, FS_EmptySet
    <3>2. 1 .. Cardinality(T) = {}
      BY <2>1
    <3>3. QED
      BY <3>2 DEF InOrder
  <2>2. \A T \in SUBSET S : Cardinality(T) = 0 => \E s : InOrder(s, T)
    BY <2>1
  <2>3. QED
    BY <1>1, <2>2
<1>3. ASSUME NEW n \in 1 .. N, n - 1 \in X PROVE n \in X
  <2>1. ASSUME NEW T \in SUBSET S, Cardinality(T) = n PROVE \E s : InOrder(s, T)
    <3>1. IsFiniteSet(T) /\ n \in Nat \ {0}
      <4>1. IsFiniteSet(T)
        BY FS_Subset
      <4>2. QED
        BY <1>1, <4>1
    <3>2. T # {} /\ T \subseteq Nat
      BY <2>1, <3>1, FS_EmptySet
    <3>3. PICK m \in T : \A x \in T : m <= x
      BY <3>2, LeastNumber
    <3>4. Cardinality(T \ {m}) = n - 1
      BY <2>1, <3>1, FS_RemoveElement
    <3>5. PICK s : InOrder(s, T \ {m})
      BY <1>3, <3>4
    <3> DEFINE t == [i \in 1 .. n |-> IF i = 1 THEN m ELSE s[i - 1]]
    <3>6. \A i \in 1 .. n : i # 1 => i - 1 \in 1 .. n - 1 /\ s[i - 1] \in T \ {m}
      <4>1. \A i \in 1 .. n : i # 1 => i - 1 \in 1 .. n - 1
        BY <3>1
      <4>2. s \in [1 .. n - 1 -> T \ {m}]
        BY <3>4, <3>5 DEF InOrder
      <4>3. QED
        BY <4>1, <4>2
    <3>7. t \in [1 .. n -> T]
      BY <3>6
    <3>8. ASSUME NEW i \in 1 .. n, NEW j \in 1 .. n, i < j PROVE t[i] < t[j]
      <4>1. j # 1 /\ t[j] = s[j - 1] /\ t[j] \in T \ {m}
        BY <1>1, <3>6, <3>8
      <4>2. CASE i = 1
        <5>1. t[i] = m /\ m <= t[j] /\ m # t[j] /\ m \in Nat /\ t[j] \in Nat
          BY <3>2, <3>3, <4>1, <4>2
        <5>2. QED
          BY <5>1
      <4>3. CASE i # 1
        <5>1. t[i] = s[i - 1] /\ i - 1 \in 1 .. n - 1 /\ j - 1 \in 1 .. n - 1 /\ i - 1 < j - 1
          BY <1>1, <3>6, <3>8, <4>1, <4>3
        <5>2. QED
          BY <3>4, <3>5, <4>1, <5>1 DEF InOrder
      <4>4. QED
        BY <4>2, <4>3
    <3> HIDE DEF t
    <3>9. InOrder(t, T)
      BY <2>1, <3>7, <3>8 DEF InOrder
    <3>10. QED
      BY <3>9
  <2>2. QED
    BY <1>1, <2>1
<1>4. \A n \in 1 .. N : n - 1 \in X => n \in X
  BY <1>3
<1> HIDE DEF X
<1>5. 0 .. N \subseteq X
  BY <1>1, <1>2, <1>4, Upwards
<1>6. N \in X
  BY <1>1, <1>5
<1>7. QED
  BY <1>6 DEF X

\* Sorting lists every number of the set.
LEMMA AscendLists ==
    ASSUME NEW S, IsFiniteSet(S), S \subseteq Nat
    PROVE  /\ InOrder(Ascend(S), S) /\ Ascend(S) \in Seq(Nat) /\ Len(Ascend(S)) = Cardinality(S)
           /\ \A c \in S : \E i \in 1 .. Cardinality(S) : Ascend(S)[i] = c
<1> DEFINE s == Ascend(S)
           n == Cardinality(S)
<1>1. n \in Nat
  BY FS_CardinalityType
<1>2. InOrder(s, S)
  <2>1. \E t \in [1 .. n -> S] : \A i, j \in 1 .. n : i < j => t[i] < t[j]
    BY OrderExists DEF InOrder
  <2>2. QED
    BY <2>1 DEF Ascend, InOrder
<1> HIDE DEF s
<1>3. s \in Seq(Nat) /\ Len(s) = n
  <2>1. s \in [1 .. n -> Nat]
    BY <1>2 DEF InOrder
  <2> HIDE DEF n
  <2>2. QED
    BY <1>1, <2>1
<1>4. s \in Injection(1 .. n, S)
  <2>1. \A i, j \in 1 .. n : s[i] = s[j] => i = j
    <3> TAKE i, j \in 1 .. n
    <3>1. i < j => s[i] < s[j]
      BY <1>2 DEF InOrder
    <3>2. j < i => s[j] < s[i]
      BY <1>2 DEF InOrder
    <3>3. s[i] \in Nat /\ s[j] \in Nat
      BY <1>2 DEF InOrder
    <3>4. QED
      BY <3>1, <3>2, <3>3
  <2>2. QED
    BY <1>2, <2>1 DEF InOrder, Injection, IsInjective
<1>5. s \in Surjection(1 .. n, S)
  <2>1. 1 \in Int /\ n \in Int /\ Cardinality(1 .. n) = n
    BY <1>1, FS_Interval
  <2>2. QED
    BY <1>4, <2>1, FS_Injection
<1>6. \A c \in S : \E i \in 1 .. n : s[i] = c
  BY <1>5 DEF Surjection
<1>7. QED
  BY <1>2, <1>3, <1>6 DEF s

\* A group of coordinates goes from its first to its last, and is not too wide.
Group(q) ==
    /\ q \in Seq(Nat) /\ Len(q) # 0
    /\ \A j \in 1 .. Len(q) : q[1] <= q[j] /\ q[j] <= q[Len(q)]
    /\ q[Len(q)] - q[1] < MaxGroup

\* The first i coordinates are in groups that follow one another.
Grouped(G, s, i) ==
    /\ G \in Seq(Seq(Nat)) /\ (Len(G) = 0 <=> i = 0)
    /\ \A k \in 1 .. Len(G) : Group(G[k])
    /\ \A k \in 1 .. Len(G) - 1 : G[k][Len(G[k])] < G[k + 1][1]
    /\ i > 0 => G[Len(G)][Len(G[Len(G)])] = s[i]
    /\ \A j \in 1 .. i : \E k \in 1 .. Len(G) : G[k][1] <= s[j] /\ s[j] <= G[k][Len(G[k])]

\* A list with one element more, and with one less.
LEMMA AppendIs ==
    ASSUME NEW T, NEW q \in Seq(T), NEW c \in T
    PROVE  /\ Append(q, c) \in Seq(T) /\ Len(Append(q, c)) = Len(q) + 1
           /\ Append(q, c)[Len(q) + 1] = c /\ \A j \in 1 .. Len(q) : Append(q, c)[j] = q[j]
  OBVIOUS

\* A sequence without its last element.
LEMMA FrontIs ==
    ASSUME NEW T, NEW q \in Seq(T), Len(q) # 0
    PROVE  /\ Front(q) \in Seq(T) /\ Len(Front(q)) = Len(q) - 1
           /\ \A j \in 1 .. Len(q) - 1 : Front(q)[j] = q[j]
<1>1. 1 \in Int /\ Len(q) - 1 \in Int /\ \A i \in 1 .. Len(q) - 1 : q[i] \in T
  OBVIOUS
<1>2. /\ SubSeq(q, 1, Len(q) - 1) \in Seq(T)
      /\ Len(SubSeq(q, 1, Len(q) - 1)) = IF 1 <= Len(q) - 1 THEN Len(q) - 1 - 1 + 1 ELSE 0
      /\ \A i \in 1 .. Len(q) - 1 - 1 + 1 : SubSeq(q, 1, Len(q) - 1)[i] = q[1 + i - 1]
  BY <1>1, SubSeqProperties
<1>3. Len(q) \in Nat /\ Len(q) >= 1 /\ Len(q) - 1 - 1 + 1 = Len(q) - 1 /\ \A i \in 1 .. Len(q) - 1 : 1 + i - 1 = i
  OBVIOUS
<1>4. Front(q) = SubSeq(q, 1, Len(q) - 1)
  BY DEF Front
<1> HIDE DEF Front
<1>5. Len(Front(q)) = Len(q) - 1
  BY <1>2, <1>3, <1>4
<1>6. \A i \in 1 .. Len(q) - 1 : Front(q)[i] = q[i]
  BY <1>2, <1>3, <1>4
<1>7. QED
  BY <1>2, <1>4, <1>5, <1>6

\* One more coordinate is in the last group, or begins a group.
LEMMA GatheredKeeps ==
    ASSUME OutlineAssumption, NEW s \in Seq(Nat), NEW i \in 1 .. Len(s),
           \A j \in 1 .. i - 1 : s[j] < s[i],
           NEW G, Grouped(G, s, i - 1)
    PROVE  Grouped(Gathered(G, s[i]), s, i)
<1> DEFINE c == s[i]
           n == Len(G)
           q == G[n]
<1>1. /\ G \in Seq(Seq(Nat)) /\ n \in Nat /\ i \in Nat \ {0} /\ c \in Nat
      /\ \A k \in 1 .. n : G[k] \in Seq(Nat) /\ Group(G[k]) /\ Len(G[k]) \in Nat \ {0}
      /\ \A k \in 1 .. n - 1 : G[k][Len(G[k])] < G[k + 1][1]
  <2>1. G \in Seq(Seq(Nat)) /\ \A k \in 1 .. n : Group(G[k])
    BY DEF Grouped
  <2>2. \A k \in 1 .. n - 1 : G[k][Len(G[k])] < G[k + 1][1]
    BY DEF Grouped
  <2>3. \A k \in 1 .. n : G[k] \in Seq(Nat) /\ Len(G[k]) # 0
    BY <2>1 DEF Group
  <2>4. n \in Nat /\ i \in Nat \ {0} /\ c \in Nat
    BY <2>1
  <2> HIDE DEF n, c
  <2>5. \A k \in 1 .. n : Len(G[k]) \in Nat \ {0}
    BY <2>3
  <2>6. QED
    BY <2>1, <2>2, <2>3, <2>4, <2>5
<1>2. n = 0 <=> i = 1
  BY <1>1 DEF Grouped
<1>3. n # 0 => q \in Seq(Nat) /\ q[Len(q)] < c /\ Len(q) \in Nat \ {0} /\ Group(q)
  <2>1. n # 0 => i - 1 \in 1 .. i - 1 /\ q[Len(q)] = s[i - 1]
    BY <1>1, <1>2 DEF Grouped
  <2>2. n # 0 => n \in 1 .. n
    BY ONLY <1>1
  <2>3. n # 0 => q[Len(q)] < c
    BY <2>1
  <2>4. QED
    BY ONLY <1>1, <2>2, <2>3
<1>4. \A j \in 1 .. i - 1 : \E k \in 1 .. n : G[k][1] <= s[j] /\ s[j] <= G[k][Len(G[k])]
  BY DEF Grouped
<1>5. MaxGroup \in Nat \ {0}
  BY DEF OutlineAssumption
<1>9. q = G[Len(G)] /\ n = Len(G) /\ (G = <<>> <=> n = 0)
  BY <1>1
<1> HIDE DEF n, q, c
<1>6. CASE n # 0 /\ Joins(q, c)
  <2> DEFINE q2 == Append(q, c)
             H == Append(Front(G), q2)
             m == Len(q)
  <2>0. n \in 1 .. n /\ G[n] = q
    BY <1>1, <1>6 DEF q
  <2>1. /\ q2 \in Seq(Nat) /\ Len(q2) = m + 1 /\ q2[m + 1] = c /\ m \in Nat \ {0}
        /\ \A j \in 1 .. m : q2[j] = q[j]
    BY <1>1, <1>3, <1>6, AppendIs
  <2> HIDE DEF q2
  <2>2. /\ H \in Seq(Seq(Nat)) /\ Len(H) = n /\ H[n] = q2
        /\ \A k \in 1 .. n - 1 : H[k] = G[k]
    <3>1. /\ Front(G) \in Seq(Seq(Nat)) /\ Len(Front(G)) = n - 1
          /\ \A k \in 1 .. n - 1 : Front(G)[k] = G[k]
      BY <1>1, <1>6, <1>9, FrontIs
    <3>2. QED
      <4>1. n - 1 \in Nat /\ (n - 1) + 1 = n
        BY <1>1, <1>6
      <4>4. q2 \in Seq(Nat) /\ Front(G) \in Seq(Seq(Nat))
        BY <2>1, <3>1
      <4>2. /\ Append(Front(G), q2) \in Seq(Seq(Nat)) /\ Len(Append(Front(G), q2)) = Len(Front(G)) + 1
            /\ Append(Front(G), q2)[Len(Front(G)) + 1] = q2
            /\ \A k \in 1 .. Len(Front(G)) : Append(Front(G), q2)[k] = Front(G)[k]
        BY <4>4, AppendIs
      <4>3. QED
        BY <3>1, <4>1, <4>2
  <2>3. Gathered(G, c) = H
    BY <1>6, <1>9 DEF Gathered, Last, q2
  <2>4. Group(q2)
    <3>1. \A j \in 1 .. m : q[1] <= q[j] /\ q[j] <= q[m] /\ q[j] \in Nat
      <4>1. \A j \in 1 .. Len(q) : q[1] <= q[j] /\ q[j] <= q[Len(q)]
        BY <1>3, <1>6 DEF Group
      <4>2. \A j \in 1 .. Len(q) : q[j] \in Nat
        <5>1. q \in Seq(Nat)
          BY <1>3, <1>6
        <5>2. QED
          BY ONLY <5>1
      <4>3. QED
        BY <4>1, <4>2
    <3>2. q2[1] = q[1] /\ q[1] \in Nat /\ q[m] < c /\ q[m] \in Nat
      <4>1. 1 \in 1 .. m /\ m \in 1 .. m
        BY <2>1
      <4>2. QED
        BY <1>3, <1>6, <2>1, <3>1, <4>1
    <3>3. c - q[1] < MaxGroup
      BY <1>3, <1>6 DEF Joins
    <3>4. \A j \in 1 .. m + 1 : q2[1] <= q2[j] /\ q2[j] <= c
      <4> TAKE j \in 1 .. m + 1
      <4>1. CASE j = m + 1
        <5>1. 1 \in 1 .. m /\ q[1] <= q[m]
          <6>1. 1 \in 1 .. m
            BY <2>1
          <6>2. QED
            BY <3>1, <6>1
        <5>2. q2[j] = c /\ c \in Nat /\ q2[1] = q[1] /\ q[1] \in Nat /\ q[m] < c /\ q[m] \in Nat
          BY <1>1, <2>1, <3>2, <4>1
        <5>3. QED
          BY ONLY <5>1, <5>2
      <4>2. CASE j \in 1 .. m
        <5>1. q2[j] = q[j] /\ q[1] <= q[j] /\ q[j] <= q[m] /\ q[j] \in Nat
          BY <2>1, <3>1, <4>2
        <5>2. c \in Nat /\ q[m] \in Nat /\ q[m] < c /\ q2[1] = q[1] /\ q[1] \in Nat
          BY <1>1, <3>2
        <5>3. q2[1] <= q2[j]
          BY <5>1, <5>2
        <5>4. q2[j] <= c
          <6>1. \A u, v, w \in Nat : u <= v /\ v < w => u <= w
            OBVIOUS
          <6>2. q[j] <= c
            BY <5>1, <5>2, <6>1
          <6>3. QED
            BY <5>1, <6>2
        <5>5. QED
          BY <5>3, <5>4
      <4>3. QED
        BY <2>1, <4>1, <4>2
    <3> HIDE DEF q2, m
    <3>5. QED
      BY <2>1, <3>2, <3>3, <3>4 DEF Group
  <2> HIDE DEF H
  <2>5. \A k \in 1 .. n : H[k][1] = G[k][1] /\ (k # n => H[k] = G[k])
    <3> TAKE k \in 1 .. n
    <3>1. CASE k = n
      <4>1. q2[1] = q[1]
        <5>1. 1 \in 1 .. m
          BY <2>1
        <5>2. QED
          BY <2>1, <5>1
      <4>2. QED
        BY <2>0, <2>2, <3>1, <4>1
    <3>2. CASE k # n
      <4>1. k \in 1 .. n - 1
        BY <1>1, <3>2
      <4>2. QED
        BY <2>2, <3>2, <4>1
    <3>3. QED
      BY <3>1, <3>2
  <2>6. \A k \in 1 .. n : Group(H[k])
    BY <1>1, <2>2, <2>4, <2>5
  <2>7. \A k \in 1 .. n - 1 : H[k][Len(H[k])] < H[k + 1][1]
    <3>1. \A k \in 1 .. n - 1 : k \in 1 .. n /\ k + 1 \in 1 .. n /\ k # n
      BY ONLY <1>1
    <3>2. QED
      BY ONLY <1>1, <2>5, <3>1
  <2>8. H[n][Len(H[n])] = c
    BY <2>1, <2>2
  <2>9. \A j \in 1 .. i : \E k \in 1 .. n : H[k][1] <= s[j] /\ s[j] <= H[k][Len(H[k])]
    <3> TAKE j \in 1 .. i
    <3>1. CASE j = i
      <4>1. n \in 1 .. n /\ H[n][1] <= H[n][Len(H[n])]
        <5>1. 1 \in 1 .. Len(q2) /\ q2[1] <= q2[Len(q2)]
          BY ONLY <2>1, <2>4 DEF Group
        <5>2. QED
          BY <2>0, <2>2, <5>1
      <4>2. s[j] = H[n][Len(H[n])] /\ s[j] \in Nat
        BY <1>1, <2>8, <3>1 DEF c
      <4>3. H[n][1] <= s[j] /\ s[j] <= H[n][Len(H[n])]
        BY ONLY <4>1, <4>2
      <4>4. QED
        BY <4>1, <4>3
    <3>2. CASE j \in 1 .. i - 1
      <4>1. PICK k \in 1 .. n : G[k][1] <= s[j] /\ s[j] <= G[k][Len(G[k])]
        BY <1>4, <3>2
      <4>2. CASE k = n
        <5>1. s[j] < c /\ H[n][1] <= s[j] /\ s[j] \in Nat
          <6>1. s[j] < c
            BY <3>2 DEF c
          <6>2. s[j] \in Nat
            BY ONLY <3>2
          <6>3. QED
            BY <2>5, <4>1, <4>2, <6>1, <6>2
        <5>2. s[j] <= H[n][Len(H[n])]
          BY ONLY <1>1, <2>8, <5>1
        <5>3. QED
          BY <2>0, <5>1, <5>2
      <4>3. CASE k # n
        BY <2>5, <4>1, <4>3
      <4>4. QED
        BY <4>2, <4>3
    <3>3. QED
      BY <1>1, <3>1, <3>2
  <2>10. Grouped(H, s, i)
    <3>1. n \in Nat \ {0} /\ i > 0 /\ i # 0 /\ c = s[i]
      BY <1>1, <1>6 DEF c
    <3>2. QED
      BY <2>2, <2>6, <2>7, <2>8, <2>9, <3>1 DEF Grouped
  <2>11. QED
    BY <2>3, <2>10 DEF c
<1>7. CASE n = 0 \/ ~ Joins(q, c)
  <2> DEFINE H == Append(G, <<c>>)
  <2>1. /\ H \in Seq(Seq(Nat)) /\ Len(H) = n + 1 /\ H[n + 1] = <<c>>
        /\ \A k \in 1 .. n : H[k] = G[k]
    <3>1. <<c>> \in Seq(Nat)
      BY <1>1
    <3>2. QED
      BY ONLY <1>1, <1>9, <3>1, AppendIs
  <2> HIDE DEF H
  <2>2. Gathered(G, c) = H
    BY <1>7, <1>9 DEF Gathered, Last, H
  <2>3. Group(<<c>>)
    BY <1>1, <1>5 DEF Group
  <2>4. \A k \in 1 .. n + 1 : Group(H[k])
    <3> TAKE k \in 1 .. n + 1
    <3>1. CASE k = n + 1
      BY <2>1, <2>3, <3>1
    <3>2. CASE k \in 1 .. n
      BY <1>1, <2>1, <3>2
    <3>3. QED
      BY <1>1, <3>1, <3>2
  <2>5. \A k \in 1 .. n : H[k][Len(H[k])] < H[k + 1][1]
    <3> TAKE k \in 1 .. n
    <3>1. CASE k = n
      <4>1. H[k] = q /\ H[k + 1][1] = c /\ n # 0
        BY ONLY <1>1, <2>1, <3>1 DEF q
      <4>2. QED
        BY <1>3, <4>1
    <3>2. CASE k # n
      <4>1. k \in 1 .. n - 1 /\ k + 1 \in 1 .. n /\ H[k] = G[k] /\ H[k + 1] = G[k + 1]
        BY ONLY <1>1, <2>1, <3>2
      <4>2. QED
        BY ONLY <1>1, <4>1
    <3>3. QED
      BY <3>1, <3>2
  <2>6. H[n + 1][Len(H[n + 1])] = c
    BY <2>1
  <2>7. \A j \in 1 .. i : \E k \in 1 .. n + 1 : H[k][1] <= s[j] /\ s[j] <= H[k][Len(H[k])]
    <3> TAKE j \in 1 .. i
    <3>1. CASE j = i
      <4>1. n + 1 \in 1 .. n + 1 /\ H[n + 1][1] = c /\ c = s[j] /\ c <= c
        BY ONLY <1>1, <2>1, <3>1 DEF c
      <4>2. PICK k \in 1 .. n + 1 : k = n + 1
        BY ONLY <4>1
      <4>3. H[k][1] <= s[j] /\ s[j] <= H[k][Len(H[k])]
        BY <1>1, <2>6, <4>1, <4>2
      <4>4. QED
        BY <4>3
    <3>2. CASE j \in 1 .. i - 1
      <4>1. PICK k \in 1 .. n : G[k][1] <= s[j] /\ s[j] <= G[k][Len(G[k])]
        BY <1>4, <3>2
      <4>2. k \in 1 .. n + 1 /\ H[k] = G[k]
        BY <1>1, <2>1
      <4>3. QED
        BY <4>1, <4>2
    <3>3. j = i \/ j \in 1 .. i - 1
      BY <1>1
    <3>4. QED
      BY <3>1, <3>2, <3>3
  <2>8. Grouped(H, s, i)
    <3>1. n + 1 \in Nat \ {0} /\ n + 1 - 1 = n /\ i > 0 /\ i # 0 /\ c = s[i]
      BY <1>1 DEF c
    <3>2. QED
      <4>1. Len(H) = n + 1 /\ (Len(H) = 0 <=> i = 0) /\ H \in Seq(Seq(Nat))
        BY <1>1, <2>1, <3>1
      <4>2. \A k \in 1 .. Len(H) - 1 : H[k][Len(H[k])] < H[k + 1][1]
        <5>1. Len(H) - 1 = n
          BY <1>1, <4>1
        <5>2. QED
          BY <2>5, <5>1
      <4>3. H[Len(H)][Len(H[Len(H)])] = s[i]
        BY <2>6, <3>1, <4>1
      <4>4. /\ \A k \in 1 .. Len(H) : Group(H[k])
            /\ \A j \in 1 .. i : \E k \in 1 .. Len(H) : H[k][1] <= s[j] /\ s[j] <= H[k][Len(H[k])]
        BY <2>4, <2>7, <4>1
      <4>5. QED
        BY <4>1, <4>2, <4>3, <4>4 DEF Grouped
  <2>9. QED
    BY <2>2, <2>8 DEF c
<1>8. QED
  BY <1>6, <1>7

\* The lists of groups, as coordinates are gathered one after another.
Gathering(v, s) ==
    /\ v \in [0 .. Len(s) -> Seq(Seq(Nat))] /\ v[0] = <<>>
    /\ \A i \in 1 .. Len(s) : v[i] = Gathered(v[i - 1], s[i])
    /\ FoldLeft(Gathered, <<>>, s) = v[Len(s)]

\* A group has one coordinate or more; gathering gives groups.
LEMMA GatheredTyped ==
    ASSUME NEW G \in Seq(Seq(Nat)), NEW c \in Nat
    PROVE  Gathered(G, c) \in Seq(Seq(Nat))
<1>1. <<c>> \in Seq(Nat)
  OBVIOUS
<1>2. Append(G, <<c>>) \in Seq(Seq(Nat))
  BY <1>1, AppendIs
<1>3. ASSUME G # <<>> PROVE Append(Front(G), Append(Last(G), c)) \in Seq(Seq(Nat))
  <2>1. Len(G) # 0 /\ Last(G) \in Seq(Nat)
    BY <1>3 DEF Last
  <2>2. Front(G) \in Seq(Seq(Nat))
    BY <2>1, FrontIs
  <2>3. Append(Last(G), c) \in Seq(Nat)
    BY <2>1, AppendIs
  <2>4. QED
    BY <2>2, <2>3, AppendIs
<1>4. QED
  BY <1>2, <1>3 DEF Gathered

\* There are groups after every coordinate: the fold has its steps.
LEMMA GathersAll ==
    ASSUME NEW s \in Seq(Nat)
    PROVE  \E v : Gathering(v, s)
<1> DEFINE n == Len(s)
           V == Seq(Seq(Nat))
           step == [q \in V \X (1 .. n) |-> Gathered(q[1], s[q[2]])]
           Solves(f) == f = [T \in SUBSET DOMAIN s |->
                               IF T = {} THEN <<>> ELSE Gathered(f[T \ {Max(T)}], s[Max(T)])]
           f0 == CHOOSE f : Solves(f)
<1>1. n \in Nat /\ DOMAIN s = 1 .. n /\ \A i \in 1 .. n : s[i] \in Nat
  OBVIOUS
<1>2. \A q \in V, i \in 1 .. n : Gathered(q, s[i]) \in V
  BY <1>1, GatheredTyped
<1>3. \A q \in V, i \in 1 .. n : step[<<q, i>>] = Gathered(q, s[i])
  OBVIOUS
<1>5. <<>> \in V
  OBVIOUS
<1> HIDE DEF step, n, V
<1>4. \A q \in V : \A i \in 1 .. n : step[<<q, i>>] \in V
  BY <1>2, <1>3
<1>6. PICK f : FoldSolution(f, n, V, <<>>, step)
  BY <1>1, <1>4, <1>5, FoldExists
<1>7. \A T \in SUBSET (1 .. n) : T # {} => Max(T) \in 1 .. n /\ T \ {Max(T)} \in SUBSET (1 .. n)
  BY <1>1, MaxOfSome
<1>8. Solves(f)
  BY <1>1, <1>3, <1>6, <1>7 DEF FoldSolution
<1>9. Solves(f0)
  BY <1>8
<1>10. FoldLeft(Gathered, <<>>, s) = f0[1 .. n]
  BY <1>1 DEF FoldLeft, MapThenFoldSet
<1> HIDE DEF f0
<1>11. FoldSolves(f0, n, V, <<>>, step)
  <2>1. f0[{}] = <<>>
    BY <1>1, <1>9
  <2>2. \A T \in SUBSET (1 .. n) : T # {} /\ f0[T \ {Max(T)}] \in V
          => f0[T] = step[<<f0[T \ {Max(T)}], Max(T)>>]
    BY <1>1, <1>3, <1>7, <1>9
  <2>3. QED
    BY <2>1, <2>2 DEF FoldSolves
<1> HIDE DEF Solves
<1>12. PICK v : FoldPasses(v, n, V, <<>>, step, f0[1 .. n])
  BY <1>1, <1>4, <1>5, <1>11, FoldRuns
<1>13. v \in [0 .. n -> V] /\ v[0] = <<>> /\ FoldLeft(Gathered, <<>>, s) = v[n]
  BY <1>10, <1>12 DEF FoldPasses
<1>14. \A i \in 1 .. n : v[i] = Gathered(v[i - 1], s[i])
  <2>1. \A i \in 1 .. n : v[i - 1] \in V
    BY <1>1, <1>13
  <2>2. QED
    BY <1>3, <1>12, <2>1 DEF FoldPasses
<1>15. QED
  BY <1>13, <1>14 DEF Gathering, n, V

\* All coordinates, in order, are gathered in groups.
LEMMA AllGrouped ==
    ASSUME OutlineAssumption, NEW s \in Seq(Nat),
           \A i, j \in 1 .. Len(s) : i < j => s[i] < s[j]
    PROVE  Grouped(FoldLeft(Gathered, <<>>, s), s, Len(s))
<1> DEFINE n == Len(s)
<1>1. PICK v : Gathering(v, s)
  BY GathersAll
<1> DEFINE X == {i \in 0 .. n : Grouped(v[i], s, i)}
<1>2. n \in Nat
  OBVIOUS
<1>3. 0 \in X
  <2>1. v[0] = <<>> /\ <<>> \in Seq(Seq(Nat)) /\ Len(<<>>) = 0
    BY <1>1 DEF Gathering
  <2>2. Grouped(v[0], s, 0)
    BY <2>1 DEF Grouped
  <2>3. QED
    BY <1>2, <2>2
<1>4. ASSUME NEW i \in 1 .. n, i - 1 \in X PROVE i \in X
  <2>1. v[i] = Gathered(v[i - 1], s[i])
    BY <1>1 DEF Gathering
  <2>2. \A j \in 1 .. i - 1 : s[j] < s[i]
    <3> TAKE j \in 1 .. i - 1
    <3>1. j \in 1 .. Len(s) /\ i \in 1 .. Len(s) /\ j < i
      BY <1>2
    <3>2. QED
      BY <3>1
  <2>3. Grouped(v[i - 1], s, i - 1)
    BY ONLY <1>4
  <2>4. Grouped(Gathered(v[i - 1], s[i]), s, i)
    BY <2>2, <2>3, GatheredKeeps
  <2>5. QED
    BY <1>2, <2>1, <2>4
<1>5. \A i \in 1 .. n : i - 1 \in X => i \in X
  BY <1>4
<1> HIDE DEF X
<1>6. 0 .. n \subseteq X
  BY <1>2, <1>3, <1>5, Upwards
<1>7. n \in X
  BY <1>2, <1>6
<1>8. QED
  BY <1>1, <1>7 DEF X, Gathering

\* Adding up the coordinates of a group.
Adding(v, q) ==
    /\ v \in [0 .. Len(q) -> Nat] /\ v[0] = 0
    /\ \A i \in 1 .. Len(q) : v[i] = v[i - 1] + q[i]
    /\ FoldLeft(LAMBDA a, b : a + b, 0, q) = v[Len(q)]

\* There is a sum after every number: the fold has its steps.
LEMMA AddsAll ==
    ASSUME NEW q \in Seq(Nat)
    PROVE  \E v : Adding(v, q)
<1> DEFINE n == Len(q)
           step == [p \in Nat \X (1 .. n) |-> p[1] + q[p[2]]]
           Solves(f) == f = [T \in SUBSET DOMAIN q |->
                               IF T = {} THEN 0 ELSE f[T \ {Max(T)}] + q[Max(T)]]
           f0 == CHOOSE f : Solves(f)
<1>1. n \in Nat /\ DOMAIN q = 1 .. n /\ \A i \in 1 .. n : q[i] \in Nat
  OBVIOUS
<1>3. \A a \in Nat, i \in 1 .. n : step[<<a, i>>] = a + q[i]
  OBVIOUS
<1> HIDE DEF step, n
<1>4. \A a \in Nat : \A i \in 1 .. n : step[<<a, i>>] \in Nat
  <2> TAKE a \in Nat
  <2> TAKE i \in 1 .. n
  <2>1. q[i] \in Nat /\ step[<<a, i>>] = a + q[i]
    BY <1>1, <1>3
  <2>2. QED
    BY <2>1
<1>5. 0 \in Nat
  OBVIOUS
<1>6. PICK f : FoldSolution(f, n, Nat, 0, step)
  BY <1>1, <1>4, <1>5, FoldExists
<1>7. \A T \in SUBSET (1 .. n) : T # {} => Max(T) \in 1 .. n /\ T \ {Max(T)} \in SUBSET (1 .. n)
  BY <1>1, MaxOfSome
<1>8. Solves(f)
  BY <1>1, <1>3, <1>6, <1>7 DEF FoldSolution
<1>9. Solves(f0)
  BY <1>8
<1>10. FoldLeft(LAMBDA a, b : a + b, 0, q) = f0[1 .. n]
  BY <1>1 DEF FoldLeft, MapThenFoldSet
<1> HIDE DEF f0
<1>11. FoldSolves(f0, n, Nat, 0, step)
  <2>1. f0[{}] = 0
    BY <1>1, <1>9
  <2>2. \A T \in SUBSET (1 .. n) : T # {} /\ f0[T \ {Max(T)}] \in Nat
          => f0[T] = step[<<f0[T \ {Max(T)}], Max(T)>>]
    BY <1>1, <1>3, <1>7, <1>9
  <2>3. QED
    BY <2>1, <2>2 DEF FoldSolves
<1> HIDE DEF Solves
<1>12. PICK v : FoldPasses(v, n, Nat, 0, step, f0[1 .. n])
  BY <1>1, <1>4, <1>5, <1>11, FoldRuns
<1>13. v \in [0 .. n -> Nat] /\ v[0] = 0 /\ FoldLeft(LAMBDA a, b : a + b, 0, q) = v[n]
  BY <1>10, <1>12 DEF FoldPasses
<1>14. \A i \in 1 .. n : v[i] = v[i - 1] + q[i]
  <2>1. \A i \in 1 .. n : v[i - 1] \in Nat
    <3>1. \A i \in 1 .. n : i - 1 \in 0 .. n
      BY <1>1
    <3>2. QED
      BY <1>13, <3>1
  <2>2. QED
    BY <1>3, <1>12, <2>1 DEF FoldPasses
<1>15. QED
  BY <1>13, <1>14 DEF Adding, n

\* The rounded mean of n numbers from lo to hi is one of them.
LEMMA MeanRounded ==
    ASSUME NEW sum \in Nat, NEW n \in Nat \ {0}, NEW lo \in Nat, NEW hi \in Nat,
           n * lo <= sum, sum <= n * hi
    PROVE  RoundHalfEven(sum, n) \in lo .. hi
<1> DEFINE q == sum \div n
           r == sum % n
<1>1. q \in Nat /\ r \in 0 .. n - 1 /\ sum = n * q + r
  BY Division
<1> HIDE DEF q, r
<1>2. \A a, b \in Nat : n * a < n * b + n => a <= b
  <2> SUFFICES ASSUME NEW a \in Nat, NEW b \in Nat, a > b PROVE n * a >= n * b + n
    <3>1. \A a, b \in Nat : n * a \in Nat /\ n * b + n \in Nat
      OBVIOUS
    <3>2. QED
      BY <3>1
  <2>1. PICK d \in Nat : a = b + 1 + d
    <3>1. a - b - 1 \in Nat /\ a = b + 1 + (a - b - 1)
      OBVIOUS
    <3>2. QED
      BY <3>1
  <2>2. n * (b + 1 + d) = n * b + n + n * d /\ n * d \in Nat /\ n * b \in Nat
    OBVIOUS
  <2>3. QED
    BY <2>1, <2>2
<1>3. lo <= q
  <2>1. n * lo < n * q + n
    <3>1. n * lo \in Nat /\ n * q \in Nat
      BY <1>1
    <3>2. QED
      BY <1>1, <3>1
  <2>2. QED
    BY <1>1, <1>2, <2>1
<1>4. q <= hi
  <2>1. n * q < n * hi + n
    <3>1. n * hi \in Nat /\ n * q \in Nat
      BY <1>1
    <3>2. QED
      BY <1>1, <3>1
  <2>2. QED
    BY <1>1, <1>2, <2>1
<1>5. q = hi => r = 0
  <2>1. n * hi \in Nat
    OBVIOUS
  <2>2. QED
    BY <1>1, <2>1
<1>6. RoundHalfEven(sum, n) = IF 2 * r > n \/ (2 * r = n /\ q % 2 = 1) THEN q + 1 ELSE q
  BY DEF RoundHalfEven, q, r
<1>7. CASE q = hi
  <2>1. ~ (2 * r > n) /\ ~ (2 * r = n)
    BY <1>5, <1>7
  <2>2. QED
    BY <1>1, <1>3, <1>4, <1>6, <2>1
<1>8. CASE q # hi
  BY <1>1, <1>3, <1>4, <1>6, <1>8
<1>9. QED
  BY <1>7, <1>8

\* The coordinate of a group lies between its first and its last.
LEMMA CentroidInside ==
    ASSUME NEW q, Group(q)
    PROVE  Centroid(q) \in q[1] .. q[Len(q)] /\ q[1] \in Nat /\ q[Len(q)] \in Nat
<1> DEFINE n == Len(q)
           lo == q[1]
           hi == q[Len(q)]
<1>1. q \in Seq(Nat) /\ n \in Nat \ {0} /\ lo \in Nat /\ hi \in Nat
  <2>1. q \in Seq(Nat) /\ Len(q) # 0
    BY DEF Group
  <2>2. 1 \in 1 .. Len(q) /\ Len(q) \in 1 .. Len(q)
    BY <2>1
  <2>3. QED
    BY <2>1, <2>2
<1>2. \A i \in 1 .. n : q[i] \in Nat /\ lo <= q[i] /\ q[i] <= hi
  BY <1>1 DEF Group
<1>3. PICK v : Adding(v, q)
  BY <1>1, AddsAll
<1> DEFINE X == {i \in 0 .. n : v[i] \in Nat /\ i * lo <= v[i] /\ v[i] <= i * hi}
<1>4. Centroid(q) = RoundHalfEven(v[n], n)
  BY <1>3 DEF Adding, Centroid
<1>5. /\ v[0] = 0 /\ \A i \in 0 .. n : v[i] \in Nat
      /\ \A i \in 1 .. n : v[i] = v[i - 1] + q[i]
  BY <1>3 DEF Adding
<1> HIDE DEF n, lo, hi
<1>6. 0 \in X
  BY <1>1, <1>5
<1>7. ASSUME NEW i \in 1 .. n, i - 1 \in X PROVE i \in X
  <2>1. i - 1 \in Nat /\ v[i - 1] \in Nat /\ (i - 1) * lo <= v[i - 1] /\ v[i - 1] <= (i - 1) * hi
    BY <1>1, <1>7
  <2>2. i * lo = (i - 1) * lo + lo /\ i * hi = (i - 1) * hi + hi
    BY <1>1
  <2>3. (i - 1) * lo \in Nat /\ (i - 1) * hi \in Nat
    BY <1>1, <2>1
  <2>4. v[i] = v[i - 1] + q[i] /\ q[i] \in Nat /\ lo <= q[i] /\ q[i] <= hi
    BY <1>2, <1>5
  <2> DEFINE a == v[i - 1]
             x == q[i]
             l == (i - 1) * lo
             h == (i - 1) * hi
  <2>7. /\ a \in Nat /\ l \in Nat /\ h \in Nat /\ x \in Nat /\ lo \in Nat /\ hi \in Nat
        /\ l <= a /\ a <= h /\ lo <= x /\ x <= hi
    BY <1>1, <2>1, <2>3, <2>4
  <2>8. v[i] = a + x /\ i * lo = l + lo /\ i * hi = h + hi
    BY ONLY <2>2, <2>4
  <2> HIDE DEF a, x, l, h
  <2>5. v[i] \in Nat /\ i * lo <= v[i] /\ v[i] <= i * hi
    BY ONLY <2>7, <2>8
  <2>6. QED
    BY <1>1, <2>5
<1>8. \A i \in 1 .. n : i - 1 \in X => i \in X
  BY <1>7
<1> HIDE DEF X
<1>9. 0 .. n \subseteq X
  BY <1>1, <1>6, <1>8, Upwards
<1>10. v[n] \in Nat /\ n * lo <= v[n] /\ v[n] <= n * hi
  BY <1>1, <1>9 DEF X
<1>11. QED
  BY <1>1, <1>4, <1>10, MeanRounded DEF lo, hi

\* Aggregated coordinates ascend, and are at the coordinates they stand for.
LEMMA AggregatedRises ==
    ASSUME OutlineAssumption, NEW max \in Nat, NEW S, S \subseteq 0 .. max - 1, S # {}
    PROVE  /\ Aggregated(S) \in Seq(Nat) /\ Len(Aggregated(S)) # 0 /\ Rising(Aggregated(S))
           /\ \A i \in 1 .. Len(Aggregated(S)) : Aggregated(S)[i] < max
           /\ Near(Aggregated(S), S)
<1> DEFINE s == Ascend(S)
           n == Cardinality(S)
           G == FoldLeft(Gathered, <<>>, s)
           m == Len(G)
           g == Aggregated(S)
<1>1. IsFiniteSet(S) /\ S \subseteq Nat /\ n \in Nat \ {0}
  <2>1. 0 \in Int /\ max - 1 \in Int
    OBVIOUS
  <2>2. IsFiniteSet(0 .. max - 1)
    BY <2>1, FS_Interval
  <2>3. IsFiniteSet(S)
    BY <2>2, FS_Subset
  <2>4. n \in Nat /\ n # 0
    BY <2>3, FS_CardinalityType, FS_EmptySet
  <2>5. QED
    BY <2>3, <2>4
<1>2. /\ InOrder(s, S) /\ s \in Seq(Nat) /\ Len(s) = n
      /\ \A c \in S : \E i \in 1 .. n : s[i] = c
  BY <1>1, AscendLists
<1> HIDE DEF s
<1>3. Grouped(G, s, n)
  <2>1. \A i, j \in 1 .. Len(s) : i < j => s[i] < s[j]
    BY <1>2 DEF InOrder
  <2>2. QED
    BY <1>2, <2>1, AllGrouped
<1>4. g = [i \in DOMAIN G |-> Centroid(G[i])]
  BY DEF Aggregated, s
<1> HIDE DEF G, g, n
<1>5. /\ G \in Seq(Seq(Nat)) /\ m # 0 /\ \A k \in 1 .. m : Group(G[k])
      /\ \A k \in 1 .. m - 1 : G[k][Len(G[k])] < G[k + 1][1]
  BY <1>1, <1>3 DEF Grouped
<1>6. m \in Nat \ {0} /\ DOMAIN G = 1 .. m
  BY <1>5
<1>7. \A k \in 1 .. m : /\ g[k] = Centroid(G[k]) /\ g[k] \in Nat
                        /\ G[k][1] \in Nat /\ G[k][Len(G[k])] \in Nat
                        /\ G[k][1] <= g[k] /\ g[k] <= G[k][Len(G[k])]
  <2> TAKE k \in 1 .. m
  <2>1. g[k] = Centroid(G[k])
    BY <1>4, <1>6
  <2>2. Centroid(G[k]) \in G[k][1] .. G[k][Len(G[k])] /\ G[k][1] \in Nat /\ G[k][Len(G[k])] \in Nat
    BY <1>5, CentroidInside
  <2>3. QED
    BY <2>1, <2>2
<1>8. g \in Seq(Nat) /\ Len(g) = m
  <2>1. g \in [1 .. m -> Nat]
    BY <1>4, <1>6, <1>7
  <2> HIDE DEF m
  <2>2. QED
    BY <1>6, <2>1
<1>9. Rising(g)
  <2>1. ASSUME NEW k \in 1 .. m - 1 PROVE g[k] < g[k + 1]
    <3>1. k \in 1 .. m /\ k + 1 \in 1 .. m
      BY <1>6
    <3>2. /\ g[k] \in Nat /\ g[k] <= G[k][Len(G[k])] /\ G[k][Len(G[k])] \in Nat
          /\ g[k + 1] \in Nat /\ G[k + 1][1] <= g[k + 1] /\ G[k + 1][1] \in Nat
      BY <1>7, <3>1
    <3>3. G[k][Len(G[k])] < G[k + 1][1]
      BY <1>5
    <3>4. QED
      BY ONLY <3>2, <3>3
  <2>2. QED
    BY <1>8, <2>1 DEF Rising
<1>10. \A k \in 1 .. m : g[k] < max
  <2>1. s[n] \in Nat /\ s[n] < max
    <3>1. n \in 1 .. n
      BY <1>1
    <3>2. s[n] \in S
      BY <1>2, <3>1 DEF InOrder, n
    <3>3. s[n] \in 0 .. max - 1
      BY <3>2
    <3>4. QED
      BY <3>3
  <2>2. g[m] <= s[n]
    <3>1. m \in 1 .. m
      BY <1>6
    <3>2. G[m][Len(G[m])] = s[n]
      BY <1>1, <1>3 DEF Grouped
    <3>3. QED
      BY <1>7, <3>1, <3>2
  <2> TAKE k \in 1 .. m
  <2>3. k < m => g[k] < g[m]
    <3>1. m \in 1 .. m
      BY <1>6
    <3>2. QED
      BY <1>8, <1>9, <3>1, RisingRises
  <2>4. k = m \/ k < m
    <3>1. m \in Nat
      BY <1>6
    <3>2. QED
      BY <3>1
  <2>5. g[k] \in Nat /\ g[m] \in Nat
    BY <1>6, <1>7
  <2>6. QED
    BY <2>1, <2>2, <2>3, <2>4, <2>5
<1>11. Near(g, S)
  <2>1. ASSUME NEW c \in S
        PROVE  \E i \in DOMAIN g : g[i] - c < MaxGroup /\ c - g[i] < MaxGroup
    <3>1. PICK j \in 1 .. n : s[j] = c
      BY <1>2
    <3>2. PICK k \in 1 .. m : G[k][1] <= c /\ c <= G[k][Len(G[k])]
      BY <1>3, <3>1 DEF Grouped
    <3>3. G[k][Len(G[k])] - G[k][1] < MaxGroup
      BY <1>5 DEF Group
    <3>4. c \in Nat /\ MaxGroup \in Nat
      BY <1>1 DEF OutlineAssumption
    <3>8. \A x, y, lo, hi, w \in Nat : lo <= x /\ x <= hi /\ lo <= y /\ y <= hi /\ hi - lo < w
                                        => x - y < w
      BY ONLY <3>4
    <3>9. /\ g[k] \in Nat /\ G[k][1] \in Nat /\ G[k][Len(G[k])] \in Nat
          /\ G[k][1] <= g[k] /\ g[k] <= G[k][Len(G[k])]
      BY <1>7
    <3>5. g[k] - c < MaxGroup /\ c - g[k] < MaxGroup
      BY <3>2, <3>3, <3>4, <3>8, <3>9
    <3>6. k \in DOMAIN g
      BY <1>8
    <3>7. QED
      BY <3>5, <3>6
  <2>2. QED
    BY <2>1 DEF Near
<1>12. QED
  BY <1>6, <1>8, <1>9, <1>10, <1>11 DEF g

\* With the picture's edges they are a frame.
LEMMA FramedIsFrame ==
    ASSUME OutlineAssumption, NEW max \in Nat \ {0}, NEW S, S \subseteq 0 .. max - 1, S # {}
    PROVE  Frame(Framed(Aggregated(S), max), max) /\ Near(Framed(Aggregated(S), max), S)
<1> DEFINE a == Aggregated(S)
           n == Len(a)
           z == <<0>> \o a
           c == IF Head(a) # 0 THEN z ELSE a
           g == Append(c, max)
<1>1. /\ a \in Seq(Nat) /\ n # 0 /\ Rising(a) /\ Near(a, S)
      /\ \A i \in 1 .. n : a[i] < max
  <2>1. max \in Nat
    OBVIOUS
  <2>2. QED
    BY <2>1, AggregatedRises
<1> HIDE DEF a
<1>2. n \in Nat \ {0} /\ Head(a) = a[1] /\ \A i \in 1 .. n : a[i] \in Nat /\ a[i] < max
  BY ONLY <1>1
<1>3. /\ c \in Seq(Nat) /\ Len(c) \in Nat \ {0} /\ c[1] = 0 /\ Rising(c)
      /\ c[Len(c)] < max /\ Near(c, S)
  <2>1. CASE Head(a) = 0
    <3>1. c = a /\ a[1] = 0 /\ n \in 1 .. n
      BY <1>2, <2>1
    <3>2. QED
      BY <1>1, <1>2, <3>1
  <2>2. CASE Head(a) # 0
    <3>1. c = z /\ a[1] > 0
      <4>1. 1 \in 1 .. n
        BY <1>2
      <4>2. QED
        BY <1>2, <2>2, <4>1
    <3>2. /\ z \in Seq(Nat) /\ Len(z) = n + 1 /\ z[1] = 0
          /\ \A i \in 1 .. n : z[i + 1] = a[i]
      BY <1>1, <1>2
    <3> HIDE DEF z
    <3>3. \A i \in 1 .. n : z[i] < z[i + 1]
      <4> TAKE i \in 1 .. n
      <4>1. CASE i = 1
        BY <1>2, <3>1, <3>2, <4>1
      <4>2. CASE i # 1
        <5>1. i - 1 \in 1 .. n - 1 /\ i - 1 \in 1 .. n /\ (i - 1) + 1 = i
          BY <1>2, <4>2
        <5>2. z[i] = a[i - 1] /\ z[i + 1] = a[i]
          BY <3>2, <5>1
        <5>3. a[i - 1] < a[i]
          BY <1>1, <5>1 DEF Rising
        <5>4. QED
          BY <5>2, <5>3
      <4>3. QED
        BY <4>1, <4>2
    <3>4. Rising(z)
      <4>1. Len(z) - 1 = n
        BY <1>2, <3>2
      <4>2. QED
        BY <3>3, <4>1 DEF Rising
    <3>5. z[Len(z)] < max
      <4>1. n \in 1 .. n
        BY <1>2
      <4>2. QED
        BY <1>2, <3>2, <4>1
    <3>6. Near(z, S)
      <4>1. ASSUME NEW x \in S
            PROVE  \E i \in DOMAIN z : z[i] - x < MaxGroup /\ x - z[i] < MaxGroup
        <5>5. DOMAIN a = 1 .. n
          BY <1>1
        <5>1. PICK i \in 1 .. n : a[i] - x < MaxGroup /\ x - a[i] < MaxGroup
          BY <1>1, <5>5 DEF Near
        <5>2. PICK k \in 1 .. n + 1 : k = i + 1
          BY <1>2
        <5>3. z[k] = a[i] /\ k \in DOMAIN z
          BY <1>2, <3>2, <5>2
        <5>4. QED
          BY <5>1, <5>3
      <4>2. QED
        BY <4>1 DEF Near
    <3>7. QED
      BY <1>2, <3>1, <3>2, <3>4, <3>5, <3>6
  <2>3. QED
    BY <2>1, <2>2
<1>4. Framed(a, max) = g
  BY ONLY <1>3 DEF Framed, Last
<1> HIDE DEF c
<1>5. /\ g \in Seq(Nat) /\ Len(g) = Len(c) + 1 /\ g[Len(c) + 1] = max
      /\ \A i \in 1 .. Len(c) : g[i] = c[i]
  BY <1>3, AppendIs
<1> HIDE DEF g
<1>6. \A i \in 1 .. Len(c) : g[i] < g[i + 1]
  <2> TAKE i \in 1 .. Len(c)
  <2>1. CASE i = Len(c)
    BY <1>3, <1>5, <2>1
  <2>2. CASE i # Len(c)
    <3>1. i \in 1 .. Len(c) - 1 /\ i + 1 \in 1 .. Len(c)
      BY ONLY <1>3, <2>2
    <3>2. c[i] < c[i + 1]
      BY ONLY <1>3, <3>1 DEF Rising
    <3>3. QED
      BY <1>5, <3>1, <3>2
  <2>3. QED
    BY <2>1, <2>2
<1>7. Rising(g)
  <2>1. Len(g) - 1 = Len(c)
    BY <1>3, <1>5
  <2>2. QED
    BY <1>6, <2>1 DEF Rising
<1>8. Frame(g, max)
  <2>1. 1 \in 1 .. Len(c) /\ Len(g) >= 2
    BY <1>3, <1>5
  <2>2. QED
    BY <1>3, <1>5, <1>7, <2>1 DEF Frame
<1>9. Near(g, S)
  <2>1. DOMAIN c = 1 .. Len(c) /\ DOMAIN c \subseteq DOMAIN g
    BY ONLY <1>3, <1>5
  <2>2. QED
    BY <1>3, <1>5, <2>1 DEF Near
<1>10. QED
  BY <1>4, <1>8, <1>9 DEF a

\* The corners of squares are inside.
LEMMA CornersInside ==
    ASSUME OutlineAssumption, NEW length \in Nat \ {0}
    PROVE  Corners(length) \subseteq 0 .. length - 1
<1> DEFINE e == EdgeLength
           q == length \div e
<1>1. e \in Nat \ {0}
  BY DEF OutlineAssumption
<1>2. q \in Nat /\ length >= e * q
  <2>1. length \in Nat
    OBVIOUS
  <2>2. q \in Nat /\ length % e \in 0 .. e - 1 /\ length = e * q + (length % e)
    BY <1>1, <2>1, Division
  <2>3. e * q \in Nat
    <3> HIDE DEF e, q
    <3>1. \A a, b \in Nat : a * b \in Nat
      OBVIOUS
    <3>2. QED
      BY <1>1, <2>2, <3>1
  <2> HIDE DEF e, q
  <2>4. QED
    BY <1>1, <2>2, <2>3
<1>3. Corners(length) = {i * e : i \in 0 .. q - 1}
  BY DEF Corners
<1> HIDE DEF e, q
<1>4. ASSUME NEW i \in 0 .. q - 1 PROVE i * e \in 0 .. length - 1
  <2>1. PICK d \in Nat : q = i + 1 + d
    <3>1. q - i - 1 \in Nat /\ q = i + 1 + (q - i - 1)
      BY <1>2
    <3>2. QED
      BY <3>1
  <2>2. e * (i + 1 + d) = i * e + e + e * d /\ i * e \in Nat /\ e * d \in Nat
    BY <1>1
  <2>3. QED
    BY <1>1, <1>2, <2>1, <2>2
<1>5. QED
  BY <1>3, <1>4

\* Both invariants hold of a picture that has not been looked at,
LEMMA OutlineStart ==
    ASSUME OutlineInit PROVE OutlineInv /\ GridInv
<1>1. Outlined({}) = {} /\ Building({}) = {}
  BY DEF Outlined, Building
<1>2. IsFiniteSet({}) /\ Cardinality({}) = 0
  BY FS_EmptySet
<1>3. outline = {} /\ toInspect = <<>> /\ grid = <<>> /\ lines \in Lines
  BY DEF OutlineInit
<1>4. GridInv
  BY <1>3 DEF GridInv
<1>5. AllApart(<<>>) /\ <<>> \in Seq(Box)
  BY DEF AllApart
<1>6. /\ IsFiniteSet(Outlined(outline))
      /\ 100 * Cardinality(Building(outline)) >= SuccessShare * Cardinality(Outlined(outline))
  <2>1. Outlined(outline) = {} /\ Building(outline) = {}
    BY <1>1, <1>3
  <2>2. 100 * 0 >= SuccessShare * 0
    BY DEF SuccessShare
  <2>3. QED
    BY <1>2, <2>1, <2>2
<1>7. OutlineInv
  <2>1. toInspect \in Seq(Box) /\ AllApart(toInspect)
    BY <1>3, <1>5
  <2>2. QED
    BY <1>3, <1>6, <2>1 DEF OutlineInv
<1>8. QED
  BY <1>4, <1>7

\* when its grid is drawn,
LEMMA OutlineDraws ==
    ASSUME OutlineAssumption, OutlineInv, GridInv, IdentifySubrectangles
    PROVE  OutlineInv' /\ GridInv'
<1> DEFINE xs == IF lines[1] = {} THEN Corners(BoxWidth) ELSE lines[1]
           ys == IF lines[1] = {} THEN Corners(BoxHeight) ELSE lines[2]
           g == Framed(Aggregated(xs), BoxWidth)
           h == Framed(Aggregated(ys), BoxHeight)
<1>1. /\ grid = <<>> /\ xs # {} /\ ys # {} /\ grid' = <<g, h>> /\ toInspect' = Rectangles(grid')
      /\ picture' = picture /\ lines' = lines /\ outline' = outline
  BY DEF IdentifySubrectangles
<1>2. BoxWidth \in Nat \ {0} /\ BoxHeight \in Nat \ {0}
  BY DEF OutlineAssumption
<1>3. /\ lines \in Lines /\ lines[1] \subseteq 0 .. BoxWidth - 1
      /\ lines[2] \subseteq 0 .. BoxHeight - 1 /\ (lines[1] = {} <=> lines[2] = {})
  BY DEF GridInv, OutlineAssumption
<1>4. xs \subseteq 0 .. BoxWidth - 1 /\ ys \subseteq 0 .. BoxHeight - 1
  BY <1>2, <1>3, CornersInside
<1>5. lines[1] \subseteq xs /\ lines[2] \subseteq ys
  BY <1>3
<1> HIDE DEF xs, ys
<1>6. Frame(g, BoxWidth) /\ Near(g, xs) /\ Frame(h, BoxHeight) /\ Near(h, ys)
  BY <1>1, <1>2, <1>4, FramedIsFrame
<1>7. Near(g, lines[1]) /\ Near(h, lines[2])
  BY <1>5, <1>6 DEF Near
<1> HIDE DEF g, h
<1>8. /\ grid'[1] = g /\ grid'[2] = h
  BY <1>1
<1>9. GridInv'
  BY <1>1, <1>3, <1>6, <1>7, <1>8 DEF GridInv, Near
<1>10. /\ toInspect' \in Seq(Box)
       /\ \A i, j \in DOMAIN toInspect' : i # j => Apart(toInspect'[i], toInspect'[j])
  <2>1. BoxWidth \in Nat /\ BoxHeight \in Nat
    BY <1>2
  <2>2. QED
    BY <1>1, <1>6, <1>8, <2>1, GridOfBoxes
<1>11. outline = {} /\ outline' = {} /\ grid' # <<>>
  BY <1>1 DEF OutlineInv
<1>12. IsFiniteSet(Outlined({}))
       /\ 100 * Cardinality(Building({})) >= SuccessShare * Cardinality(Outlined({}))
  <2>1. Outlined({}) = {} /\ Building({}) = {}
    BY DEF Outlined, Building
  <2>2. 100 * 0 >= SuccessShare * 0
    BY DEF SuccessShare
  <2>3. QED
    BY <2>1, <2>2, FS_EmptySet
<1>13. /\ IsFiniteSet(Outlined(outline'))
       /\ 100 * Cardinality(Building(outline')) >= SuccessShare * Cardinality(Outlined(outline'))
  BY <1>11, <1>12
<1>14. AllApart(toInspect')
  BY <1>10 DEF AllApart
<1>15. OutlineInv'
  <2>1. (Building(outline))' = Building(outline') /\ (Outlined(outline))' = Outlined(outline')
    BY <1>1 DEF Building, Outlined, Pixels
  <2>2. (AllApart(toInspect))'
    BY <1>14 DEF AllApart, Apart, Pixels
  <2>3. QED
    BY <1>10, <1>11, <1>13, <2>1, <2>2 DEF OutlineInv
<1>16. QED
  BY <1>9, <1>15

\* and when one of its rectangles is kept, cut up or dropped.
LEMMA OutlineInspects ==
    ASSUME OutlineInv, GridInv, Inspect
    PROVE  OutlineInv' /\ GridInv'
<1> DEFINE r == Head(toInspect)
           T == Tail(toInspect)
           Q == IF Size(r) > 0 /\ Doubtful(r) THEN Split(r) ELSE <<>>
           n == Len(T)
           keep == Size(r) > 0 /\ 100 * Filled(r) >= SuccessShare * Size(r)
<1>1. /\ toInspect # <<>> /\ toInspect' = T \o Q
      /\ outline' = IF keep THEN outline \cup {r} ELSE outline
      /\ picture' = picture /\ lines' = lines /\ grid' = grid
  BY DEF Inspect
<1>2. /\ toInspect \in Seq(Box) /\ outline \subseteq Box /\ AllApart(toInspect)
      /\ IsFiniteSet(Outlined(outline)) /\ grid # <<>>
  <2>1. grid # <<>>
    BY <1>1 DEF OutlineInv
  <2>2. QED
    BY <2>1 DEF OutlineInv
<1>19. /\ \A s \in outline : \A t \in outline \ {s} : Apart(s, t)
       /\ \A s \in outline : \A i \in DOMAIN toInspect : Apart(s, toInspect[i])
  BY DEF OutlineInv
<1>20. 100 * Cardinality(Building(outline)) >= SuccessShare * Cardinality(Outlined(outline))
  BY DEF OutlineInv
<1>3. /\ r \in Box /\ r = toInspect[1] /\ T \in Seq(Box) /\ n \in Nat /\ Len(toInspect) = n + 1
      /\ \A i \in 1 .. n : T[i] = toInspect[i + 1]
  BY <1>1, <1>2
<1> HIDE DEF r, T, n
<1>4. \A i \in 1 .. n : Apart(T[i], r) /\ Apart(r, T[i])
  <2>1. \A i \in 1 .. n : i + 1 \in DOMAIN toInspect /\ 1 \in DOMAIN toInspect /\ i + 1 # 1
    BY <1>2, <1>3
  <2>2. QED
    BY <1>2, <1>3, <2>1 DEF AllApart
<1>5. \A i, j \in 1 .. n : i # j => Apart(T[i], T[j])
  <2>1. \A i \in 1 .. n : i + 1 \in DOMAIN toInspect
    BY <1>2, <1>3
  <2>2. \A i, j \in 1 .. n : i # j => i + 1 # j + 1
    BY <1>3
  <2>3. QED
    BY <1>2, <1>3, <2>1, <2>2 DEF AllApart
<1>6. \A s \in outline : Apart(s, r) /\ Apart(r, s) /\ \A i \in 1 .. n : Apart(s, T[i])
  <2>1. \A i \in 1 .. n : i + 1 \in DOMAIN toInspect /\ 1 \in DOMAIN toInspect
    BY <1>2, <1>3
  <2>2. 1 \in DOMAIN toInspect
    BY <1>2, <1>3
  <2>3. ASSUME NEW s \in outline PROVE Apart(s, r) /\ \A i \in 1 .. n : Apart(s, T[i])
    <3>1. \A i \in DOMAIN toInspect : Apart(s, toInspect[i])
      BY <1>19
    <3>2. QED
      BY <1>3, <2>1, <2>2, <3>1
  <2>4. \A s : Apart(s, r) => Apart(r, s)
    BY DEF Apart
  <2>5. QED
    BY <2>3, <2>4
<1>7. /\ Q \in Seq(Box) /\ AllApart(Q)
      /\ \A i \in DOMAIN Q : Pixels(Q[i]) \subseteq Pixels(r)
  <2>1. <<>> \in Seq(Box) /\ AllApart(<<>>) /\ DOMAIN <<>> = {}
    BY DEF AllApart
  <2>2. QED
    BY <1>3, <2>1, QuartersInside
<1>8. keep => Q = <<>>
  <2>1. Size(r) \in Nat /\ Filled(r) \in Nat
    BY <1>3, PixelsFinite
  <2>2. keep => ~ Doubtful(r)
    BY <2>1 DEF Doubtful, SuccessShare, SplitShare
  <2>3. QED
    BY <2>2
<1> HIDE DEF r, T, Q, keep
<1> DEFINE m == Len(Q)
           P == T \o Q
<1>9. /\ P \in Seq(Box) /\ Len(P) = n + m /\ m \in Nat /\ DOMAIN P = 1 .. n + m /\ DOMAIN Q = 1 .. m
      /\ \A i \in 1 .. n : P[i] = T[i]
      /\ \A i \in n + 1 .. n + m : i - n \in 1 .. m /\ P[i] = Q[i - n]
  <2>1. /\ T \in Seq(Box) /\ Q \in Seq(Box) /\ n = Len(T) /\ n \in Nat /\ m = Len(Q) /\ m \in Nat
    BY <1>3, <1>7 DEF n
  <2>2. /\ P \in Seq(Box) /\ Len(P) = n + m /\ DOMAIN Q = 1 .. m
        /\ \A i \in 1 .. n + m : P[i] = IF i <= n THEN T[i] ELSE Q[i - n]
    BY <2>1
  <2>3. DOMAIN P = 1 .. n + m
    BY <2>2
  <2> HIDE DEF P, m
  <2>4. \A i \in 1 .. n : P[i] = T[i]
    BY <2>1, <2>2
  <2>5. \A i \in n + 1 .. n + m : i - n \in 1 .. m /\ P[i] = Q[i - n]
    BY <2>1, <2>2
  <2>6. QED
    BY <2>1, <2>2, <2>3, <2>4, <2>5
<1> HIDE DEF P, m, n
<1>10. \A i \in 1 .. n + m : i \in 1 .. n \/ i \in n + 1 .. n + m
  BY <1>3, <1>9
<1>11. ASSUME NEW s, Apart(s, r) PROVE \A i \in n + 1 .. n + m : Apart(s, P[i]) /\ Apart(P[i], s)
  BY <1>7, <1>9, <1>11 DEF Apart
<1>12. AllApart(P)
  <2> SUFFICES ASSUME NEW i \in 1 .. n + m, NEW j \in 1 .. n + m, i # j
               PROVE  Apart(P[i], P[j])
    BY <1>9 DEF AllApart
  <2>1. CASE i \in 1 .. n /\ j \in 1 .. n
    BY <1>5, <1>9, <2>1
  <2>2. CASE i \in 1 .. n /\ j \in n + 1 .. n + m
    BY <1>4, <1>9, <1>11, <2>2
  <2>3. CASE i \in n + 1 .. n + m /\ j \in 1 .. n
    BY <1>4, <1>9, <1>11, <2>3
  <2>4. CASE i \in n + 1 .. n + m /\ j \in n + 1 .. n + m
    <3>1. i - n # j - n
      BY <1>3, <1>9
    <3>2. QED
      BY <1>7, <1>9, <2>4, <3>1 DEF AllApart
  <2>5. QED
    BY <1>10, <2>1, <2>2, <2>3, <2>4
<1>13. \A s \in outline : \A i \in 1 .. n + m : Apart(s, P[i])
  BY <1>6, <1>9, <1>10, <1>11
<1>14. /\ outline' \subseteq Box
       /\ \A s \in outline' : \A t \in outline' \ {s} : Apart(s, t)
       /\ \A s \in outline' : \A i \in DOMAIN P : Apart(s, P[i])
       /\ IsFiniteSet(Outlined(outline'))
       /\ 100 * Cardinality(Building(outline')) >= SuccessShare * Cardinality(Outlined(outline'))
  <2>1. CASE keep
    <3>1. Q = <<>> /\ m = 0 /\ n + m = n
      BY <1>3, <1>8, <2>1 DEF m
    <3>2. \A i \in 1 .. n + m : Apart(r, P[i])
      BY <1>4, <1>9, <3>1
    <3>3. outline' = outline \cup {r}
      BY <1>1, <2>1
    <3>4. 100 * Filled(r) >= SuccessShare * Size(r)
      BY <2>1 DEF keep
    <3>5. /\ IsFiniteSet(Outlined(outline \cup {r}))
          /\ 100 * Cardinality(Building(outline \cup {r}))
               >= SuccessShare * Cardinality(Outlined(outline \cup {r}))
      BY <1>2, <1>3, <1>6, <1>20, <3>4, OutlineGrows
    <3>6. QED
      BY <1>2, <1>3, <1>6, <1>9, <1>13, <1>19, <3>2, <3>3, <3>5
  <2>2. CASE ~ keep
    <3>1. outline' = outline
      BY <1>1, <2>2
    <3>2. QED
      BY <1>2, <1>9, <1>13, <1>19, <1>20, <3>1
  <2>3. QED
    BY <2>1, <2>2
<1>15. toInspect' = P
  BY <1>1 DEF P
<1>16. OutlineInv'
  BY <1>1, <1>2, <1>9, <1>12, <1>14, <1>15
     DEF OutlineInv, AllApart, Apart, Pixels, Outlined, Building
<1>17. GridInv'
  BY <1>1 DEF GridInv, Near
<1>18. QED
  BY <1>16, <1>17

\* Both invariants hold, whatever the picture and the lines.
LEMMA OutlineInvariant ==
    ASSUME OutlineAssumption
    PROVE  OutlineSpec => [](OutlineInv /\ GridInv)
<1>1. OutlineInit => OutlineInv /\ GridInv
  BY OutlineStart
<1>2. OutlineInv /\ GridInv /\ [OutlineNext]_outlineVars => OutlineInv' /\ GridInv'
  <2> SUFFICES ASSUME OutlineInv, GridInv, [OutlineNext]_outlineVars
               PROVE  OutlineInv' /\ GridInv'
    OBVIOUS
  <2>1. CASE IdentifySubrectangles
    BY <2>1, OutlineDraws
  <2>2. CASE Inspect
    BY <2>2, OutlineInspects
  <2>3. CASE UNCHANGED outlineVars
    BY <2>3 DEF outlineVars, OutlineInv, GridInv, AllApart, Apart, Pixels, Outlined, Building, Near
  <2>4. QED
    BY <2>1, <2>2, <2>3 DEF OutlineNext
<1>3. QED
  BY <1>1, <1>2, PTL DEF OutlineSpec

\* The grid goes from edge to edge of the picture, and has a line at each of those that
\* were found (aggregate_nearby_coordinates, identify_subrectangles), whatever they are.
THEOREM GridsFollowTheLines ==
    OutlineSpec => []GridFollowsTheLines
<1>1. OutlineSpec => [](OutlineInv /\ GridInv)
  BY OutlineAssumption, OutlineInvariant
<1>2. GridInv => GridFollowsTheLines
  BY GridInvFollows
<1>3. QED
  BY <1>1, <1>2, PTL

\* What find_filled_subrectangles keeps of any picture is mostly building, and nothing is
\* looked at twice.
THEOREM OutlinesAreBuilding ==
    OutlineSpec => []OutlineIsBuilding
<1>1. OutlineSpec => [](OutlineInv /\ GridInv)
  BY OutlineAssumption, OutlineInvariant
<1>2. OutlineInv => OutlineIsBuilding
  BY OutlineInvBuilds
<1>3. QED
  BY <1>1, <1>2, PTL
=============================================================================
