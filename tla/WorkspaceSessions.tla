-------------------------- MODULE WorkspaceSessions --------------------------
(***************************************************************************)
(* Map sessions as networks of rows: saving a session under another name   *)
(* copies it row by row, importing a file creates it row by row, each row  *)
(* in a transaction of its own, while the user goes on editing.            *)
(*                                                                         *)
(* A row is [session, name, kind, ap, sector, cpe]; <<session, name>> is   *)
(* its uuid, and a copy keeps the name.                                    *)
(***************************************************************************)
EXTENDS Integers, Sequences, FiniteSets

CONSTANTS Titles,       \* names of sessions
          FirstTitle,   \* the name of session 1
          Networks,     \* the networks session 1 may start with
          Files,        \* what a file may hold: sequences of kinds, "bad" if malformed
          MaxSessions,  \* bound on the sessions
          MaxChanges    \* bound on the edits

NoKey == <<0, "none">>

RowOf(s, n, k, a, x, c) == [session |-> s, name |-> n, kind |-> k, ap |-> a, sector |-> x, cpe |-> c]

Uuid(r)  == <<r.session, r.name>>
Refs(r)  == {r.ap, r.sector, r.cpe} \ {NoKey}
Uuids(S) == {Uuid(r) : r \in S}

RowKinds   == {"ap", "sector", "cpe", "link", "ptp", "area"}
Name       == RowKinds \X Nat \cup RowKinds \X Nat \X {"new"}
Key        == {NoKey} \cup Nat \X Name
SessionRow == [session : Nat, name : Name, kind : RowKinds, ap : Key, sector : Key, cpe : Key]

\* A key is of the table it refers to, and only some kinds have it.
WellKeyed(r) ==
    /\ r.name[1] = r.kind
    /\ r.ap # NoKey => r.ap[2][1] = "ap" /\ r.kind \in {"sector", "cpe", "link"}
    /\ r.sector # NoKey => r.sector[2][1] = "sector" /\ r.kind \in {"cpe", "link"}
    /\ r.cpe # NoKey => r.cpe[2][1] = "cpe" /\ r.kind = "link"

ASSUME SessionsAssumption == FirstTitle \in Titles /\ MaxSessions \in Nat /\ MaxChanges \in Nat
ASSUME NetworksAssumption ==
    \A N \in Networks : \A r \in N :
        r \in SessionRow /\ r.session = 1 /\ WellKeyed(r) /\ Refs(r) \subseteq Uuids(N)
ASSUME FilesAssumption == Files \subseteq Seq({"ap", "cpe", "ptp", "area", "bad"})

VARIABLES
    sessions, \* the sessions there are, with their names
    table,    \* the rows of all kinds
    jobs,     \* requests that copy or import, by the session they create
    created,  \* number of sessions created
    changes,  \* number of edits
    touched   \* history: sessions edited, or copied before they were complete

sessionVars == <<sessions, table, jobs, created, changes, touched>>

SessionsInit ==
    /\ table \in Networks
    /\ sessions = [s \in {1} |-> FirstTitle]
    /\ jobs = [s \in {} |-> <<>>]
    /\ created = 1 /\ changes = 0 /\ touched = {}

------------------------------------------------------------------------------
(* The database *)

Of(s, k) == {r \in table : r.session = s /\ r.kind = k}

Cascaded(S) ==  \* towers take their sectors along, these their customers, these their links
    LET More(T) == T \cup {r \in table : Refs(r) \cap Uuids(T) # {}}
    IN  More(More(More(S)))

\* The foreign keys of a new row are those of rows that are there.
Saves(r) == r.session \in DOMAIN sessions /\ Refs(r) \subseteq Uuids(table)

NewSession(title) == title \notin {sessions[s] : s \in DOMAIN sessions} /\ created < MaxSessions

Start(title, job) ==
    /\ NewSession(title)
    /\ created' = created + 1
    /\ sessions' = [s \in DOMAIN sessions \cup {created + 1} |->
                       IF s = created + 1 THEN title ELSE sessions[s]]
    /\ jobs' = [s \in DOMAIN jobs \cup {created + 1} |->
                   IF s = created + 1 THEN job ELSE jobs[s]]

End(s, how) == jobs' = [jobs EXCEPT ![s].status = how]

Running(s, op) == jobs[s].status = "running" /\ jobs[s].op = op

------------------------------------------------------------------------------
(* duplicate *)

CopiedKinds_LinksFirst == <<"ap", "sector", "link", "cpe", "ptp">>

CopiedKinds == <<"ap", "sector", "cpe", "ptp", "link">>

SaveAs(from, title) ==
    /\ Start(title, [op |-> "copy", from |-> from, at |-> 0, todo |-> {}, copied |-> {},
                     status |-> "running"])
    /\ touched' = IF from \in DOMAIN jobs /\ jobs[from].status = "running"
                  THEN touched \cup {from} ELSE touched
    /\ UNCHANGED <<table, changes>>

\* The rows of a kind are read at once, when the ones of the kind before are saved.
NextKind(s) ==
    /\ Running(s, "copy") /\ jobs[s].todo = {}
    /\ IF jobs[s].at = Len(CopiedKinds) THEN End(s, "done")
       ELSE jobs' = [jobs EXCEPT ![s].at = @ + 1,
                                 ![s].todo = Of(jobs[s].from, CopiedKinds[jobs[s].at + 1])]
    /\ UNCHANGED <<sessions, table, created, changes, touched>>

\* Links are built of the copies, everything else keeps the keys it has.
CopyOf_KeepLinkKeys(r, s) == [r EXCEPT !.session = s]

CopyOf(r, s) ==
    LET Mapped(u) == IF u = NoKey THEN NoKey ELSE <<s, u[2]>>
    IN  IF r.kind = "link"
        THEN RowOf(s, r.name, "link", Mapped(r.ap),
                   IF r.ap = NoKey THEN Mapped(r.sector) ELSE NoKey, Mapped(r.cpe))
        ELSE RowOf(s, r.name, r.kind, r.ap, r.sector, r.cpe)

\* A link's own tower and customer are looked up, and then their copies.
Copyable(r, s) ==
    r.kind = "link" =>
        /\ r.ap # NoKey \/ r.sector # NoKey
        /\ Refs(r) \subseteq Uuids(table)
        /\ \A u \in Refs(r) : <<s, u[2]>> \in jobs[s].copied

CopyRow(s) ==
    /\ Running(s, "copy")
    /\ \E r \in jobs[s].todo :
          IF Copyable(r, s) /\ Saves(CopyOf(r, s))
          THEN /\ table' = table \cup {CopyOf(r, s)}
               /\ jobs' = [jobs EXCEPT ![s].todo = @ \ {r},
                                       ![s].copied = @ \cup {Uuid(CopyOf(r, s))}]
          ELSE End(s, "failed") /\ UNCHANGED table
    /\ UNCHANGED <<sessions, created, changes, touched>>

------------------------------------------------------------------------------
(* importFile *)

Import(file, title) ==
    /\ Start(title, [op |-> "import", from |-> file, at |-> 0, todo |-> {}, copied |-> {},
                     status |-> "running"])
    /\ UNCHANGED <<table, changes, touched>>

Discard(s) ==   \* session.delete()
    /\ sessions' = [q \in DOMAIN sessions \ {s} |-> sessions[q]]
    /\ table' = table \ Cascaded({r \in table : r.session = s})

\* A tower, an area, or a customer and its link to the tower it names, or else to
\* the last tower before it in the file, or to none.
Imported(s, kind, n) ==
    IF kind # "cpe" THEN {{RowOf(s, n, kind, NoKey, NoKey, NoKey)}}
    ELSE LET towers == {u \in jobs[s].copied : u[2][1] = "ap"}
         IN  {{RowOf(s, n, "cpe", NoKey, NoKey, NoKey),
               RowOf(s, <<"link", n[2]>>, "link", t, NoKey, <<s, n>>)} :
                 t \in IF towers = {} THEN {NoKey} ELSE towers}

ImportFeature(s) ==
    /\ Running(s, "import")
    /\ LET file == jobs[s].from
           i == jobs[s].at + 1
       IN  IF i > Len(file) THEN End(s, "done") /\ UNCHANGED <<sessions, table>>
           ELSE \E S \in Imported(s, file[i], <<file[i], i>>) :
                  \* a row that cannot be saved, for any reason, ends the import
                  \/ /\ file[i] # "bad" /\ s \in DOMAIN sessions
                     /\ \A r \in S : Refs(r) \subseteq Uuids(table \cup S)
                     /\ table' = table \cup S
                     /\ jobs' = [jobs EXCEPT ![s].at = i, ![s].copied = @ \cup Uuids(S)]
                     /\ UNCHANGED sessions
                  \/ /\ Discard(s)
                     /\ End(s, "failed")
    /\ UNCHANGED <<created, changes, touched>>

------------------------------------------------------------------------------
(* The user, and the web server's process *)

Change(S) ==
    /\ changes < MaxChanges
    /\ changes' = changes + 1
    /\ touched' = touched \cup S

RemoveRow(r) ==
    /\ Change({q.session : q \in Cascaded({r})})
    /\ table' = table \ Cascaded({r})
    /\ UNCHANGED <<sessions, jobs, created>>

\* A customer is added with its link to a sector of the network.
AddLinked(x) ==
    /\ Change({x.session})
    /\ LET c == RowOf(x.session, <<"cpe", changes, "new">>, "cpe", NoKey, Uuid(x), NoKey)
           l == RowOf(x.session, <<"link", changes, "new">>, "link", NoKey, Uuid(x), Uuid(c))
       IN  table' = table \cup {c, l}
    /\ UNCHANGED <<sessions, jobs, created>>

DeleteSession(s) ==
    /\ Change({s} \cup {r.session : r \in Cascaded({r \in table : r.session = s})})
    /\ Discard(s)
    /\ UNCHANGED <<jobs, created>>

\* The process that handles the request is killed or times out.
Killed(s) == jobs[s].status = "running" /\ End(s, "killed")
             /\ UNCHANGED <<sessions, table, created, changes, touched>>

SessionsNext ==
    \/ \E t \in Titles : \/ \E s \in DOMAIN sessions : SaveAs(s, t)
                         \/ \E f \in Files : Import(f, t)
    \/ \E s \in DOMAIN jobs : NextKind(s) \/ CopyRow(s) \/ ImportFeature(s) \/ Killed(s)
    \/ \E r \in table : RemoveRow(r) \/ (r.kind = "sector" /\ AddLinked(r))
    \/ \E s \in DOMAIN sessions : DeleteSession(s)

SessionsSpec == SessionsInit /\ [][SessionsNext]_sessionVars

------------------------------------------------------------------------------
(* Properties *)

\* The two ends of a customer's link are rows of the link's own session, whatever
\* was copied, imported, deleted and added at the same time.
LinksStayInside ==
    \A l \in table : l.kind = "link" =>
        \A u \in Refs(l) : u[1] = l.session /\ u \in Uuids(table)

Names(s, kinds) == {<<r.kind, r.name>> : r \in {r \in table : r.session = s /\ r.kind \in kinds}}

AllButAreas == {"ap", "sector", "cpe", "ptp", "link"}

\* A network nobody edits meanwhile is copied completely but for its areas, and
\* copying it fails only if it has a link without a tower, which a file may bring.
UntouchedCopyIsWhole ==
    \A s \in DOMAIN jobs :
        LET from == jobs[s].from
        IN  jobs[s].op = "copy" /\ {s, from} \cap touched = {} =>
              /\ jobs[s].status = "done" =>
                    Names(s, AllButAreas) = Names(from, AllButAreas)
              /\ jobs[s].status = "failed" =>
                    \E l \in Of(from, "link") : l.ap = NoKey /\ l.sector = NoKey

\* A session is a network of its own: sectors and customers are of towers and
\* sectors of their session ("Duplicates the session and all foreign keys").
CopyStandsAlone ==
    \A r \in table : \A u \in Refs(r) : u[1] = r.session
=============================================================================
