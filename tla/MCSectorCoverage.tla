-------------------------- MODULE MCSectorCoverage --------------------------
(* Environments of SectorCoverage for model checking.                      *)
EXTENDS SectorCoverage, TLC

Overlapping == {"overlap", "create", "fail", "crash", "lostwrite"}
OnlyOverlap == {"overlap"}
Spaced      == {"fail", "crash"}
SpacedCalm  == {"delete"}
Failing     == {"fail"}

\* Circles and wedges are interchangeable: a sector may as well start with these.
FirstParams == CHOOSE p \in Params : TRUE
FirstInit   == Init /\ params = FirstParams
FirstSpec   == FirstInit /\ [][Next]_vars

\* No sector, nothing to do.
SectorAtRest ==
    /\ alive = FALSE /\ params = None /\ web = "done" /\ towerJobs = 0
    /\ db = [k \in Tables |-> NoRow] /\ nextId = [k \in Tables |-> 1]
    /\ tiles = {} /\ buildings = {} /\ tif = None
    /\ w = [x \in Worker |-> Fresh] /\ revoked = [x \in Worker |-> {}]
    /\ stamp = [x \in Worker |-> 0] /\ clock = 0
=============================================================================
