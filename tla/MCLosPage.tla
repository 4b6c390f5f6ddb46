------------------------------ MODULE MCLosPage ------------------------------
(* The line-of-sight page for model checking: how it joins coverages, asks   *)
(* for the profile of a link, how a worker puts that profile together, and   *)
(* how the page keeps its features and the server's rows together.  The four *)
(* share no state; a behaviour is one of them, the others being at rest.     *)
EXTENDS CoverageUnion, LinkProfile, WorkspaceMap, LidarEngine, TLC

CONSTANTS l1, l2  \* a long link and a short one, which allows a finer profile when zoomed

FinestOfLinks == [a \in Links \X BOOLEAN |-> IF a = <<l2, FALSE>> THEN 1 ELSE 2]

CalmAndOther == {{}, {"hasty", "several"}, {"fail"}, {"table"}}

\* Two clouds anywhere on the link, of different or equal years; or three without gaps.
CloudsOf(years, shapes, points) == [year : years, cells : shapes, points : points]
Stretches == {a .. b : a, b \in 0 .. Cells - 1} \ {{}}
Anywhere  == (SUBSET (0 .. Cells - 1)) \ {{}}
FewSurveys ==
    LET Points == {0 .. Cells, {0, 2}, {1, 2, 3}}
    IN  {<<c, d>> : c \in CloudsOf({1, 2}, Anywhere, Points), d \in CloudsOf({2}, Anywhere, Points)}
          \cup {<<c, d, e>> : c \in CloudsOf({2}, Stretches, {{1, 3}}),
                              d \in CloudsOf({0}, Stretches, {0 .. Cells}),
                              e \in CloudsOf({1}, Stretches, {0 .. Cells, {}})}

VARIABLE part

UnionAtRest == responses = <<>> /\ done = 0 /\ union = BuildingCoverage(NoBuildings)

LinkAtRest ==
    /\ patient = TRUE /\ page = PageInit
    /\ wire = [open |-> TRUE, pending |-> NoRequest, up |-> <<>>]
    /\ linkTasks = {} /\ linkWork = {} /\ unanswered = {}
    /\ cache = [a \in Links \X BOOLEAN |-> 0]

MapAtRest == weather = {} /\ rows = {Tower} /\ map = MapOf(rows) /\ edits = MaxEdits

EngineAtRest ==
    survey = <<>> /\ taken = 0 /\ left = {} /\ segments = {} /\ profile = <<>> /\ stage = "rest"

LosInit ==
    /\ part \in {"union", "link", "map", "engine"}
    /\ IF part = "union" THEN Init ELSE UnionAtRest
    /\ IF part = "link" THEN LinkInit ELSE LinkAtRest
    /\ IF part = "map" THEN MapInit ELSE MapAtRest
    /\ IF part = "engine" THEN EngineInit ELSE EngineAtRest

LosNext ==
    \/ part = "union" /\ Next     /\ UNCHANGED <<part, linkVars, mapVars, engineVars>>
    \/ part = "link"  /\ LinkNext /\ UNCHANGED <<part, vars, mapVars, engineVars>>
    \/ part = "map"   /\ MapNext  /\ UNCHANGED <<part, vars, linkVars, engineVars>>
    \/ part = "engine" /\ EngineNext /\ UNCHANGED <<part, vars, linkVars, mapVars>>

LosSpec == LosInit /\ [][LosNext]_<<part, vars, linkVars, mapVars, engineVars>>
             /\ LinkFairness /\ MapFairness
=============================================================================
