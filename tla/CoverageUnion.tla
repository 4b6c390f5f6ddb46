---------------------------- MODULE CoverageUnion ---------------------------
(***************************************************************************)
(* How the map joins the building coverages of several sectors.            *)
(*                                                                         *)
(* renderBuildings takes the coverage of every sector to be shown, joins   *)
(* them with BuildingCoverage.union and hands toFeatureArray to the map,   *)
(* whose layer colours a building by the "serviceable" property of its     *)
(* feature.  A building of a union is a pair: a feature and a status.      *)
(***************************************************************************)
EXTENDS Naturals, Sequences

CONSTANTS
    Buildings,      \* msftid of the building outlines
    MaxCoverages    \* bound: coverages that are joined

ASSUME MaxCoveragesAssumption == MaxCoverages \in Nat

Status   == {"serviceable", "unserviceable", "unknown"}
Property == Status \cup {"null"}     \* a building nobody has judged has a null

(* A coverage response: some of the buildings, with their property.        *)
Responses == UNION {[listed -> Property] : listed \in SUBSET Buildings}
NoBuildings == [b \in {} |-> "null"]

VARIABLES
    responses,  \* the coverages, in the order the features are drawn
    done,       \* how many of them the loop of union has joined
    union       \* the result so far

vars == <<responses, done, union>>

(* Mutant: the default for a property that is null is forgotten.           *)
BuildingCoverage_NoDefault(resp) ==
    [b \in DOMAIN resp |-> [feature |-> resp[b], status |-> resp[b]]]

(* The constructor: the status is the feature's property.                  *)
BuildingCoverage(resp) ==
    [b \in DOMAIN resp |-> [feature |-> resp[b],
                            status |-> IF resp[b] = "null" THEN "unknown" ELSE resp[b]]]

(* Mutant: an unknown status takes whatever comes.                         *)
updateCoverageStatus_Forget(current, new) ==
    IF current = "serviceable" THEN "serviceable" ELSE new

(* The status of a building that one more coverage lists.                  *)
updateCoverageStatus(current, new) ==
    CASE current = "serviceable"   -> "serviceable"
      [] current = "unserviceable" -> new
      [] current = "unknown"       -> IF new = "serviceable" THEN "serviceable" ELSE "unknown"

(* One turn of the loop.  The feature kept is that of the last coverage.   *)
Join(u, c) ==
    [b \in DOMAIN u \cup DOMAIN c |->
        IF b \notin DOMAIN c THEN u[b]
        ELSE IF b \notin DOMAIN u THEN c[b]
        ELSE [feature |-> c[b].feature,
              status |-> updateCoverageStatus(u[b].status, c[b].status)]]

Init ==
    /\ responses \in UNION {[1 .. n -> Responses] : n \in 0 .. MaxCoverages}
    /\ done = 0
    /\ union = BuildingCoverage(NoBuildings)

JoinNext ==
    /\ done < Len(responses)
    /\ done' = done + 1
    /\ union' = Join(union, BuildingCoverage(responses[done + 1]))
    /\ UNCHANGED responses

Next == JoinNext

Spec == Init /\ [][Next]_vars

-----------------------------------------------------------------------------
(* The loop stays within the coverages, and a union is a coverage.         *)
TypeOK ==
    /\ responses \in Seq(Responses)
    /\ done \in 0 .. Len(responses)
    /\ DOMAIN union \subseteq Buildings
    /\ \A b \in DOMAIN union : union[b] \in [feature : Property, status : Status]

(* The rules of union's comment, for the coverages joined so far: whatever *)
(* their order, a building is serviceable if one of the coverages that     *)
(* list it says so, unserviceable if all of them say so, unknown otherwise.*)
Listing(b) == {k \in 1 .. done : b \in DOMAIN responses[k]}
RuledStatus(b) ==
    IF \E k \in Listing(b) : responses[k][b] = "serviceable" THEN "serviceable"
    ELSE IF \A k \in Listing(b) : responses[k][b] = "unserviceable" THEN "unserviceable"
    ELSE "unknown"
UnionFollowsRules ==
    /\ DOMAIN union = {b \in Buildings : Listing(b) # {}}
    /\ \A b \in DOMAIN union : union[b].status = RuledStatus(b)

(* What the comment says first: "If a building is marked as servicable by  *)
(* any building coverage, it is marked as servicable".  The mark that      *)
(* reaches the map is the property of the feature, and union keeps the     *)
(* feature of the last coverage.                                           *)
ServiceableIsDrawn ==
    done = Len(responses) =>
        \A b \in DOMAIN union :
            union[b].status = "serviceable" => union[b].feature = "serviceable"
=============================================================================
