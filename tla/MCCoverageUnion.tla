--------------------------- MODULE MCCoverageUnion --------------------------
(* CoverageUnion with interchangeable buildings.                           *)
EXTENDS CoverageUnion, TLC

BuildingSymmetry == Permutations(Buildings)
=============================================================================
