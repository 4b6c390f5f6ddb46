------------------------- MODULE MCMarketEvaluator --------------------------
(* Environments of MarketEvaluator for model checking.                     *)
EXTENDS MarketEvaluator

Evaluating   == {"clear", "empty", "osm", "dberror", "timeout", "fail", "reject", "raise", "disconnect"}
Waiting      == {"clear", "timeout", "disconnect"}
EmptyAreas   == {"empty"}
QueryErrors  == {"dberror"}
AllKinds     == {"buildings", "answer"}
OnlyBuildings == {"buildings"}
=============================================================================
