---------------------------- MODULE MCMarketPage ----------------------------
(* The market evaluator's page for model checking: the buildings of the     *)
(* selection, the filter of their sizes, income and competitors, the        *)
(* overlays beside which it is selected, and the list of layers.  They      *)
(* share no state; a behaviour is one of the five.                          *)
EXTENDS MCMarketEvaluator, MapOverlays, LayersSidebar, BuildingFilter, AreaStatistics

SomeShapes == {<<"rdof", "x", 1>>, <<"rdof", "x", 2>>, <<"cbrs", "y", 1>>}

\* Each kind of trouble by itself: the guards of the properties name them.
EachManner == {<<{}, 5>>, <<{"early", "delete"}, 4>>, <<{"hasty"}, 5>>,
               <<{"drawing", "twins"}, 4>>, <<{"again", "zero", "fail"}, 4>>}
EachWhim   == {<<{}, 4>>, <<{"click", "popup"}, 4>>, <<{"add", "delete"}, 4>>,
               <<{"click", "elsewhere"}, 4>>}

\* Areas of two pages, of one building, of one below a square foot, and of none.
SomePlots == {<<{6, 11}, {3, 16}>>, <<{9}>>, <<{1, 8}>>, <<>>}
\* A place between the buildings, and one where a building is.
SomeSpots == {<<3, 1>>, <<11, 2>>}
EachUsage == {<<{}, 4>>, <<{"timeout"}, 4>>, <<{"cross"}, 4>>}

\* A page and a half; a page without tracts; incomes unknown; none; elsewhere.
SomeGrounds ==
    LET Precomputed(s) == [incomes |-> s, precomputed |-> TRUE, simple |-> 0, canada |-> FALSE]
        Elsewhere(n, c) == [incomes |-> <<>>, precomputed |-> FALSE, simple |-> n, canada |-> c]
    IN  {Precomputed(<<6, 12, 2>>), Precomputed(<<NoTract, NoTract, 4>>),
         Precomputed(<<Null, 6, 2, 4>>), Precomputed(<<>>),
         Elsewhere(5, TRUE), Elsewhere(Null, FALSE)}
EachHabit == {<<{}, 3>>, <<{"hasty"}, 3>>, <<{"dberror"}, 2>>, <<{"timeout"}, 2>>}

VARIABLE part

OverlaysAtRest == manner = {} /\ toClick = 0 /\ NothingClicked
LayersAtRest   == /\ whim = {} /\ turns = 0
                  /\ under = [s \in SectorsThen |-> CHOOSE t \in Towers : TRUE]
                  /\ LayersLoaded

FilterAtRest ==
    /\ usage = {} /\ spare = 0 /\ engine = "later" /\ NothingFiltered
    /\ stats = EmptySidebar(CHOOSE p \in Shares : TRUE)
StatisticsAtRest == habit = {} /\ picks = 0 /\ NothingSelected

MarketInit ==
    /\ part \in {"buildings", "filter", "statistics", "overlays", "layers"}
    /\ Init
    /\ IF part = "filter" THEN FilterInit ELSE FilterAtRest
    /\ IF part = "statistics" THEN StatisticsInit ELSE StatisticsAtRest
    /\ IF part = "overlays" THEN OverlaysInit ELSE OverlaysAtRest
    /\ IF part = "layers"   THEN LayersInit   ELSE LayersAtRest

MarketNext ==
    \/ /\ part = "buildings" /\ Next
       /\ UNCHANGED <<part, overlayVars, layerVars, filterVars, statisticsVars>>
    \/ /\ part = "filter" /\ FilterNext
       /\ UNCHANGED <<part, vars, overlayVars, layerVars, statisticsVars>>
    \/ /\ part = "statistics" /\ StatisticsNext
       /\ UNCHANGED <<part, vars, overlayVars, layerVars, filterVars>>
    \/ /\ part = "overlays" /\ OverlaysNext
       /\ UNCHANGED <<part, vars, layerVars, filterVars, statisticsVars>>
    \/ /\ part = "layers" /\ LayersNext
       /\ UNCHANGED <<part, vars, overlayVars, filterVars, statisticsVars>>

MarketSpec ==
    /\ MarketInit
    /\ [][MarketNext]_<<part, vars, overlayVars, layerVars, filterVars, statisticsVars>>
    /\ Fairness
=============================================================================
