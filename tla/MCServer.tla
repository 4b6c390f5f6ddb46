------------------------------ MODULE MCServer -------------------------------
(* What the web server and its workers do, for model checking: the coverage  *)
(* of a sector and that of a tower, copies and imports of sessions, the      *)
(* sizing of solar power systems, the outlines of buildings.  They share no  *)
(* state; a behaviour is one of them, the others being at rest.              *)
EXTENDS MCSectorCoverage, TowerCoverage, WorkspaceSessions, SolarSizing, BuildingOutline

(* Sessions: a tower with a sector, a customer of each, and an area.         *)
CONSTANTS ta, tb, tc

Network ==
    LET tower  == <<"ap", 1>>
        sector == <<"sector", 1>>
        New(name, kind, ap, x, cpe) == RowOf(1, name, kind, ap, x, cpe)
    IN  { New(tower, "ap", NoKey, NoKey, NoKey),
          New(sector, "sector", <<1, tower>>, NoKey, NoKey),
          New(<<"cpe", 1>>, "cpe", <<1, tower>>, NoKey, NoKey),
          New(<<"link", 1>>, "link", <<1, tower>>, NoKey, <<1, <<"cpe", 1>>>>),
          New(<<"cpe", 2>>, "cpe", NoKey, <<1, sector>>, NoKey),
          New(<<"link", 2>>, "link", NoKey, <<1, sector>>, <<1, <<"cpe", 2>>>>),
          New(<<"area", 1>>, "area", NoKey, NoKey, NoKey) }
OneNetwork == {Network}
TwoFiles   == {<<"ap", "cpe", "bad">>, <<"cpe", "ap">>}

(* Solar power: controllers of two voltages, of voltages out of order, and   *)
(* of too low a voltage for any panel.                                       *)
SmallLibrary == {[id |-> 1, ocv |-> 20, stc |-> 2, notc |-> 1, cost |-> 3, life |-> 10],
                 [id |-> 2, ocv |-> 30, stc |-> 5, notc |-> 4, cost |-> 9, life |-> 5]}
OneBattery   == {[id |-> 1, volt |-> 12, usable |-> 4, cost |-> 2, life |-> 1]}
Ordered      == [id |-> 1, volts |-> <<12, 24>>, powers |-> <<3, 6>>, ocv |-> 40,
                 current |-> 1, cost |-> 5, life |-> 5]
EachController == {{Ordered}, {[Ordered EXCEPT !.volts = <<24, 12>>, !.powers = <<6, 3>>]},
                   {[Ordered EXCEPT !.ocv = 10]}}
SomeSites  == [load : {1, 2}, charge : {50}, discharge : {50, 100}, target : {50, 100},
               lifetime : {10}]
ShortYears == [1 .. 4 -> {0, 3}]

(* Outlines: buildings with a corner, and lines found or not.                *)
Corner(a, b, c) == {p \in (0 .. 8) \X (0 .. 4) : (p[1] < a /\ p[2] < b) \/ (p[1] >= c /\ p[2] >= 2)}
CornerBuildings == {Corner(a, b, c) : a \in {3, 5, 9}, b \in {2, 3, 5}, c \in {4, 7, 9}}
SomeLines == {<<{}, {}>>} \cup {S \in SUBSET (0 .. 8) : Cardinality(S) \in 1 .. 3} \X {{0}, {1, 4}}

(* A tower: statements that fail, sockets that close, its deletion, or lost  *)
(* uploads; or a user who does not wait and another page, which the property *)
(* excepts.                                                                  *)
EachMishap == {<<{}, 3>>, <<{"fail"}, 2>>, <<{"close"}, 2>>, <<{"remove"}, 2>>,
               <<{"lose"}, 3>>, <<{"lose", "fail"}, 2>>,
               <<{"impatient", "elsewhere"}, 1>>}

VARIABLE job

SessionsAtRest ==
    /\ table = {} /\ sessions = [s \in {1} |-> FirstTitle] /\ jobs = [s \in {} |-> <<>>]
    /\ created = MaxSessions /\ changes = 0 /\ touched = {}

SolarAtRest   == sizing = <<>> /\ systems = {} /\ perf = <<>> /\ optimal = Unknown
OutlineAtRest == picture = {} /\ lines = <<{}, {}>> /\ grid = <<>> /\ toInspect = <<>> /\ outline = {}

TowerAtRest   == mishap = {} /\ askable = 0 /\ mast = 0 /\ TowerQuiet

ServerAtRest ==
    job = "none" /\ SectorAtRest /\ TowerAtRest /\ SessionsAtRest /\ SolarAtRest /\ OutlineAtRest

serverVars == <<job, vars, towerVars, sessionVars, solarVars, outlineVars>>

ServerInit ==
    /\ job \in {"sector", "tower", "session", "solar", "outline"}
    /\ IF job = "sector"  THEN Init /\ params = FirstParams ELSE SectorAtRest
    /\ IF job = "tower"   THEN TowerInit    ELSE TowerAtRest
    /\ IF job = "session" THEN SessionsInit ELSE SessionsAtRest
    /\ IF job = "solar"   THEN SolarInit    ELSE SolarAtRest
    /\ IF job = "outline" THEN OutlineInit  ELSE OutlineAtRest

ServerNext ==
    \/ job = "sector"  /\ Next         /\ UNCHANGED <<job, towerVars, sessionVars, solarVars, outlineVars>>
    \/ job = "tower"   /\ TowerNext    /\ UNCHANGED <<job, vars, sessionVars, solarVars, outlineVars>>
    \/ job = "session" /\ SessionsNext /\ UNCHANGED <<job, vars, towerVars, solarVars, outlineVars>>
    \/ job = "solar"   /\ SolarNext    /\ UNCHANGED <<job, vars, towerVars, sessionVars, outlineVars>>
    \/ job = "outline" /\ OutlineNext  /\ UNCHANGED <<job, vars, towerVars, sessionVars, solarVars>>

ServerSpec == ServerInit /\ [][ServerNext]_serverVars

ServerSymmetry == Permutations({tb, tc})
=============================================================================
