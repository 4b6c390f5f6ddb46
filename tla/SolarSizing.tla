----------------------------- MODULE SolarSizing -----------------------------
(***************************************************************************)
(* The solar sizing script: the power systems that can be built from a     *)
(* library of panels, batteries and controllers, each one simulated over a *)
(* series of solar irradiance, and the cheapest one that is available      *)
(* often enough.  Energies are whole watt-hours per data point; the flux   *)
(* is given as the energy a watt of installed panels delivers.             *)
(***************************************************************************)
EXTENDS Integers, Sequences, FiniteSets, SequencesExt, FiniteSetsExt

CONSTANTS Panels,      \* records [id, ocv, stc, notc, cost, life]
          Batteries,   \* records [id, volt, usable, cost, life]
          Controllers, \* sets of records [id, volts, powers, ocv, current, cost, life]
          Sites,       \* records [load, charge, discharge, target, lifetime]: percentages
          Fluxes       \* sequences of energies

ASSUME LibraryAssumption ==
    /\ \A p \in Panels : {p.ocv, p.stc, p.life} \subseteq Nat \ {0} /\ {p.notc, p.cost} \subseteq Nat
    /\ \A b \in Batteries : {b.volt, b.usable, b.life} \subseteq Nat \ {0} /\ b.cost \in Nat
    /\ \A C \in Controllers : \A c \in C :
          /\ {c.volts, c.powers} \subseteq Seq(Nat) /\ Len(c.volts) = Len(c.powers)
          /\ {c.ocv, c.current, c.cost} \subseteq Nat /\ c.life \in Nat \ {0}
    /\ Sites \subseteq [load : Nat, charge : Nat, discharge : Nat \ {0}, target : Nat, lifetime : Nat]
    /\ Fluxes \subseteq Seq(Nat) \ {<<>>}

VARIABLES
    sizing,   \* what the user asks for: [site, controllers, flux]
    systems,  \* the configurations that are left
    perf,     \* of a capacity and a power: availability and energy drawn
    optimal   \* the answer

solarVars == <<sizing, systems, perf, optimal>>

Unknown == [cont |-> 0]
NoSystem == [cont |-> -1]  \* min() of nothing: the script raises

SolarInit ==
    /\ sizing \in [site : Sites, controllers : Controllers, flux : Fluxes]
    /\ systems = {} /\ perf = <<>> /\ optimal = Unknown

Ceil(a, b) == (a + b - 1) \div b
Least(a, b) == IF a < b THEN a ELSE b

------------------------------------------------------------------------------
(* get_site_solar_systems *)

\* All strings in parallel up to the first that goes beyond the power limit.
SolarArrays(p, ser, limit) ==
    {[panel |-> p, ser |-> ser, par |-> n,
      power |-> Least(limit, ser * n * p.stc),
      nop   |-> Least(limit, ser * n * p.notc)] : n \in 1 .. Ceil(limit, p.stc * ser)}

BatteryPacks(b, ser, target) ==
    {[battery |-> b, ser |-> ser, par |-> n, volt |-> ser * b.volt,
      cap |-> ser * n * b.usable] : n \in 1 .. Ceil(target, ser * b.usable)}

TargetCapacity(site) == site.load * 48

Greatest(s) == Max({s[i] : i \in DOMAIN s})

\* The controller's voltages are sorted in place, its powers are not.
Sorted(s) ==
    CHOOSE q \in {[i \in DOMAIN s |-> s[p[i]]] : p \in SetToSeqs(DOMAIN s)} :
        \A i, j \in DOMAIN s : i < j => q[i] <= q[j]

SystemsOf(c, site) ==
    LET arrays == UNION {SolarArrays(px[1], px[2], Greatest(c.powers)) :
                            px \in {px \in Panels \X (1 .. c.ocv) : px[2] * px[1].ocv <= c.ocv}}
        packs == UNION {BatteryPacks(bv[1], bv[2] \div bv[1].volt, TargetCapacity(site)) :
                           bv \in {bv \in Batteries \X {c.volts[i] : i \in DOMAIN c.volts} :
                                      bv[2] % bv[1].volt = 0}}
    IN  {[cont |-> c, array |-> a, pack |-> b] : a \in arrays, b \in packs}

WithinLimits(s) ==
    /\ \E i \in DOMAIN s.cont.volts :
          /\ Sorted(s.cont.volts)[i] = s.pack.volt
          /\ \A j \in 1 .. i - 1 : Sorted(s.cont.volts)[j] # s.pack.volt
          /\ s.array.power <= s.cont.powers[i]
    /\ s.array.power <= s.cont.current * s.pack.volt

BuildSystems ==
    /\ systems = {} /\ optimal = Unknown
    /\ LET valid == {s \in UNION {SystemsOf(c, sizing.site) : c \in sizing.controllers} :
                        WithinLimits(s)}
       IN  /\ systems' = valid
           /\ optimal' = IF valid = {} THEN NoSystem ELSE Unknown
    /\ UNCHANGED <<sizing, perf>>

------------------------------------------------------------------------------
(* calc_historic_perf *)

Balance(power, f) == power * f - sizing.site.load

Demand(b) == IF b > 0 THEN (b * sizing.site.charge) \div 100
                      ELSE -Ceil(-b * 100, sizing.site.discharge)

Stored_Unbounded(cap, energy, change) ==
    IF energy + change < -1 THEN -1 ELSE energy + change

Stored(cap, energy, change) ==
    IF energy + change < -1 THEN -1 ELSE Least(cap, energy + change)

\* The energy stored at each data point, the last of which changes nothing more.
History(cap, power, start) ==
    LET h[i \in 1 .. Len(sizing.flux)] ==
            IF i = 1 THEN start
            ELSE Stored(cap, h[i - 1], Demand(Balance(power, sizing.flux[i - 1])))
    IN  h

Available(h) == Cardinality({i \in DOMAIN h : h[i] >= 0})

Used(h) == LET drop(i) == IF h[i + 1] < h[i] THEN h[i] - h[i + 1] ELSE 0
           IN  MapThenSumSet(drop, 1 .. Len(sizing.flux) - 1)

\* The list that starts with a full battery is replaced by one of zeros.
StartEnergy(cap) == 0

Pairs == {<<s.pack.cap, s.array.nop>> : s \in systems}

Simulate ==
    /\ systems # {} /\ perf = <<>>
    /\ perf' = [q \in Pairs |-> LET h == History(q[1], q[2], StartEnergy(q[1]))
                                IN  [avail |-> Available(h), used |-> Used(h)]]
    /\ UNCHANGED <<sizing, systems, optimal>>

------------------------------------------------------------------------------
(* calc_cost, get_optimal_solar_system *)

PerfOf(s) == perf[<<s.pack.cap, s.array.nop>>]

Cost(s) ==
    LET life == sizing.site.lifetime
        batteries == s.pack.ser * s.pack.par
    IN  Ceil(life, s.array.panel.life) * s.array.panel.cost * s.array.ser * s.array.par
        + Ceil(life * PerfOf(s).used, batteries * s.pack.battery.usable * s.pack.battery.life)
             * batteries * s.pack.battery.cost
        + Ceil(life, s.cont.life) * s.cont.cost

Share(avail) == avail * 100  \* to be compared with a percentage of all data points

AboveTarget_Any(s) == PerfOf(s).avail > 0

AboveTarget(s) == Share(PerfOf(s).avail) > sizing.site.target * Len(sizing.flux)

Choose ==
    /\ perf # <<>> /\ optimal = Unknown
    /\ LET good == {s \in systems : AboveTarget(s)}
       IN  \/ good = {} /\ optimal' = NoSystem
           \/ optimal' \in {s \in good : \A t \in good : Cost(s) <= Cost(t)}
    /\ UNCHANGED <<sizing, systems, perf>>

SolarNext == BuildSystems \/ Simulate \/ Choose

SolarSpec == SolarInit /\ [][SolarNext]_solarVars

------------------------------------------------------------------------------
(* Properties *)

\* What the docstring describes: a battery that is full at the start, its energy
\* bounded between 0 and its capacity, and the points at which it contains some.
Clipped(cap, energy) == Max({0, Min({cap, energy})})

Promised(cap, power) ==
    LET e[i \in 1 .. Len(sizing.flux)] ==
            IF i = 1 THEN cap
            ELSE Clipped(cap, e[i - 1] + Demand(Balance(power, sizing.flux[i - 1])))
    IN  e

Powered(e) == Cardinality({i \in DOMAIN e : e[i] > 0})

\* A system is credited with no more availability than the docstring of
\* calc_historic_perf promises for a battery larger by one watt-hour.  (For its own
\* battery the docstring promises less: the code bounds the energy by -1 instead of 0,
\* and counts a point at which the battery is just empty.)
AvailabilityIsCautious ==
    perf # <<>> => \A q \in Pairs : perf[q].avail <= Powered(Promised(q[1] + 1, q[2]))

Ascending(c) == \A i, j \in DOMAIN c.volts : i < j => c.volts[i] < c.volts[j]

\* The system chosen meets the availability the site asks for and none that
\* exceeds it is cheaper; nothing is chosen only if none exceeds it.  It keeps to
\* the power its controller allows at the voltage of the battery, and to its
\* current, if the library lists voltages in ascending order.
ChosenIsBest ==
    optimal # Unknown /\ systems # {} =>
        LET points == Len(sizing.flux)
            exceeds == {s \in systems : 100 * PerfOf(s).avail > sizing.site.target * points}
        IN  IF optimal = NoSystem THEN exceeds = {}
            ELSE /\ 100 * PerfOf(optimal).avail >= sizing.site.target * points
                 /\ \A s \in exceeds : Cost(optimal) <= Cost(s)
                 /\ Ascending(optimal.cont) =>
                       \E i \in DOMAIN optimal.cont.volts :
                          /\ optimal.cont.volts[i] = optimal.pack.volt
                          /\ optimal.array.power <= optimal.cont.powers[i]
                          /\ optimal.array.power <= optimal.cont.current * optimal.cont.volts[i]
=============================================================================
