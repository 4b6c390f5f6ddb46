---------------------------- MODULE MCSectorPage -----------------------------
(* A sector as the server computes it and as the page works with it, for      *)
(* model checking: the jobs of MCServer, the page's view of status, coverage  *)
(* and overlay, the popups, and the customers connected to sectors.  The      *)
(* page's requests stand for the server in the others, which share no state   *)
(* with it or with each other; a behaviour is one of the four.                *)
EXTENDS MCServer, CoverageDisplay, FormPopup, SectorCustomers

\* Each kind of trouble by itself: the guards of the properties name them.
EachSky == {<<{}, 3>>, <<{"delete", "rename", "swift"}, 2>>, <<{"overtake"}, 2>>,
            <<{"fail", "disconnect"}, 2>>, <<{"restless", "delete"}, 3>>}

\* Each kind of trouble by itself: the guards of the properties name them.
EachTemper == {<<{}, 6>>, <<{"hasty"}, 3>>, <<{"mixed"}, 5>>}

\* A sector of radius 2 that turns to heading, on a circle of four bearings.
Turned(heading, azimuth, bearing, distance, status) ==
    [heading |-> heading, azimuth |-> azimuth, radius |-> 2,
     at |-> [c \in Customers |-> [bearing |-> bearing, distance |-> distance, status |-> status]]]

AnyAir   == {Turned(h, a, b, d, st) : h \in {0, 1, 3}, a \in {2, 4}, b \in 0 .. 3,
                                      d \in 1 .. 3, st \in ClearStatuses}
AllRound == {Turned(2, 4, 1, d, st) : d \in 1 .. 2, st \in ClearStatuses}
Clear    == Turned(0, 4, 1, 1, "serviceable")

\* One look at a place under any air, or several steps under a clear one.
EachSetting ==
    LET first == CHOOSE s \in NetSectors : TRUE
    IN  {[may |-> {}, moves |-> 1, air |-> [s \in NetSectors |-> IF s = first THEN v ELSE u]] :
            v \in AnyAir, u \in AllRound}
        \cup {[may |-> t[1], moves |-> t[2], air |-> [s \in NetSectors |-> Clear]] :
            t \in {<<{}, 4>>, <<{"swift"}, 4>>, <<{"drag"}, 4>>, <<{"delete"}, 4>>,
                   <<{"early", "drag", "delete"}, 3>>,
                   <<{"swift", "early", "drag", "delete"}, 2>>}}

VARIABLE part

DisplayAtRest == sky = {} /\ moves = 0 /\ PageLoaded
PopupAtRest   == temper = {} /\ clicks = 0 /\ homes = <<>> /\ NothingOpen

CustomersAtRest ==
    /\ setting = [may |-> {}, moves |-> 0, air |-> <<>>]
    /\ records = [sectors |-> {}, cpe |-> NoSector, link |-> NoSector]
    /\ shown = OnPage(records) /\ asked = <<>> /\ offer = NoOffer /\ steps = 0

PageInit ==
    /\ part \in {"server", "display", "popup", "customers"}
    /\ IF part = "server"    THEN ServerInit    ELSE ServerAtRest
    /\ IF part = "display"   THEN DisplayInit   ELSE DisplayAtRest
    /\ IF part = "popup"     THEN PopupInit     ELSE PopupAtRest
    /\ IF part = "customers" THEN CustomersInit ELSE CustomersAtRest

PageNext ==
    \/ part = "server"    /\ ServerNext    /\ UNCHANGED <<part, displayVars, popupVars, customerVars>>
    \/ part = "display"   /\ DisplayNext   /\ UNCHANGED <<part, serverVars, popupVars, customerVars>>
    \/ part = "popup"     /\ PopupNext     /\ UNCHANGED <<part, serverVars, displayVars, customerVars>>
    \/ part = "customers" /\ CustomersNext /\ UNCHANGED <<part, serverVars, displayVars, popupVars>>

PageSpec == PageInit /\ [][PageNext]_<<part, serverVars, displayVars, popupVars, customerVars>>
=============================================================================
