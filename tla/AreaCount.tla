----------------------------- MODULE AreaCount -----------------------------
(***************************************************************************)
(* What the sidebar's count of buildings promises, whatever goes on behind *)
(* it: a request is taken up, its buildings are gathered while the count   *)
(* is marked as loading, and then the count is final, over all of them, or *)
(* in error; and so it stays until another request is taken up or the      *)
(* selection is cleared.  No request is taken up again.                    *)
(***************************************************************************)
CONSTANTS Requests, NoRequest

VARIABLES
    extent,   \* of each request: the buildings of its area
    request,  \* the request the count is for
    waiting,  \* the requests that may still be taken up
    counted,  \* the buildings under the count
    mark      \* "loading", "final" or "error"

countVars == <<extent, request, waiting, counted, mark>>

CountInit ==
    /\ extent \in [Requests -> {{}}]
    /\ request = NoRequest /\ waiting = Requests
    /\ counted = {} /\ mark = "final"

(* The area of a request is known by the time it is taken up; it may also  *)
(* be given up before.                                                     *)
Outline ==
    /\ waiting' \subseteq waiting
    /\ \A n \in Requests \ waiting : extent'[n] = extent[n]
    /\ UNCHANGED <<request, counted, mark>>

(* What was counted for the request before is still there.                 *)
TakeUp(n) ==
    /\ n \in waiting
    /\ request' = n /\ waiting' = waiting \ {n}
    /\ mark' = "loading"
    /\ UNCHANGED <<extent, counted>>

Clear ==
    /\ request' = NoRequest /\ mark' = "final"
    /\ UNCHANGED <<extent, waiting, counted>>

(* Nothing gathered for the request is lost again.                         *)
Gather ==
    /\ request # NoRequest /\ mark = "loading" /\ mark' = "loading"
    /\ counted' \subseteq extent[request]
    /\ counted \cap extent[request] \subseteq counted'
    /\ UNCHANGED <<extent, request, waiting>>

(* Everything has been gathered; an area without buildings has nothing.    *)
Finish ==
    /\ request # NoRequest /\ mark = "loading" /\ mark' = "final"
    /\ extent[request] \subseteq counted /\ counted' = extent[request]
    /\ UNCHANGED <<extent, request, waiting>>

GiveUp ==
    /\ request # NoRequest /\ mark = "loading" /\ mark' = "error"
    /\ UNCHANGED <<extent, request, waiting, counted>>

CountNext ==
    \/ Outline \/ Clear \/ Gather \/ Finish \/ GiveUp
    \/ \E n \in Requests : TakeUp(n)

CountSpec == CountInit /\ [][CountNext]_countVars
=============================================================================
