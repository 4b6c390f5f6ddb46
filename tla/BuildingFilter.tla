--------------------------- MODULE BuildingFilter ---------------------------
(***************************************************************************)
(* The market evaluator's filter of building sizes, a slider of two thumbs *)
(* above the sidebar's count, and what is derived from the count: density, *)
(* leads, the buildings drawn.  Each page of buildings changes the limits  *)
(* of the slider, and the thumbs move in proportion, whether or not the    *)
(* slider can be seen; a thumb moves freely, past the other one too.       *)
(*                                                                         *)
(* PubSub delivers between two moves of the user and two answers, in the   *)
(* order of publishing; here it delivers at once.                          *)
(*                                                                         *)
(* Numbers are those of JavaScript, as fractions <<n, d>>: what a thumb is *)
(* set to goes through parseInt, division by zero and a sort whose         *)
(* comparator is the value of its first argument.  A building is the       *)
(* number of its selection and its size in half square feet.               *)
(***************************************************************************)
EXTENDS Integers, Sequences, FiniteSets

CONSTANTS Plots,    \* areas: sequences of pages, each a set of sizes
          Spots,    \* values a thumb is dragged to, fractions
          Shares,   \* market penetrations, per cent
          Engines,  \* which element a browser's sort passes first, "later" or "earlier"
          Usages    \* what may happen together, and a bound on the user's moves

\* The user drags a thumb past the other; a task times out.
Usage == {"cross", "timeout"}

ASSUME FilterAssumption == /\ Engines \subseteq {"later", "earlier"}
                           /\ Usages \subseteq (SUBSET Usage) \X Nat
                           /\ Spots \subseteq Nat \X (Nat \ {0})
                           /\ \A p \in Plots : /\ p \in Seq(SUBSET Nat)
                                               /\ \A k \in DOMAIN p : IsFiniteSet(p[k])

VARIABLES
    usage, engine,
    spare,    \* moves that are left to the user
    chosen,   \* the number of the selection, its pages, how many were sent, its size told
    outlines, \* the renderer's buildingOverlays
    painted,    \* the buildings it shows
    slide,    \* the slider: limits, thumbs, the range told to its listeners
    stats,    \* the sidebar manager
    touched   \* history: a thumb was moved since they were last put at their ends

filterVars == <<usage, engine, spare, chosen, outlines, painted, slide, stats, touched>>

-----------------------------------------------------------------------------
(* Numbers *)

Num(n)   == <<n, 1>>
Infinite == <<1, 0>>
Minus    == <<-1, 0>>
NaN      == <<0, 0>>

Simplest(x) ==
    IF x[2] = 0 THEN <<IF x[1] > 0 THEN 1 ELSE IF x[1] < 0 THEN -1 ELSE 0, 0>>
    ELSE LET g == CHOOSE d \in 1 .. x[2] :
                    /\ x[1] % d = 0 /\ x[2] % d = 0
                    /\ \A e \in d + 1 .. x[2] : ~(x[1] % e = 0 /\ x[2] % e = 0)
         IN  <<x[1] \div g, x[2] \div g>>

Times(x, y) == Simplest(<<x[1] * y[1], x[2] * y[2]>>)
Over(x, y)  == IF y = NaN THEN NaN ELSE Simplest(<<x[1] * y[2], x[2] * y[1]>>)

Below(x, y)  == NaN \notin {x, y} /\ x[1] * y[2] < y[1] * x[2]
AtMost(x, y) == NaN \notin {x, y} /\ x[1] * y[2] <= y[1] * x[2]

-----------------------------------------------------------------------------
(* The slider.  A limit is an attribute: the number, and what parseInt     *)
(* makes of its text.                                                      *)

Limit(n) == [is |-> Num(n), reads |-> Num(n)]

\* calculateMinMaxBuildingSizes: of no buildings, infinite and the wrong way round.
LimitsOf_Rounded(B) ==
    IF B = {} THEN <<[is |-> Infinite, reads |-> NaN], [is |-> Minus, reads |-> NaN]>>
    ELSE LET sizes == {b[2] : b \in B}
         IN  <<Limit((CHOOSE s \in sizes : \A r \in sizes : s <= r) \div 2),
               Limit((CHOOSE s \in sizes : \A r \in sizes : r <= s) \div 2)>>

LimitsOf(B) ==
    IF B = {} THEN <<[is |-> Infinite, reads |-> NaN], [is |-> Minus, reads |-> NaN]>>
    ELSE LET sizes == {b[2] : b \in B}
         IN  <<Limit((CHOOSE s \in sizes : \A r \in sizes : s <= r) \div 2),
               Limit(((CHOOSE s \in sizes : \A r \in sizes : r <= s) + 1) \div 2)>>

\* Number.MIN_VALUE and MAX_VALUE, "5e-324" and "1.79...e+308".
Unlimited == <<[is |-> Num(0), reads |-> Num(5)], [is |-> Infinite, reads |-> Num(1)]>>

\* thumbs.sort(thumb => thumb.valueNow): positive for "is greater than the other".
Sorted(t) ==
    IF \/ engine = "later"   /\ Below(t[2], Num(0))
       \/ engine = "earlier" /\ Below(Num(0), t[1])
    THEN <<t[2], t[1]>> ELSE t

\* moveSliderTo: between the limits as read; then renderMiddleArea and getRange, which
\* sort twice each, and the listeners are told.
MoveSliderTo(s, i, value) ==
    LET top  == IF Below(s.rail[2].reads, value) THEN s.rail[2].reads ELSE value
        x    == IF Below(top, s.rail[1].reads) THEN s.rail[1].reads ELSE top
        one  == Sorted(Sorted(Sorted([s.thumbs EXCEPT ![i] = x])))
        both == Sorted(one)
    IN  [s EXCEPT !.thumbs = both, !.range = <<one[1], both[2]>>]

Redraw(s) ==
    LET q == [s EXCEPT !.thumbs = Sorted(Sorted(@))]
        r == MoveSliderTo(q, 1, q.thumbs[1])
    IN  MoveSliderTo(r, 2, r.thumbs[2])

SetLimits(s, limits) ==
    Redraw([s EXCEPT !.rail = limits,
                     !.thumbs = [i \in 1 .. 2 |-> Over(Times(@[i], limits[i].is), s.rail[i].reads)]])

ResetSliders(s) == MoveSliderTo(MoveSliderTo(s, 1, s.rail[1].reads), 2, s.rail[2].reads)

Passing(B, range) == {b \in B : AtMost(range[1], <<b[2], 2>>) /\ AtMost(<<b[2], 2>>, range[2])}

-----------------------------------------------------------------------------
(* The sidebar *)

Density(s) == [s EXCEPT !.density = IF s.error THEN "failed" ELSE <<s.count, s.size>>]
Leads(s)   == [s EXCEPT !.leads   = IF s.error THEN "failed" ELSE <<s.count, s.share>>]

\* updateBuildingStats
Recount(s, range) ==
    IF s.error THEN Leads(Density([s EXCEPT !.total = "failed"]))
    ELSE IF s.listed
    THEN LET passing == Passing(s.list, range)
         IN  Leads(Density([s EXCEPT !.count = passing, !.total = passing]))
    ELSE s

EmptySidebar(p) ==
    [listed |-> FALSE, list |-> {}, error |-> FALSE, count |-> {}, size |-> 0, share |-> p,
     total |-> {}, density |-> <<{}, 0>>, leads |-> <<{}, p>>, button |-> FALSE, open |-> FALSE]

\* The widget's first limits, 20 and 22000, are 2 and 22 on the scale of these sizes.
NothingFiltered ==
    /\ chosen = [number |-> 0, pages |-> <<>>, sent |-> 0, sized |-> TRUE]
    /\ outlines = {} /\ painted = {} /\ touched = FALSE
    /\ slide = [rail |-> <<Limit(2), Limit(22)>>, thumbs |-> <<Num(2), Num(22)>>,
                range |-> <<Num(0), Infinite>>]

FilterInit ==
    /\ \E u \in Usages : usage = u[1] /\ spare = u[2]
    /\ engine \in Engines
    /\ NothingFiltered
    /\ \E p \in Shares : stats = EmptySidebar(p)

Move == spare > 0 /\ spare' = spare - 1 /\ UNCHANGED <<usage, engine>>

\* resetStats, resetSidebar: the panel is closed, the thumbs stay.
ChooseArea ==
    /\ Move
    /\ \E p \in Plots :
          chosen' = [number |-> chosen.number + 1, pages |-> p, sent |-> 0, sized |-> FALSE]
    /\ outlines' = {}
    /\ stats' = [stats EXCEPT !.error = FALSE, !.count = {}, !.size = 0, !.total = {},
                              !.density = <<{}, 0>>, !.leads = <<{}, stats.share>>,
                              !.button = FALSE, !.open = FALSE]
    /\ UNCHANGED <<painted, slide, touched>>

\* The shown panel puts the thumbs at their ends.
TogglePanel ==
    /\ Move
    /\ stats.button
    /\ slide' = IF stats.open THEN slide ELSE Redraw(ResetSliders(slide))
    /\ painted' = IF stats.open THEN painted ELSE Passing(outlines, slide'.range)
    /\ stats' = IF stats.open THEN [stats EXCEPT !.open = FALSE]
                ELSE Recount([stats EXCEPT !.open = TRUE], slide'.range)
    /\ touched' = (stats.open /\ touched)
    /\ UNCHANGED <<chosen, outlines>>

MoveThumb(i, value) ==
    /\ Move
    /\ stats.open
    /\ slide' = MoveSliderTo(slide, i, value)
    /\ Below(slide'.thumbs[2], slide'.thumbs[1]) => "cross" \in usage
    /\ painted' = Passing(outlines, slide'.range)
    /\ stats' = Recount(stats, slide'.range)
    /\ touched' = TRUE
    /\ UNCHANGED <<chosen, outlines>>

\* On a logarithmic scale from zero every place of the pointer is zero or no number.
Drag(i, value) ==
    IF slide.rail[1].reads = Num(0)
    THEN MoveThumb(i, Num(0)) \/ MoveThumb(i, NaN)
    ELSE MoveThumb(i, value)

\* Arrows, page up and down, home and end.
PressKey(i) ==
    LET x == slide.thumbs[i]
    IN  \/ \E step \in {-10, -1, 1, 10} :
              x[2] > 0 /\ MoveThumb(i, <<x[1] + step * x[2], x[2]>>)
        \/ MoveThumb(i, slide.rail[1].reads)
        \/ MoveThumb(i, slide.rail[2].reads)

EnterShare(p) ==
    /\ Move
    /\ p # stats.share
    /\ ~stats.error
    /\ stats' = Leads([stats EXCEPT !.share = p])
    /\ UNCHANGED <<chosen, outlines, painted, slide, touched>>

-----------------------------------------------------------------------------
(* Answers, each for the selection it was asked for while that is current  *)

\* The sidebar counts, then the renderer draws and tells the slider its new limits, and
\* the slider both of them the new range.
TakePage(list, B, limits) ==
    /\ outlines' = B
    /\ slide' = SetLimits(slide, limits)
    /\ painted' = Passing(B, slide'.range)
    /\ stats' = Recount(Recount(list, slide.range), slide'.range)
    /\ UNCHANGED <<usage, engine, spare, touched>>

\* The first page replaces the list, the next ones extend it, the empty one ends it.
NextPage ==
    LET k      == chosen.sent + 1
        houses == {chosen.number} \X (IF k > Len(chosen.pages) THEN {} ELSE chosen.pages[k])
        Put(B) == IF k = 1 THEN houses ELSE B \cup houses
    IN  /\ chosen.number > 0 /\ chosen.sent <= Len(chosen.pages)
        /\ chosen' = [chosen EXCEPT !.sent = k]
        /\ TakePage([stats EXCEPT !.listed = TRUE, !.list = Put(@), !.button = TRUE],
                    Put(outlines), LimitsOf(Put(outlines)))

PagesTimeOut ==
    /\ "timeout" \in usage
    /\ chosen.number > 0 /\ chosen.sent <= Len(chosen.pages)
    /\ chosen' = [chosen EXCEPT !.sent = Len(chosen.pages) + 1]
    /\ TakePage([stats EXCEPT !.error = TRUE], outlines, Unlimited)

TellSize ==
    /\ ~chosen.sized
    /\ chosen' = [chosen EXCEPT !.sized = TRUE]
    /\ stats' = Density([stats EXCEPT !.size = chosen.number])
    /\ UNCHANGED <<usage, engine, spare, outlines, painted, slide, touched>>

FilterNext ==
    \/ ChooseArea \/ TogglePanel
    \/ \E i \in 1 .. 2 : PressKey(i) \/ \E v \in Spots : Drag(i, v)
    \/ \E p \in Shares : EnterShare(p)
    \/ NextPage \/ PagesTimeOut \/ TellSize

FilterSpec == FilterInit /\ [][FilterNext]_filterVars

-----------------------------------------------------------------------------
(* Once the last page is there, the count, the density, the leads and the *)
(* buildings painted are of the buildings between the two thumbs, and of all *)
(* when the user left the thumbs alone, whatever the limits went through:  *)
(* other areas, pages of other sizes, the limits of an error.  So in a     *)
(* browser whose sort leaves the thumbs in place, while no thumb passed    *)
(* the other, and no area without buildings or with one below a square     *)
(* foot divided by zero.                                                   *)
Ruined == NaN \in {slide.thumbs[1], slide.thumbs[2]} \/ slide.rail[1].reads \in {NaN, Num(0)}

FigureTellsTheFilter ==
    (/\ chosen.number > 0 /\ chosen.sent > Len(chosen.pages)
     /\ engine = "later" /\ "cross" \notin usage /\ ~stats.error /\ ~Ruined)
    => LET all  == {chosen.number} \X UNION {chosen.pages[k] : k \in DOMAIN chosen.pages}
           pass == IF touched THEN Passing(all, slide.thumbs) ELSE all
       IN  /\ stats.total = pass /\ painted = pass
           /\ stats.density = <<pass, IF chosen.sized THEN chosen.number ELSE 0>>
           /\ stats.leads = <<pass, stats.share>>
=============================================================================
