--------------------------- MODULE AreaStatistics ---------------------------
(***************************************************************************)
(* The market evaluator's average income and competitors of the selected   *)
(* area: the task that averages page by page over the precomputed incomes  *)
(* of buildings, and the dialog that the page has rendered once the        *)
(* providers and the prices are both there.  Which request a message       *)
(* answers is MarketEvaluator's: here the tasks of the request before the  *)
(* current one are gone, but a dialog may still be on its way.             *)
(***************************************************************************)
EXTENDS Integers, Sequences, FiniteSetsExt

CONSTANTS Grounds,   \* areas, see Ground
          PageSize,  \* 10000 in income_skeleton
          Habits     \* what may happen together, and a bound on selections

NoTract == -1        \* a building without a row in microsoftfootprint2tracts
Null    == -2        \* an income that is null

\* Incomes of the buildings by gid, whether they are precomputed, else the income of
\* the subdivisions; and whether the area touches Canada.
Ground == [incomes : Seq(Nat \cup {NoTract, Null}), precomputed : BOOLEAN,
           simple : Nat \cup {Null}, canada : BOOLEAN]

\* The user selects while a dialog is on its way; the database fails; a task times out.
Habit == {"hasty", "dberror", "timeout"}

ASSUME StatisticsAssumption ==
    /\ Grounds \subseteq Ground /\ PageSize \in Nat \ {0}
    /\ Habits \subseteq (SUBSET Habit) \X Nat
    \* averages of a page are whole
    /\ \A a \in Grounds : \A i \in DOMAIN a.incomes : \A k \in 1 .. PageSize :
          a.incomes[i] >= 0 => a.incomes[i] % k = 0

VARIABLES
    habit, picks, \* what may happen, selections left
    ground,       \* the selected area and its number
    income,       \* genMedianIncome: state, max_gid, what it has averaged, whether a query failed
    awaited,      \* of "providers" and "prices", the tasks that have not ended
    told,         \* the sidebar manager: two responses and the income shown
    rendering,    \* dialogs being rendered: the numbers their two halves are of
    dialog        \* the dialog: whether its link is shown, and the numbers it is of

statisticsVars == <<habit, picks, ground, income, awaited, told, rendering, dialog>>

NoDialog == [shown |-> FALSE, of |-> <<0, 0>>]
Silence  == [error |-> FALSE, of |-> 0]
NothingTold == [providers |-> Silence, prices |-> Silence, income |-> [is |-> "loading", mean |-> <<0, 0>>]]

\* resetStats and resetSidebar: the dialog keeps its content, only its link goes.
Reset_KeepPrices(s) == [NothingTold EXCEPT !.prices = s.prices]
Reset(s) == NothingTold

NothingSelected ==
    /\ ground = [number |-> 0, is |-> CHOOSE a \in Grounds : TRUE]
    /\ income = [is |-> "ended", last |-> 0, total |-> 0, count |-> 0, failed |-> FALSE]
    /\ awaited = {} /\ told = NothingTold /\ rendering = {} /\ dialog = NoDialog

StatisticsInit ==
    /\ \E h \in Habits : habit = h[1] /\ picks = h[2]
    /\ NothingSelected

SelectGround ==
    /\ picks > 0 /\ picks' = picks - 1
    /\ rendering # {} => "hasty" \in habit
    /\ \E a \in Grounds : ground' = [number |-> ground.number + 1, is |-> a]
    /\ income' = [is |-> "running", last |-> 0, total |-> 0, count |-> 0, failed |-> FALSE]
    /\ awaited' = {"providers", "prices"}
    /\ told' = Reset(told)
    /\ dialog' = [dialog EXCEPT !.shown = FALSE]
    /\ UNCHANGED <<habit, rendering>>

-----------------------------------------------------------------------------
(* Income *)

\* income_skeleton: a building without tract is dropped, one whose tracts have no income
\* counts but is not in the average.
IncomeRow(incomes, after) ==
    LET rows  == {g \in after + 1 .. after + PageSize : g \in DOMAIN incomes /\ incomes[g] # NoTract}
        known == {g \in rows : incomes[g] # Null}
    IN  [count |-> Cardinality(rows),
         mean  |-> IF known = {} THEN 0
                   ELSE MapThenSumSet(LAMBDA g : incomes[g], known) \div Cardinality(known),
         last  |-> IF rows = {} THEN 0 ELSE CHOOSE g \in rows : \A h \in rows : h <= g]

\* A result's "numbuildings" weighs its average; an average of nothing is 0.
Averaged(task, result) ==
    [task EXCEPT !.total = @ + result.mean * result.count,
                 !.count = @ + result.count,
                 !.last  = result.last]

ShowIncome(task) == told' = [told EXCEPT !.income =
                        [is |-> "mean", mean |-> <<task.total, task.count>>]]
ShowNoIncome     == told' = [told EXCEPT !.income = [is |-> "error", mean |-> <<0, 0>>]]

IncomeStep == income.is = "running" /\ UNCHANGED <<habit, picks, ground, awaited, rendering, dialog>>

\* Each page is told, the page of no buildings ends the loop.
NextIncomePage ==
    /\ IncomeStep
    /\ ground.is.precomputed
    /\ LET result == IncomeRow(ground.is.incomes, income.last)
           task   == Averaged(income, result)
       IN  /\ income' = [task EXCEPT !.is = IF result.count = 0 THEN "ended" ELSE @]
           /\ ShowIncome(task)

\* An error counts as a building of no income, and the loop starts again at gid 0.
FailIncomePage ==
    /\ IncomeStep
    /\ "dberror" \in habit /\ ~income.failed
    /\ ground.is.precomputed
    /\ income' = [Averaged(income, [mean |-> 0, count |-> 1, last |-> 0]) EXCEPT !.failed = TRUE]
    /\ ShowNoIncome

\* Without precomputed incomes: one query; its null ends the task with nothing told.
SimpleIncome ==
    /\ IncomeStep
    /\ ~ground.is.precomputed
    /\ LET one == [mean |-> ground.is.simple, count |-> 1, last |-> 0]
       IN  IF ground.is.simple = Null
           THEN income' = [income EXCEPT !.is = "dead"] /\ UNCHANGED told
           ELSE /\ income' = [Averaged(income, one) EXCEPT !.is = "ended"]
                /\ ShowIncome(Averaged(income, one))

FailSimpleIncome ==
    /\ IncomeStep
    /\ "dberror" \in habit
    /\ ~ground.is.precomputed
    /\ income' = [income EXCEPT !.is = "ended", !.failed = TRUE, !.count = 1]
    /\ ShowNoIncome

IncomeTimesOut ==
    /\ IncomeStep
    /\ "timeout" \in habit
    /\ income' = [income EXCEPT !.is = "ended", !.failed = TRUE]
    /\ ShowNoIncome

-----------------------------------------------------------------------------
(* Competitors *)

\* updateCompetitorModalLink
AskDialog ==
    rendering' = IF /\ {told'.providers.of, told'.prices.of} \cap {0} = {}
                /\ ~told'.providers.error /\ ~told'.prices.error
             THEN rendering \cup {[of |-> <<told'.providers.of, told'.prices.of>>,
                               canada |-> ground.is.canada]}
             ELSE rendering

HalfEnds(half) ==
    /\ half \in awaited
    /\ awaited' = awaited \ {half}
    /\ UNCHANGED <<habit, picks, ground, income, dialog>>

HalfComes(half) ==
    /\ HalfEnds(half)
    /\ told' = [told EXCEPT ![half] = [error |-> FALSE, of |-> ground.number]]
    /\ AskDialog

HalfTimesOut(half) ==
    /\ HalfEnds(half)
    /\ "timeout" \in habit
    /\ told' = [told EXCEPT ![half] = [error |-> TRUE, of |-> ground.number]]
    /\ AskDialog

\* Neither task catches what its query raises.
HalfDies(half) ==
    /\ HalfEnds(half)
    /\ "dberror" \in habit
    /\ UNCHANGED <<told, rendering>>

\* Canadian providers have no speeds, which the view takes for granted: no dialog then.
DialogComes ==
    \E p \in rendering :
       /\ rendering' = rendering \ {p}
       /\ dialog' = IF p.canada THEN dialog ELSE [shown |-> TRUE, of |-> p.of]
       /\ UNCHANGED <<habit, picks, ground, income, awaited, told>>

StatisticsNext ==
    \/ SelectGround
    \/ NextIncomePage \/ FailIncomePage \/ SimpleIncome \/ FailSimpleIncome \/ IncomeTimesOut
    \/ \E half \in {"providers", "prices"} :
          HalfComes(half) \/ HalfTimesOut(half) \/ HalfDies(half)
    \/ DialogComes

StatisticsSpec == StatisticsInit /\ [][StatisticsNext]_statisticsVars

-----------------------------------------------------------------------------
(* A dialog that can be opened is of the selected area in both halves, as  *)
(* long as the user waits for dialogs asked for before; it can be opened   *)
(* once both halves have come without error, but in Canada.  The income    *)
(* told last is the mean over the buildings if no query failed and every   *)
(* building has a tract with an income.                                    *)
StatisticsAreOfTheArea ==
    /\ dialog.shown /\ "hasty" \notin habit => dialog.of = <<ground.number, ground.number>>
    /\ (/\ rendering = {} /\ ~ground.is.canada /\ ground.number > 0
        /\ \A half \in {"providers", "prices"} :
              told[half].of = ground.number /\ ~told[half].error)
       => dialog.shown
    /\ LET houses == DOMAIN ground.is.incomes
       IN  (/\ income.is = "ended" /\ ~income.failed /\ ground.number > 0 /\ ground.is.precomputed
            /\ \A g \in houses : ground.is.incomes[g] \notin {NoTract, Null})
           => /\ told.income.is = "mean"
              /\ told.income.mean =
                    <<MapThenSumSet(LAMBDA g : ground.is.incomes[g], houses), Cardinality(houses)>>
=============================================================================
