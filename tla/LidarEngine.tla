----------------------------- MODULE LidarEngine ------------------------------
(***************************************************************************)
(* The height profile along a link, out of point clouds that each cover    *)
(* parts of it: the newest cloud takes what it covers, the next what is    *)
(* left, and what no cloud covers or could be read is filled in from the   *)
(* sides.  LinkProfile has the tasks that ask for profiles.                *)
(*                                                                         *)
(* The link is cut into cells of equal length.  A height is named by the   *)
(* points it is computed from.  A boundary never touches the link in a     *)
(* single point only.                                                      *)
(***************************************************************************)
EXTENDS Integers, Sequences, FiniteSets, FiniteSetsExt, SequencesExt

CONSTANTS Cells,       \* the length of the link
          NumSamples,  \* asked for; MAXIMUM_NUM_POINTS_RETURNED
          Surveys      \* sequences of clouds, as the database returns them

\* A cloud's year is read off its URL, 0 if there is none; its points lie at distances
\* along the link.
Cloud == [year : Nat, cells : (SUBSET (0 .. Cells - 1)) \ {{}}, points : SUBSET (0 .. Cells)]

ASSUME SurveysAssumption == /\ {Cells, NumSamples} \subseteq Nat \ {0}
                            /\ \A s \in Surveys : s \in Seq(Cloud)

VARIABLES
    survey,    \* the clouds that cover some of the link
    taken,     \* how many of them have been taken
    left,      \* remaining_segments: cells
    segments,  \* <<run, cloud>>
    profile,   \* samples
    stage      \* "query", "segments", "combine"; then "done" or "refused"

engineVars == <<survey, taken, left, segments, profile, stage>>

NoCloud == [year |-> -1, cells |-> {}, points |-> {}]

EngineInit ==
    /\ survey \in Surveys /\ taken = 0
    /\ left = 0 .. Cells - 1 /\ segments = {} /\ profile = <<>> /\ stage = "query"

\* A set of cells as lines: <<from, to>> of each of its runs.
Runs(S) == {r \in (0 .. Cells - 1) \X (1 .. Cells) :
              /\ r[1] < r[2] /\ r[1] .. r[2] - 1 \subseteq S
              /\ r[1] - 1 \notin S /\ r[2] \notin S}

\* Sorted by year and turned round; equal years keep their order.
Newer_Forward(s, i, j) == s[i].year < s[j].year \/ (s[i].year = s[j].year /\ i < j)

Newer(s, i, j) == s[i].year > s[j].year \/ (s[i].year = s[j].year /\ i < j)

NewestFirst(s) ==
    LET places == 1 .. Len(s)
        order == CHOOSE p \in [places -> places] :
                     \A i, j \in places : i < j => Newer(s, p[i], p[j])
    IN  [i \in places |-> s[order[i]]]

Query ==
    /\ stage = "query" /\ stage' = "segments"
    /\ survey' = NewestFirst(survey)
    /\ UNCHANGED <<taken, left, segments, profile>>

TakeCloud ==
    /\ stage = "segments" /\ taken < Len(survey)
    /\ taken' = taken + 1
    /\ LET c == survey[taken + 1]
       IN  /\ segments' = segments \cup {<<r, c>> : r \in Runs(left \cap c.cells)}
           /\ left' = left \ c.cells
    /\ UNCHANGED <<survey, profile, stage>>

TakeRest ==
    /\ stage = "segments" /\ taken = Len(survey) /\ stage' = "combine"
    /\ segments' = segments \cup {<<r, NoCloud>> : r \in Runs(left)}
    /\ UNCHANGED <<survey, taken, left, profile>>

------------------------------------------------------------------------------
(* The samples of one segment *)

\* Rounded down, for each segment on its own.
SamplesOf(run) == ((run[2] - run[1]) * NumSamples) \div Cells

On(run, points) == {p \in points : run[1] <= p /\ p <= run[2]}

\* interp1d between the points next to the k-th of n samples.  Before the first point
\* there is the height of the first; after the last that of the second.
PointsOf(run, points, k, n) ==
    LET spaces   == IF n = 1 THEN 1 ELSE n - 1
        Side(p)  == (p - run[1]) * spaces - k * (run[2] - run[1])
        before   == {p \in points : Side(p) <= 0}
        after    == {p \in points : Side(p) >= 0}
    IN  IF before = {} THEN {Min(points)}
        ELSE IF after = {} THEN {Min(points \ {Min(points)})}
        ELSE {Max(before), Min(after)}

\* Without two points, or a cloud at all, an exception leaves the segment empty.
SegmentProfile(run, cloud) ==
    LET points == On(run, cloud.points)
        n == SamplesOf(run)
    IN  [i \in 1 .. n |-> [run |-> run, cloud |-> cloud,
                           of |-> IF Cardinality(points) < 2 THEN {}
                                  ELSE PointsOf(run, points, i - 1, n)]]

\* np.interp over the places of the samples: the nearest ones measured on either side,
\* or on the only side there is.
Interpolated(data) ==
    LET measured == {i \in DOMAIN data : data[i].of # {}}
        Fill(i) == LET before == {j \in measured : j < i}
                       after  == {j \in measured : j > i}
                   IN  (IF before = {} THEN {} ELSE data[Max(before)].of)
                         \cup (IF after = {} THEN {} ELSE data[Min(after)].of)
    IN  [i \in DOMAIN data |-> IF i \in measured THEN data[i]
                               ELSE [data[i] EXCEPT !.of = Fill(i)]]

\* Sorted by their distance from the start of the link.
ByPlace(S) ==
    CHOOSE q \in [1 .. Cardinality(S) -> S] :
        \A i, j \in 1 .. Cardinality(S) : i < j => q[i][1][1] < q[j][1][1]

Joined(data, s) == data \o SegmentProfile(s[1], s[2])

Combined(S) == FoldLeft(Joined, <<>>, ByPlace(S))

Combine ==
    /\ stage = "combine"
    /\ LET data == Combined(segments)
       IN  IF \E i \in DOMAIN data : data[i].of # {}
           THEN profile' = Interpolated(data) /\ stage' = "done"
           ELSE stage' = "refused" /\ UNCHANGED profile
    /\ UNCHANGED <<survey, taken, left, segments>>

EngineNext == Query \/ TakeCloud \/ TakeRest \/ Combine

EngineSpec == EngineInit /\ [][EngineNext]_engineVars

------------------------------------------------------------------------------
(* Properties *)

Covers(cloud, run) == run[1] .. run[2] - 1 \subseteq cloud.cells

Measured(run, cloud) == Cardinality(On(run, cloud.points)) >= 2 /\ SamplesOf(run) > 0

\* The segments lie side by side from one end of the link to the other, each of a cloud
\* that covers it where no newer one does, and no cloud is passed over.
SegmentsAreNewest ==
    LET Of(cell) == {s \in segments : s[1][1] <= cell /\ cell < s[1][2]}
    IN  \A cell \in 0 .. Cells - 1 :
            /\ Cardinality(Of(cell)) = 1
            /\ \A s \in Of(cell) :
                 /\ s[2] # NoCloud => Covers(s[2], s[1])
                 /\ \A c \in ToSet(survey) : cell \in c.cells => s[2].year >= c.year

\* What was measured is of the segment's own points; what was not, of the segments
\* measured next before and after it.
GapsAreFilled ==
    LET measured == {s[1] : s \in {t \in segments : Measured(t[1], t[2])}}
    IN  \A i \in 1 .. Len(profile) :
           LET s == profile[i]
               Before == {r \in measured : r[2] <= s.run[1]}
               After  == {r \in measured : r[1] >= s.run[2]}
               Sides  == {r \in Before : \A q \in Before : q[1] <= r[1]}
                           \cup {r \in After : \A q \in After : r[1] <= q[1]}
           IN  IF s.run \in measured THEN s.of # {} /\ s.of \subseteq On(s.run, s.cloud.points)
               ELSE /\ \A p \in s.of : \E r \in Sides : r[1] <= p /\ p <= r[2]
                    /\ \A r \in Sides : \E p \in s.of : r[1] <= p /\ p <= r[2]

\* However clouds overlap and whatever cannot be read, the profile follows the link from
\* end to end, newest cloud first; it is refused only when nothing could be measured, and
\* lacks less than a sample for each of its segments.
ProfileFollowsTheLink == stage \in {"done", "refused"} =>
    /\ SegmentsAreNewest
    /\ stage = "refused" <=> ~\E s \in segments : Measured(s[1], s[2])
    /\ stage = "done" =>
         /\ Len(profile) <= NumSamples /\ NumSamples < Len(profile) + Cardinality(segments)
         /\ \A i \in 1 .. Len(profile) - 1 :
               profile[i].run = profile[i + 1].run \/ profile[i].run[2] <= profile[i + 1].run[1]
         /\ GapsAreFilled
=============================================================================
