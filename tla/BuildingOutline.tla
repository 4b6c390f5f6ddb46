--------------------------- MODULE BuildingOutline ---------------------------
(***************************************************************************)
(* How a predicted building becomes a polygon: the intersections of the    *)
(* lines found in its picture are drawn together into a grid, and of the   *)
(* grid's rectangles those are kept that the building fills, the doubtful  *)
(* ones being cut into quarters first.  Angles, lines and the union of the *)
(* rectangles are left out: the picture stands upright.                    *)
(***************************************************************************)
EXTENDS Integers, Sequences, FiniteSets, SequencesExt

CONSTANTS BoxWidth, BoxHeight, \* the picture
          Pictures,    \* sets of filled pixels
          Lines,       \* pairs of sets: the intersections' x and y; empty if none is found
          EdgeLength,  \* MINIMUM_BUILDING_EDGE_PIXEL_LENGTH
          MaxGroup,    \* MAXIMUM_AGGREGATION_DISTANCE
          MinSplit     \* MINIMUM_SPLIT_RECTANGLE_DISTANCE

ASSUME OutlineAssumption ==
    /\ {BoxWidth, BoxHeight, EdgeLength, MaxGroup, MinSplit} \subseteq Nat \ {0}
    /\ \A p \in Pictures : p \subseteq (0 .. BoxWidth - 1) \X (0 .. BoxHeight - 1)
    /\ Lines \subseteq (SUBSET (0 .. BoxWidth - 1)) \X (SUBSET (0 .. BoxHeight - 1))
    /\ \A l \in Lines : l[1] = {} <=> l[2] = {}

SuccessShare == 60  \* FILLED_PIXEL_SUCCESS_THRESHOLD
SplitShare   == 20  \* FILLED_PIXEL_SPLIT_THRESHOLD

VARIABLES
    picture,  \* the filled pixels
    lines,    \* the intersections
    grid,     \* the grid's x and y coordinates
    toInspect, outline \* rectangles <<min x, min y, max x, max y>>

outlineVars == <<picture, lines, grid, toInspect, outline>>

OutlineInit ==
    /\ picture \in Pictures
    /\ lines \in Lines
    /\ grid = <<>> /\ toInspect = <<>> /\ outline = {}

Ascend(S) == CHOOSE s \in [1 .. Cardinality(S) -> S] :
                 \A i, j \in 1 .. Cardinality(S) : i < j => s[i] < s[j]

RoundHalfEven(sum, n) ==
    LET q == sum \div n
        r == 2 * (sum % n)
    IN  IF r > n \/ (r = n /\ q % 2 = 1) THEN q + 1 ELSE q

Centroid(group) == RoundHalfEven(FoldLeft(LAMBDA a, b : a + b, 0, group), Len(group))

\* aggregate_nearby_coordinates: a group ends at a gap, or when it gets too wide.
Joins(group, c) == c - Last(group) <= EdgeLength /\ c - Head(group) < MaxGroup

Gathered(groups, c) ==
    IF groups # <<>> /\ Joins(Last(groups), c)
    THEN Append(Front(groups), Append(Last(groups), c))
    ELSE Append(groups, <<c>>)

Aggregated(S) ==
    LET groups == FoldLeft(Gathered, <<>>, Ascend(S))
    IN  [i \in DOMAIN groups |-> Centroid(groups[i])]

\* identify_subrectangles: the box is the grid's frame.
Framed_Open(coords, max) == IF Head(coords) # 0 THEN <<0>> \o coords ELSE coords

Framed(coords, max) ==
    LET c == IF Head(coords) # 0 THEN <<0>> \o coords ELSE coords
    IN  IF Last(c) # max THEN Append(c, max) ELSE c

\* Without lines the corners are those of squares of the least edge.
Corners(length) == {i * EdgeLength : i \in 0 .. (length \div EdgeLength) - 1}

Rectangles(g) ==  \* subrectangles_from_grid, row by row
    LET columns == Len(g[1]) - 1
    IN  [k \in 1 .. columns * (Len(g[2]) - 1) |->
            LET i == ((k - 1) % columns) + 1
                j == (k - 1) \div columns + 1
            IN  <<g[1][i], g[2][j], g[1][i + 1], g[2][j + 1]>>]

IdentifySubrectangles ==
    /\ grid = <<>>
    /\ LET xs == IF lines[1] = {} THEN Corners(BoxWidth) ELSE lines[1]
           ys == IF lines[1] = {} THEN Corners(BoxHeight) ELSE lines[2]
       IN  /\ xs # {} /\ ys # {}  \* too small for any edge: no polygon
           /\ grid' = <<Framed(Aggregated(xs), BoxWidth), Framed(Aggregated(ys), BoxHeight)>>
    /\ toInspect' = Rectangles(grid')
    /\ UNCHANGED <<picture, lines, outline>>

Pixels(r) == (r[1] .. r[3] - 1) \X (r[2] .. r[4] - 1)
Filled(r) == Cardinality(Pixels(r) \cap picture)
Size(r)   == Cardinality(Pixels(r))

Split(r) ==
    LET x == (r[1] + r[3]) \div 2
        y == (r[2] + r[4]) \div 2
    IN  IF x - r[1] < MinSplit \/ y - r[2] < MinSplit THEN <<>>
        ELSE << <<r[1], r[2], x, y>>, <<x, r[2], r[3], y>>,
                <<r[1], y, x, r[4]>>, <<x, y, r[3], r[4]>> >>

\* find_filled_subrectangles, one rectangle.
Doubtful_Always(r) == 100 * Filled(r) >= SplitShare * Size(r)

Doubtful(r) == /\ 100 * Filled(r) >= SplitShare * Size(r)
               /\ 100 * Filled(r) < SuccessShare * Size(r)
               /\ 100 * Filled(r) >= (100 - SuccessShare) * Size(r)

Inspect ==
    /\ toInspect # <<>>
    /\ LET r == Head(toInspect)
       IN  /\ outline' = IF Size(r) > 0 /\ 100 * Filled(r) >= SuccessShare * Size(r)
                         THEN outline \cup {r} ELSE outline
           /\ toInspect' = Tail(toInspect)
                             \o (IF Size(r) > 0 /\ Doubtful(r) THEN Split(r) ELSE <<>>)
    /\ UNCHANGED <<picture, lines, grid>>

OutlineNext == IdentifySubrectangles \/ Inspect

OutlineSpec == OutlineInit /\ [][OutlineNext]_outlineVars

------------------------------------------------------------------------------
(* Properties *)

\* The grid lines ascend from edge to edge of the box and every intersection is
\* near one of them: no rectangle is lost, empty, or cut off from its lines.
GridFollowsTheLines ==
    grid # <<>> => \A d \in 1 .. 2 :
        LET g == grid[d]
        IN  /\ Head(g) = 0 /\ Last(g) = (IF d = 1 THEN BoxWidth ELSE BoxHeight)
            /\ \A i \in 1 .. Len(g) - 1 : g[i] < g[i + 1]
            /\ \A c \in lines[d] : \E i \in DOMAIN g : g[i] - c < MaxGroup /\ c - g[i] < MaxGroup

\* Nothing is outlined or looked at twice, and what is outlined is mostly building.
OutlineIsBuilding ==
    LET Apart(r, s) == Pixels(r) \cap Pixels(s) = {}
    IN  /\ \A i, j \in DOMAIN toInspect : i # j => Apart(toInspect[i], toInspect[j])
        /\ \A r \in outline : \A s \in outline \ {r} : Apart(r, s)
        /\ \A r \in outline : \A i \in DOMAIN toInspect : Apart(r, toInspect[i])
        /\ 100 * Cardinality(UNION {Pixels(r) \cap picture : r \in outline})
              >= SuccessShare * Cardinality(UNION {Pixels(r) : r \in outline})
=============================================================================
