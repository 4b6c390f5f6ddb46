------------------------------ MODULE Inductions ------------------------------
(***************************************************************************)
(* Induction over numbers and finite sets, stated with sets for what is to *)
(* be shown, and what follows for functions defined by recursion: they     *)
(* exist, and a fold over a sequence goes through it from left to right.   *)
(***************************************************************************)
EXTENDS Integers, Sequences, FiniteSets, FiniteSetsExt, FiniteSetTheorems, TLAPS

\* Natural numbers are well ordered.
LEMMA LeastNumber ==
    ASSUME NEW T, T \subseteq Nat, T # {}
    PROVE  \E n \in T : \A m \in T : n <= m
<1>1. IsWellFoundedOn(OpToRel(<, Nat), Nat)
  BY NatLessThanWellFounded
<1>2. PICK n \in T : \A m \in T : ~ (<<m, n>> \in OpToRel(<, Nat))
  BY <1>1, WFMin
<1>3. \A m \in T : ~ (m < n)
  BY <1>2 DEF OpToRel
<1>4. QED
  BY <1>3

\* The least and the greatest of some numbers.
LEMMA MinAndMax ==
    ASSUME NEW n \in Nat, NEW S \in SUBSET (0 .. n), S # {}
    PROVE  /\ Max(S) \in S /\ \A x \in S : x <= Max(S)
           /\ Min(S) \in S /\ \A x \in S : Min(S) <= x
<1>1. PICK m \in S : \A x \in S : m <= x
  <2>1. S \subseteq Nat
    OBVIOUS
  <2>2. QED
    BY <2>1, LeastNumber
<1> DEFINE T == {n - x : x \in S}
<1>2. PICK k \in T : \A y \in T : k <= y
  <2>1. T \subseteq Nat /\ T # {}
    OBVIOUS
  <2> HIDE DEF T
  <2>2. QED
    BY <2>1, LeastNumber
<1>3. PICK g \in S : k = n - g
  OBVIOUS
<1>4. \A x \in S : x <= g
  <2>1. \A x \in S : k <= n - x
    BY <1>2
  <2>2. QED
    BY <1>3, <2>1
<1>5. Max(S) \in S /\ \A x \in S : x <= Max(S)
  BY <1>4 DEF Max
<1>6. Min(S) \in S /\ \A x \in S : Min(S) <= x
  BY <1>1 DEF Min
<1>7. QED
  BY <1>5, <1>6

\* What holds of 0 and of a number's successor holds of all up to a bound.
LEMMA Upwards ==
    ASSUME NEW n \in Nat, NEW S, 0 \in S, \A i \in 1 .. n : i - 1 \in S => i \in S
    PROVE  0 .. n \subseteq S
<1> DEFINE T == {i \in 0 .. n : i \notin S}
<1>1. SUFFICES ASSUME T # {} PROVE FALSE
  OBVIOUS
<1>2. PICK i \in T : \A m \in T : i <= m
  <2>1. T \subseteq Nat
    OBVIOUS
  <2> HIDE DEF T
  <2>2. QED
    BY <1>1, <2>1, LeastNumber
<1>3. i \in 1 .. n /\ i \notin S
  BY <1>2
<1>4. i - 1 \in 0 .. n /\ i - 1 \notin T
  BY <1>2, <1>3
<1>5. QED
  BY <1>3, <1>4

\* What holds of the empty set and of a set with an element more holds of a finite set.
LEMMA Growing ==
    ASSUME NEW S, IsFiniteSet(S), NEW F, {} \in F,
           \A T \in SUBSET S : \A x \in S \ T : T \in F => T \cup {x} \in F
    PROVE  S \in F
<1> DEFINE B == {T \in FiniteSubsetsOf(S) : T \notin F}
<1>1. SUFFICES ASSUME S \notin F PROVE FALSE
  OBVIOUS
<1>2. FiniteSubsetsOf(S) = SUBSET S
  BY FS_FiniteSubsetsOfFinite
<1>3. PICK T \in B : \A U \in B : ~ (<<U, T>> \in StrictSubsetOrdering(S))
  <2>1. B # {} /\ B \subseteq FiniteSubsetsOf(S)
    BY <1>1, <1>2
  <2>2. IsWellFoundedOn(StrictSubsetOrdering(S), FiniteSubsetsOf(S))
    BY FS_StrictSubsetOrderingWellFounded
  <2>3. QED
    BY <2>1, <2>2, WFMin
<1>4. PICK x : x \in T
  BY <1>3
<1>5. T \ {x} \in SUBSET S /\ T \ {x} \notin B
  BY <1>2, <1>3, <1>4 DEF StrictSubsetOrdering
<1>6. T \ {x} \in F /\ x \in S \ (T \ {x}) /\ (T \ {x}) \cup {x} = T
  BY <1>2, <1>3, <1>4, <1>5
<1>7. QED
  BY <1>3, <1>5, <1>6

\* A function on the subsets of S, of each from the one without the element picked.
SetRecursive(f, S, V, base, pick, step) ==
    /\ f \in [SUBSET S -> V]
    /\ \A s \in SUBSET S :
          f[s] = IF s = {} THEN base ELSE step[<<f[s \ {pick[s]}], pick[s]>>]

\* There is a function on the subsets of a finite set, each from one with an element less.
LEMMA SetRecursion ==
    ASSUME NEW S, IsFiniteSet(S), NEW V, NEW base \in V,
           NEW pick, \A s \in SUBSET S : s # {} => pick[s] \in s,
           NEW step, \A v \in V : \A x \in S : step[<<v, x>>] \in V
    PROVE  \E f : SetRecursive(f, S, V, base, pick, step)
<1> DEFINE Small(k) == {s \in SUBSET S : Cardinality(s) <= k}
           Right(f, k) == \A s \in Small(k) :
               f[s] = IF s = {} THEN base ELSE step[<<f[s \ {pick[s]}], pick[s]>>]
           n == Cardinality(S)
           K == {k \in 0 .. n : \E f \in [Small(k) -> V] : Right(f, k)}
<1>1. /\ n \in Nat
      /\ \A s \in SUBSET S : IsFiniteSet(s) /\ Cardinality(s) \in Nat /\ Cardinality(s) <= n
  BY FS_CardinalityType, FS_Subset
<1>2. \A s \in SUBSET S : Cardinality(s) = 0 <=> s = {}
  BY <1>1, FS_EmptySet
<1>3. \A s \in SUBSET S : s # {} => Cardinality(s \ {pick[s]}) = Cardinality(s) - 1
  BY <1>1, FS_RemoveElement
<1>4. 0 \in K
  <2>1. Small(0) = {{}}
    BY <1>1, <1>2
  <2>2. [s \in Small(0) |-> base] \in [Small(0) -> V] /\ Right([s \in Small(0) |-> base], 0)
    BY <2>1
  <2>3. 0 \in 0 .. n
    BY <1>1
  <2> HIDE DEF Small, Right
  <2>4. QED
    BY <2>2, <2>3
<1>5. ASSUME NEW k \in 1 .. n, k - 1 \in K PROVE k \in K
  <2>1. PICK f \in [Small(k - 1) -> V] : Right(f, k - 1)
    BY <1>5
  <2> DEFINE g == [s \in Small(k) |-> IF s \in Small(k - 1) THEN f[s]
                                      ELSE step[<<f[s \ {pick[s]}], pick[s]>>]]
  <2>2. Small(k - 1) \subseteq Small(k)
    BY <1>1
  <2>3. ASSUME NEW s \in Small(k), s # {}
        PROVE  s \ {pick[s]} \in Small(k - 1) /\ pick[s] \in S
    BY <1>1, <1>3, <2>3
  <2>4. {} \in Small(k - 1)
    BY <1>1, <1>2
  <2>5. g \in [Small(k) -> V]
    <3>1. ASSUME NEW s \in Small(k), s \notin Small(k - 1)
          PROVE  step[<<f[s \ {pick[s]}], pick[s]>>] \in V
      BY <2>3, <2>4, <3>1
    <3>2. QED
      BY <3>1
  <2>6. Right(g, k)
    <3> SUFFICES ASSUME NEW s \in Small(k)
                 PROVE  g[s] = IF s = {} THEN base ELSE step[<<g[s \ {pick[s]}], pick[s]>>]
      OBVIOUS
    <3>1. CASE s = {}
      BY <2>1, <2>2, <2>4, <3>1
    <3>2. CASE s # {}
      <4>1. g[s \ {pick[s]}] = f[s \ {pick[s]}]
        BY <2>2, <2>3, <3>2
      <4>2. g[s] = step[<<f[s \ {pick[s]}], pick[s]>>]
        BY <2>1, <3>2
      <4>3. QED
        BY <3>2, <4>1, <4>2
    <3>3. QED
      BY <3>1, <3>2
  <2> HIDE DEF Small, Right, g
  <2>7. QED
    BY <2>5, <2>6
<1> HIDE DEF K
<1>6. n \in K
  BY <1>1, <1>4, <1>5, Upwards
<1>7. Small(n) = SUBSET S
  BY <1>1
<1>8. PICK f \in [SUBSET S -> V] : Right(f, n)
  BY <1>6, <1>7 DEF K
<1>9. QED
  BY <1>7, <1>8 DEF SetRecursive

\* The greatest of numbers up to a bound.
LEMMA MaxOfSome ==
    ASSUME NEW n \in Nat, NEW s \in SUBSET (1 .. n), s # {}
    PROVE  Max(s) \in s /\ \A x \in s : x <= Max(s)
<1> DEFINE T == {n - x : x \in s}
<1>1. T \subseteq Nat /\ T # {}
  OBVIOUS
<1>2. PICK m \in T : \A y \in T : m <= y
  BY <1>1, LeastNumber
<1>3. PICK x \in s : m = n - x
  BY <1>2
<1>4. \A y \in s : y <= x
  <2>1. \A y \in s : m <= n - y
    BY <1>2
  <2>2. QED
    BY <1>3, <2>1
<1>5. QED
  BY <1>3, <1>4 DEF Max

\* The recursion that a fold over a sequence of n elements is defined by.
FoldSolution(f, n, V, base, step) ==
    /\ f \in [SUBSET (1 .. n) -> V]
    /\ \A s \in SUBSET (1 .. n) :
          f[s] = IF s = {} THEN base ELSE step[<<f[s \ {Max(s)}], Max(s)>>]

\* The same of a function that may have other values too.
FoldSolves(f, n, V, base, step) ==
    /\ f[{}] = base
    /\ \A s \in SUBSET (1 .. n) : s # {} /\ f[s \ {Max(s)}] \in V
          => f[s] = step[<<f[s \ {Max(s)}], Max(s)>>]

\* What the fold has made of the first elements: v[i] of i of them.
FoldPasses(v, n, V, base, step, result) ==
    /\ v \in [0 .. n -> V] /\ v[0] = base /\ v[n] = result
    /\ \A i \in 1 .. n : v[i] = step[<<v[i - 1], i>>]

\* It has a solution.
LEMMA FoldExists ==
    ASSUME NEW n \in Nat, NEW V, NEW base \in V,
           NEW step, \A v \in V : \A i \in 1 .. n : step[<<v, i>>] \in V
    PROVE  \E f : FoldSolution(f, n, V, base, step)
<1> DEFINE pick == [s \in SUBSET (1 .. n) |-> Max(s)]
<1>1. \A s \in SUBSET (1 .. n) : s # {} => pick[s] \in s
  BY MaxOfSome
<1>2. IsFiniteSet(1 .. n)
  BY FS_Interval
<1> HIDE DEF pick
<1>3. PICK f \in [SUBSET (1 .. n) -> V] : \A s \in SUBSET (1 .. n) :
         f[s] = IF s = {} THEN base ELSE step[<<f[s \ {pick[s]}], pick[s]>>]
  <2> DEFINE S == 1 .. n
  <2>1. IsFiniteSet(S) /\ \A s \in SUBSET S : s # {} => pick[s] \in s
    BY <1>1, <1>2
  <2>2. \A v \in V : \A x \in S : step[<<v, x>>] \in V
    OBVIOUS
  <2> HIDE DEF S
  <2>3. \E f : SetRecursive(f, S, V, base, pick, step)
    BY <2>1, <2>2, SetRecursion
  <2>4. QED
    BY <2>3 DEF S, SetRecursive
<1>4. QED
  BY <1>3 DEF pick, FoldSolution

\* Any solution takes the elements one after another.
LEMMA FoldRuns ==
    ASSUME NEW n \in Nat, NEW V, NEW base \in V,
           NEW step, \A v \in V : \A i \in 1 .. n : step[<<v, i>>] \in V,
           NEW f, FoldSolves(f, n, V, base, step)
    PROVE  \E v : FoldPasses(v, n, V, base, step, f[1 .. n])
<1> DEFINE v == [i \in 0 .. n |-> f[1 .. i]]
           D == {i \in 0 .. n : v[i] \in V}
<1>1. ASSUME NEW i \in 1 .. n
      PROVE  /\ 1 .. i \in SUBSET (1 .. n) /\ 1 .. i # {}
             /\ Max(1 .. i) = i /\ (1 .. i) \ {i} = 1 .. i - 1
  <2>1. 1 .. i \in SUBSET (1 .. n) /\ i \in 1 .. i
    OBVIOUS
  <2>2. Max(1 .. i) \in 1 .. i /\ i <= Max(1 .. i)
    BY <2>1, MaxOfSome
  <2>3. QED
    BY <2>1, <2>2
<1>2. ASSUME NEW i \in 1 .. n, v[i - 1] \in V PROVE v[i] = step[<<v[i - 1], i>>]
  <2>1. f[(1 .. i) \ {Max(1 .. i)}] = v[i - 1]
    <3>1. (1 .. i) \ {Max(1 .. i)} = 1 .. i - 1 /\ i - 1 \in 0 .. n
      BY <1>1
    <3>2. v[i - 1] = f[1 .. i - 1]
      BY <3>1
    <3>3. QED
      BY <3>1, <3>2
  <2>2. f[1 .. i] = step[<<v[i - 1], i>>]
    BY <1>1, <1>2, <2>1 DEF FoldSolves
  <2>3. QED
    BY <2>2
<1>3. v[0] = base
  <2>1. 1 .. 0 = {}
    OBVIOUS
  <2>2. QED
    BY <2>1 DEF FoldSolves
<1>4. 0 .. n \subseteq D
  <2>1. 0 \in D
    BY <1>3
  <2>2. ASSUME NEW i \in 1 .. n, i - 1 \in D PROVE i \in D
    <3>1. v[i - 1] \in V /\ i \in 0 .. n
      BY <2>2
    <3>2. v[i] = step[<<v[i - 1], i>>]
      BY <1>2, <3>1
    <3> HIDE DEF v
    <3>3. QED
      BY <3>1, <3>2
  <2> HIDE DEF D
  <2>3. QED
    BY <2>1, <2>2, Upwards
<1>5. v \in [0 .. n -> V]
  BY <1>4
<1>6. \A i \in 1 .. n : v[i] = step[<<v[i - 1], i>>]
  <2>1. \A i \in 1 .. n : v[i - 1] \in V
    BY <1>5
  <2> HIDE DEF v
  <2>2. QED
    BY <1>2, <2>1
<1>7. f[1 .. n] = v[n]
  OBVIOUS
<1> HIDE DEF v
<1>8. QED
  BY <1>3, <1>5, <1>6, <1>7 DEF FoldPasses

\* The sum of a function's values.
SumOver(f, S) == MapThenSumSet(LAMBDA x : f[x], S)

\* The sums over all parts of S.
Sums(g, f, S) ==
    /\ g \in [SUBSET S -> Int] /\ g[{}] = 0
    /\ \A T \in SUBSET S : g[T] = SumOver(f, T)
    /\ \A T \in SUBSET S : \A x \in S \ T : g[T \cup {x}] = g[T] + f[x]

\* Sums over finite sets grow by the value of the element that is added.
LEMMA SumsExist ==
    ASSUME NEW S, IsFiniteSet(S), NEW f, \A x \in S : f[x] \in Int
    PROVE  \E g : Sums(g, f, S)
<1> DEFINE n == Cardinality(S)
           pick == [s \in SUBSET S |-> CHOOSE x \in s : TRUE]
           step == [p \in Int \X S |-> f[p[2]] + p[1]]
<1>1. \A s \in SUBSET S : s # {} => pick[s] \in s /\ pick[s] = CHOOSE x \in s : TRUE
  OBVIOUS
<1>2. \A v \in Int : \A x \in S : step[<<v, x>>] = f[x] + v /\ step[<<v, x>>] \in Int
  OBVIOUS
<1>3. /\ n \in Nat
      /\ \A s \in SUBSET S : IsFiniteSet(s) /\ Cardinality(s) \in 0 .. n
      /\ \A s \in SUBSET S : Cardinality(s) = 0 <=> s = {}
      /\ \A s \in SUBSET S : \A x \in s : Cardinality(s \ {x}) = Cardinality(s) - 1
  <2>1. n \in Nat /\ \A s \in SUBSET S : IsFiniteSet(s) /\ Cardinality(s) \in Nat /\ Cardinality(s) <= n
    BY FS_CardinalityType, FS_Subset
  <2>2. \A s \in SUBSET S : Cardinality(s) = 0 <=> s = {}
    BY <2>1, FS_EmptySet
  <2>3. \A s \in SUBSET S : \A x \in s : Cardinality(s \ {x}) = Cardinality(s) - 1
    BY <2>1, FS_RemoveElement
  <2>4. QED
    BY <2>1, <2>2, <2>3
<1> HIDE DEF n, pick, step
<1>4. PICK g : SetRecursive(g, S, Int, 0, pick, step)
  <2>1. \A s \in SUBSET S : s # {} => pick[s] \in s
    BY <1>1
  <2>2. \A v \in Int : \A x \in S : step[<<v, x>>] \in Int
    BY <1>2
  <2>3. 0 \in Int
    OBVIOUS
  <2>4. QED
    BY <2>1, <2>2, <2>3, SetRecursion
<1>5. /\ g \in [SUBSET S -> Int] /\ g[{}] = 0
      /\ \A s \in SUBSET S : s # {} => g[s] = f[pick[s]] + g[s \ {pick[s]}]
  <2>1. g \in [SUBSET S -> Int] /\ g[{}] = 0
    BY <1>4 DEF SetRecursive
  <2>2. ASSUME NEW s \in SUBSET S, s # {} PROVE g[s] = f[pick[s]] + g[s \ {pick[s]}]
    <3>1. g[s] = step[<<g[s \ {pick[s]}], pick[s]>>]
      BY <1>4, <2>2 DEF SetRecursive
    <3>2. g[s \ {pick[s]}] \in Int /\ pick[s] \in S
      BY <1>1, <2>1, <2>2
    <3>3. QED
      BY <1>2, <3>1, <3>2
  <2>3. QED
    BY <2>1, <2>2
\* The element picked makes no difference.
<1>6. \A T \in SUBSET S : \A x \in T : g[T] = f[x] + g[T \ {x}]
  <2> DEFINE Each(T) == \A x \in T : g[T] = f[x] + g[T \ {x}]
             K == {k \in 0 .. n : \A T \in SUBSET S : Cardinality(T) <= k => Each(T)}
  <2>1. 0 \in K
    <3>1. \A T \in SUBSET S : Cardinality(T) <= 0 => T = {}
      BY <1>3
    <3>2. QED
      BY <1>3, <3>1
  <2>2. ASSUME NEW k \in 1 .. n, k - 1 \in K PROVE k \in K
    <3> SUFFICES ASSUME NEW T \in SUBSET S, Cardinality(T) <= k, NEW x \in T
                 PROVE  g[T] = f[x] + g[T \ {x}]
      BY <1>3
    <3> DEFINE p == pick[T]
    <3>1. p \in T /\ g[T] = f[p] + g[T \ {p}]
      BY <1>1, <1>5
    <3>2. CASE p = x
      BY <3>1, <3>2
    <3>3. CASE p # x
      <4> DEFINE U == T \ {p}
                 W == T \ {x}
      <4>1. U \in SUBSET S /\ W \in SUBSET S /\ x \in U /\ p \in W /\ U \ {x} = W \ {p}
        BY <3>1, <3>3
      <4>2. Cardinality(U) <= k - 1 /\ Cardinality(W) <= k - 1
        BY <1>3, <3>1
      <4>3. Each(U) /\ Each(W)
        BY <2>2, <4>1, <4>2
      <4>4. g[U] = f[x] + g[U \ {x}] /\ g[W] = f[p] + g[W \ {p}]
        BY <4>1, <4>3
      <4>5. g[U \ {x}] \in Int /\ f[x] \in Int /\ f[p] \in Int
        BY <1>5, <4>1
      <4> HIDE DEF U, W, p
      <4>6. g[T] = f[p] + g[U]
        BY <3>1 DEF U
      <4> DEFINE z == g[U \ {x}]
      <4>9. g[U] = f[x] + z /\ g[W] = f[p] + z
        BY <4>1, <4>4
      <4>10. z \in Int
        BY <4>5
      <4> HIDE DEF z
      <4>7. g[T] = f[x] + g[W]
        BY <4>5, <4>6, <4>9, <4>10
      <4>8. QED
        BY <4>7 DEF W
    <3>4. QED
      BY <3>2, <3>3
  <2> HIDE DEF K
  <2>3. n \in K
    BY <1>3, <2>1, <2>2, Upwards
  <2>4. \A T \in SUBSET S : Cardinality(T) <= n => Each(T)
    BY <2>3 DEF K
  <2>5. \A T \in SUBSET S : Cardinality(T) <= n
    BY <1>3
  <2>6. QED
    BY <2>4, <2>5
\* The fold is that function.
<1>7. ASSUME NEW T \in SUBSET S PROVE SumOver(f, T) = g[T]
  <2> DEFINE Solves(h) == h = [s \in SUBSET T |-> IF s = {} THEN 0
                                 ELSE f[CHOOSE x \in s : TRUE] + h[s \ {CHOOSE x \in s : TRUE}]]
             r == [s \in SUBSET T |-> g[s]]
             h0 == CHOOSE h : Solves(h)
  <2>1. Solves(r)
    <3>1. ASSUME NEW s \in SUBSET T, s # {}
          PROVE  r[s] = f[CHOOSE x \in s : TRUE] + r[s \ {CHOOSE x \in s : TRUE}]
      <4> DEFINE p == CHOOSE x \in s : TRUE
      <4>1. s \in SUBSET S /\ p = pick[s] /\ p \in s
        BY <1>1, <3>1
      <4> HIDE DEF p
      <4>2. g[s] = f[p] + g[s \ {p}]
        BY <1>5, <3>1, <4>1
      <4>3. s \ {p} \in SUBSET T
        OBVIOUS
      <4>4. r[s] = f[p] + r[s \ {p}]
        BY <4>2, <4>3
      <4>5. QED
        BY <4>4 DEF p
    <3>2. r[{}] = 0
      BY <1>5
    <3>3. QED
      BY <3>1, <3>2
  <2>2. Solves(h0)
    BY <2>1
  <2>3. SumOver(f, T) = h0[T]
    BY DEF SumOver, MapThenSumSet, MapThenFoldSet
  <2> HIDE DEF h0
  <2>4. \A s \in SUBSET T : h0[s] = IF s = {} THEN 0 ELSE f[pick[s]] + h0[s \ {pick[s]}]
    <3> SUFFICES ASSUME NEW s \in SUBSET T
                 PROVE  h0[s] = IF s = {} THEN 0 ELSE f[pick[s]] + h0[s \ {pick[s]}]
      OBVIOUS
    <3>1. CASE s = {}
      BY <2>2, <3>1
    <3>2. CASE s # {}
      <4> DEFINE p == CHOOSE x \in s : TRUE
      <4>1. p = pick[s]
        BY <1>1, <3>2
      <4>2. h0[s] = f[p] + h0[s \ {p}]
        BY <2>2, <3>2
      <4> HIDE DEF p
      <4>3. QED
        BY <3>2, <4>1, <4>2
    <3>3. QED
      BY <3>1, <3>2
  <2> DEFINE K == {k \in 0 .. n : \A s \in SUBSET T : Cardinality(s) <= k => h0[s] = g[s]}
  <2> HIDE DEF Solves
  <2>5. 0 \in K
    <3>1. \A s \in SUBSET T : Cardinality(s) <= 0 => s = {}
      BY <1>3
    <3>2. h0[{}] = g[{}]
      BY <1>5, <2>4
    <3>3. QED
      BY <1>3, <3>1, <3>2
  <2>6. ASSUME NEW k \in 1 .. n, k - 1 \in K PROVE k \in K
    <3> SUFFICES ASSUME NEW s \in SUBSET T, Cardinality(s) <= k PROVE h0[s] = g[s]
      BY <1>3
    <3>1. CASE s = {}
      BY <1>5, <2>4, <3>1
    <3>2. CASE s # {}
      <4>1. s \in SUBSET S /\ pick[s] \in s /\ s \ {pick[s]} \in SUBSET T
        BY <1>1, <3>2
      <4>2. Cardinality(s \ {pick[s]}) <= k - 1
        BY <1>3, <4>1
      <4>3. h0[s \ {pick[s]}] = g[s \ {pick[s]}]
        BY <2>6, <4>1, <4>2
      <4>4. QED
        BY <1>5, <2>4, <3>2, <4>1, <4>3
    <3>3. QED
      BY <3>1, <3>2
  <2> HIDE DEF K
  <2>7. n \in K
    BY <1>3, <2>5, <2>6, Upwards
  <2>8. h0[T] = g[T]
    BY <1>3, <2>7 DEF K
  <2>9. QED
    BY <2>3, <2>8
<1>8. ASSUME NEW T \in SUBSET S, NEW x \in S \ T PROVE g[T \cup {x}] = g[T] + f[x]
  <2>1. T \cup {x} \in SUBSET S /\ x \in T \cup {x} /\ (T \cup {x}) \ {x} = T
    OBVIOUS
  <2>2. g[T \cup {x}] = f[x] + g[T]
    BY <1>6, <2>1
  <2>3. g[T] \in Int /\ f[x] \in Int
    BY <1>5
  <2>4. QED
    BY <2>2, <2>3
<1>9. QED
  BY <1>5, <1>7, <1>8 DEF Sums
=============================================================================
