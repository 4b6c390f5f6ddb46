------------------------ MODULE SectorCustomers_proofs ------------------------
(***************************************************************************)
(* The offer of the best sector, for any sectors and any number of         *)
(* customers and moves: the sectors are tried from the nearest on, in any  *)
(* order of those equally near, and the one offered is the nearest that    *)
(* sees the place.                                                         *)
(***************************************************************************)
EXTENDS SectorCustomers, Inductions

------------------------------------------------------------------------------
(* Types *)

Place == NetSectors \cup {Nowhere}

Feature == [drawn : BOOLEAN, saved : BOOLEAN, of : Place, prop : Place]

Features == [Customers -> Feature]

Pages == [sectors : SUBSET NetSectors, cpe : Features, link : Features,
          links : [NetSectors -> SUBSET Customers],
          previous : [cpe : Features, link : Features]]

Rows == [sectors : SUBSET NetSectors, cpe : [Customers -> Place], link : [Customers -> Place]]

Answers == {"none", "ok", "refused"}

\* What is asked for a customer, and anything that is asked.
CustomerMessages ==
    [op : {"createCpe", "createLink"}, of : Customers, to : NetSectors, reply : Answers]
    \cup [op : {"patchCpe", "patchLink"}, of : Customers, to : Place, reply : Answers]
    \cup [op : {"geocode", "deleteLink"}, of : Customers, to : {Nowhere}, reply : Answers]
    \cup [op : {"deleteCpe"}, of : Customers, to : {"managed", "popup"}, reply : Answers]

Messages ==
    CustomerMessages \cup [op : {"deleteSector"}, of : NetSectors, to : {Nowhere}, reply : Answers]

\* A page and what it has asked for, as a handler goes on.
Stages(M) == [page : Pages, asked : Seq(M)]

Kinds == {"location", "customer"}

CustomersTypeOK ==
    /\ setting \in Settings
    /\ records \in Rows
    /\ shown \in Pages
    /\ asked \in Seq(Messages)
    /\ offer # NoOffer => offer.at \in Customers /\ offer.kind \in Kinds

------------------------------------------------------------------------------
(* Sequences made of a set's elements *)

\* A sequence that goes once through the elements of a finite set.
Enumerates(q, S) ==
    /\ q \in Seq(S) /\ Len(q) = Cardinality(S)
    /\ \A x \in S : \E i \in 1 .. Len(q) : q[i] = x
    /\ \A i, j \in 1 .. Len(q) : q[i] = q[j] => i = j

\* So do the sequences of its elements that are as long and repeat none.
LEMMA OncePerElement ==
    ASSUME NEW S, IsFiniteSet(S),
           NEW q \in [1 .. Cardinality(S) -> S], IsInjective(q)
    PROVE  Enumerates(q, S)
<1> DEFINE n == Cardinality(S)
<1>1. n \in Nat /\ IsFiniteSet(1 .. n) /\ Cardinality(1 .. n) = n
  BY FS_CardinalityType, FS_Interval
<1>2. q \in Injection(1 .. n, S)
  BY DEF Injection
<1>3. q \in Surjection(1 .. n, S)
  BY <1>1, <1>2, FS_Injection
<1>4. q \in Seq(S) /\ Len(q) = n /\ DOMAIN q = 1 .. n
  BY <1>1
<1>5. \A x \in S : \E i \in 1 .. n : q[i] = x
  BY <1>3 DEF Surjection
<1>6. \A i, j \in 1 .. n : q[i] = q[j] => i = j
  BY <1>4 DEF IsInjective
<1>7. QED
  BY <1>4, <1>5, <1>6 DEF Enumerates

\* The sequence made of a finite set goes once through it.
LEMMA EnumeratedOnce ==
    ASSUME NEW S, IsFiniteSet(S)
    PROVE  Enumerates(SetToSeq(S), S)
<1> DEFINE n == Cardinality(S)
<1>1. n \in Nat /\ ExistsBijection(1 .. n, S)
  BY FS_CardinalityType
<1>2. PICK f : f \in [1 .. n -> S] /\ IsInjective(f)
  BY <1>1 DEF ExistsBijection, Bijection, Injection
<1>3. SetToSeq(S) \in [1 .. n -> S] /\ IsInjective(SetToSeq(S))
  BY <1>2 DEF SetToSeq
<1>4. QED
  BY <1>3, OncePerElement

\* So does each of the sequences that can be made of it.
LEMMA EachEnumerates ==
    ASSUME NEW S, IsFiniteSet(S), NEW q \in SetToSeqs(S)
    PROVE  Enumerates(q, S)
<1>1. q \in [1 .. Cardinality(S) -> S] /\ IsInjective(q)
  BY DEF SetToSeqs, IsInjective
<1>2. QED
  BY <1>1, OncePerElement

------------------------------------------------------------------------------
(* Every handler leaves a page, and asks only for what concerns a customer *)

\* What a page with the requests it has asked for consists of.
LEMMA StageFields ==
    ASSUME NEW M, NEW p \in Stages(M)
    PROVE  /\ p.page \in Pages /\ p.asked \in Seq(M)
           /\ p = [page |-> p.page, asked |-> p.asked]
           /\ p.page.cpe \in Features /\ p.page.link \in Features
           /\ p.page.links \in [NetSectors -> SUBSET Customers]
           /\ p.page.sectors \in SUBSET NetSectors
           /\ p.page.previous \in [cpe : Features, link : Features]
           /\ \A c \in Customers : p.page.cpe[c] \in Feature /\ p.page.link[c] \in Feature
BY DEF Stages, Pages, Features

\* A request asked for is appended, the page stays.
LEMMA SendTyped ==
    ASSUME NEW M, NEW p \in Stages(M), NEW r \in M
    PROVE  Send(p, r) \in Stages(M) /\ Send(p, r).page = p.page
                /\ Send(p, r).asked = Append(p.asked, r)
BY StageFields DEF Send, Stages

\* A customer's feature is replaced.
LEMMA WithCpe ==
    ASSUME NEW M, NEW p \in Stages(M), NEW c \in Customers, NEW f \in Feature
    PROVE  [p EXCEPT !.page.cpe[c] = f] \in Stages(M)
BY DEF Stages, Pages, Features

\* A link's feature is replaced.
LEMMA WithLink ==
    ASSUME NEW M, NEW p \in Stages(M), NEW c \in Customers, NEW f \in Feature
    PROVE  [p EXCEPT !.page.link[c] = f] \in Stages(M)
BY DEF Stages, Pages, Features

\* The sets of linked customers are replaced.
LEMMA WithLinks ==
    ASSUME NEW M, NEW p \in Stages(M), NEW ls \in [NetSectors -> SUBSET Customers]
    PROVE  [p EXCEPT !.page.links = ls] \in Stages(M)
BY DEF Stages, Pages, Features

\* The whole page is replaced.
LEMMA WithPage ==
    ASSUME NEW M, NEW p \in Stages(M), NEW q \in Pages
    PROVE  [p EXCEPT !.page = q] \in Stages(M)
BY DEF Stages

\* What the page's classes send is a request the server knows.
LEMMA MessageTypes ==
    ASSUME NEW c \in Customers
    PROVE  /\ \A s \in NetSectors : Message("createCpe", c, s) \in CustomerMessages
                                 /\ Message("createLink", c, s) \in CustomerMessages
           /\ \A s \in Place : Message("patchCpe", c, s) \in CustomerMessages
                            /\ Message("patchLink", c, s) \in CustomerMessages
           /\ Message("geocode", c, Nowhere) \in CustomerMessages
           /\ Message("deleteLink", c, Nowhere) \in CustomerMessages
           /\ \A to \in {"managed", "popup"} : Message("deleteCpe", c, to) \in CustomerMessages
BY DEF Message, CustomerMessages, Answers

\* A drag is accepted (acceptNewState).
LEMMA AcceptTyped ==
    ASSUME NEW M, NEW p \in Stages(M)
    PROVE  AcceptNewState(p) \in Stages(M)
BY StageFields DEF AcceptNewState, Stages, Pages

\* A drawn link follows its customer (updateLink).
LEMMA UpdateLinkTyped ==
    ASSUME NEW M, CustomerMessages \subseteq M, NEW p \in Stages(M), NEW c \in Customers
    PROVE  UpdateLink(p, c) \in Stages(M)
<1>1. p.page.link[c].prop \in Place
  BY StageFields DEF Feature
<1>2. Message("patchLink", c, p.page.link[c].prop) \in M
  BY <1>1, MessageTypes
<1>3. QED
  BY <1>2, SendTyped DEF UpdateLink

\* One field of one feature.
LEMMA WithField ==
    ASSUME NEW M, NEW p \in Stages(M), NEW c \in Customers, NEW s \in Place
    PROVE  /\ [p EXCEPT !.page.cpe[c].of = s] \in Stages(M)
           /\ [p EXCEPT !.page.cpe[c].prop = s] \in Stages(M)
           /\ [p EXCEPT !.page.link[c].of = s] \in Stages(M)
           /\ [p EXCEPT !.page.link[c].prop = s] \in Stages(M)
<1>1. /\ [p.page.cpe[c] EXCEPT !.of = s] \in Feature /\ [p.page.cpe[c] EXCEPT !.prop = s] \in Feature
      /\ [p.page.link[c] EXCEPT !.of = s] \in Feature /\ [p.page.link[c] EXCEPT !.prop = s] \in Feature
  BY StageFields DEF Feature
<1>2. /\ [p EXCEPT !.page.cpe[c].of = s] = [p EXCEPT !.page.cpe[c] = [p.page.cpe[c] EXCEPT !.of = s]]
      /\ [p EXCEPT !.page.cpe[c].prop = s] = [p EXCEPT !.page.cpe[c] = [p.page.cpe[c] EXCEPT !.prop = s]]
  BY StageFields DEF Stages, Pages, Features, Feature
<1>3. /\ [p EXCEPT !.page.link[c].of = s] = [p EXCEPT !.page.link[c] = [p.page.link[c] EXCEPT !.of = s]]
      /\ [p EXCEPT !.page.link[c].prop = s] = [p EXCEPT !.page.link[c] = [p.page.link[c] EXCEPT !.prop = s]]
  BY StageFields DEF Stages, Pages, Features, Feature
<1>4. QED
  BY <1>1, <1>2, <1>3, WithCpe, WithLink

\* A customer without a link gets one (linkAP).
LEMMA LinkAPTyped ==
    ASSUME NEW M, CustomerMessages \subseteq M, NEW p \in Stages(M), NEW c \in Customers,
           NEW s \in NetSectors
    PROVE  LinkAP(p, c, s) \in Stages(M)
<1> DEFINE q == [p EXCEPT !.page.cpe[c].of = s, !.page.cpe[c].prop = s,
                        !.page.link[c] = [drawn |-> TRUE, saved |-> FALSE, of |-> s, prop |-> s],
                        !.page.links[s] = @ \cup {c}]
           q1 == [p EXCEPT !.page.cpe[c].of = s]
           q2 == [q1 EXCEPT !.page.cpe[c].prop = s]
           f == [drawn |-> TRUE, saved |-> FALSE, of |-> s, prop |-> s]
           q3 == [q2 EXCEPT !.page.link[c] = f]
           ls == [p.page.links EXCEPT ![s] = @ \cup {c}]
           q4 == [q3 EXCEPT !.page.links = ls]
<1>1. s \in Place /\ f \in Feature
  BY DEF Place, Feature
<1>2. q1 \in Stages(M)
  BY <1>1, WithField
<1>3. q2 \in Stages(M)
  <2> HIDE DEF q1
  <2>1. QED
    BY <1>1, <1>2, WithField
<1>4. q3 \in Stages(M)
  <2> HIDE DEF q2
  <2>1. QED
    BY <1>1, <1>3, WithLink
<1>5. q4 \in Stages(M)
  <2>1. ls \in [NetSectors -> SUBSET Customers]
    BY StageFields
  <2> HIDE DEF q3, ls
  <2>2. QED
    BY <2>1, <1>4, WithLinks
<1>6. q = q4
  BY StageFields DEF Stages, Pages, Features, Feature
<1>7. q \in Stages(M)
  BY <1>5, <1>6
<1> HIDE DEF q
<1>8. Message("geocode", c, Nowhere) \in M /\ Message("createLink", c, s) \in M
  BY MessageTypes
<1>9. Send(q, Message("geocode", c, Nowhere)) \in Stages(M)
  BY <1>7, <1>8, SendTyped
<1>10. QED
  BY <1>8, <1>9, SendTyped DEF LinkAP, q

\* A customer's link moves to another sector (switchAP).
LEMMA SwitchAPTyped ==
    ASSUME NEW M, CustomerMessages \subseteq M, NEW p \in Stages(M), NEW c \in Customers,
           NEW s \in NetSectors
    PROVE  SwitchAP(p, c, s) \in Stages(M)
<1> DEFINE old == p.page.link[c].of
           ls == [p.page.links EXCEPT ![old] = @ \ {c}, ![s] = @ \cup {c}]
           q == [p EXCEPT !.page.links = ls,
                       !.page.cpe[c].of = s, !.page.cpe[c].prop = s,
                       !.page.link[c].of = s, !.page.link[c].prop = s]
           q0 == [p EXCEPT !.page.links = ls]
           q1 == [q0 EXCEPT !.page.cpe[c].of = s]
           q2 == [q1 EXCEPT !.page.cpe[c].prop = s]
           q3 == [q2 EXCEPT !.page.link[c].of = s]
           q4 == [q3 EXCEPT !.page.link[c].prop = s]
<1>1. s \in Place /\ ls \in [NetSectors -> SUBSET Customers]
  BY StageFields DEF Place
<1> HIDE DEF ls
<1>2. q0 \in Stages(M)
  BY <1>1, WithLinks
<1>3. q1 \in Stages(M)
  <2> HIDE DEF q0
  <2>1. QED
    BY <1>1, <1>2, WithField
<1>4. q2 \in Stages(M)
  <2> HIDE DEF q1
  <2>1. QED
    BY <1>1, <1>3, WithField
<1>5. q3 \in Stages(M)
  <2> HIDE DEF q2
  <2>1. QED
    BY <1>1, <1>4, WithField
<1>6. q4 \in Stages(M)
  <2> HIDE DEF q3
  <2>1. QED
    BY <1>1, <1>5, WithField
<1>7. q = q4
  BY StageFields DEF Stages, Pages, Features, Feature
<1>8. q \in Stages(M)
  BY <1>6, <1>7
<1> HIDE DEF q
<1>9. UpdateLink(UpdateLink(q, c), c) \in Stages(M)
  BY <1>8, UpdateLinkTyped
<1>10. QED
  BY <1>9 DEF SwitchAP, q, ls

\* What is deleted on the map is asked to be deleted.
LEMMA DrawDeleteTyped ==
    ASSUME NEW M, CustomerMessages \subseteq M, NEW p \in Stages(M), NEW c \in Customers
    PROVE  DrawDeleteLink(p, c) \in Stages(M) /\ DrawDeleteCpe(p, c) \in Stages(M)
<1>1. Message("deleteLink", c, Nowhere) \in M /\ Message("deleteCpe", c, "managed") \in M
  BY MessageTypes
<1>2. QED
  BY <1>1, SendTyped DEF DrawDeleteLink, DrawDeleteCpe

\* Nothing is done to a feature that is not drawn.
LEMMA IfDrawnTyped ==
    ASSUME NEW M, NEW p \in Stages(M), NEW feature, NEW q \in Stages(M)
    PROVE  IfDrawn(p, feature, q) \in Stages(M)
BY DEF IfDrawn

\* A feature is taken off the map.
LEMMA Undrawn ==
    ASSUME NEW M, NEW p \in Stages(M), NEW c \in Customers, NEW b \in BOOLEAN
    PROVE  [p EXCEPT !.page.cpe[c].drawn = b] \in Stages(M)
           /\ [p EXCEPT !.page.link[c].drawn = b] \in Stages(M)
<1>1. [p.page.cpe[c] EXCEPT !.drawn = b] \in Feature /\ [p.page.link[c] EXCEPT !.drawn = b] \in Feature
  BY StageFields DEF Feature
<1>2. /\ [p EXCEPT !.page.cpe[c].drawn = b] = [p EXCEPT !.page.cpe[c] = [p.page.cpe[c] EXCEPT !.drawn = b]]
      /\ [p EXCEPT !.page.link[c].drawn = b] = [p EXCEPT !.page.link[c] = [p.page.link[c] EXCEPT !.drawn = b]]
  BY StageFields DEF Stages, Pages, Features
<1>3. QED
  BY <1>1, <1>2, WithCpe, WithLink

\* A customer of a deleted sector is taken off the map.
LEMMA StrandTyped ==
    ASSUME NEW M, CustomerMessages \subseteq M, NEW p \in Stages(M), NEW c \in Customers
    PROVE  Strand(p, c) \in Stages(M)
<1> DEFINE off == [p EXCEPT !.page.cpe[c].of = Nowhere, !.page.cpe[c].drawn = FALSE,
                         !.page.link[c].drawn = FALSE]
           q1 == [p EXCEPT !.page.cpe[c].of = Nowhere]
           q2 == [q1 EXCEPT !.page.cpe[c].drawn = FALSE]
           q3 == [q2 EXCEPT !.page.link[c].drawn = FALSE]
<1>1. q1 \in Stages(M)
  BY WithField DEF Place
<1>2. q2 \in Stages(M)
  <2> HIDE DEF q1
  <2>1. QED
    BY <1>1, Undrawn
<1>3. q3 \in Stages(M)
  <2> HIDE DEF q2
  <2>1. QED
    BY <1>2, Undrawn
<1>4. off = q3
  BY StageFields DEF Stages, Pages, Features, Feature
<1>5. off \in Stages(M)
  BY <1>3, <1>4
<1> HIDE DEF off
<1>6. DrawDeleteCpe(DrawDeleteLink(off, c), c) \in Stages(M)
  BY <1>5, DrawDeleteTyped
<1>7. QED
  BY <1>5, <1>6 DEF Strand, off

\* What the status of a list is after each of its sectors.
Summing(v, order, c) ==
    /\ v \in [0 .. Len(order) -> ClearStatuses] /\ v[0] = "unserviceable"
    /\ \A i \in 1 .. Len(order) : v[i] = UpdateOverallStatus(v[i - 1], StatusOf(order[i], c))
    /\ OverallStatus(order, c) = v[Len(order)]

\* So does the fold.
LEMMA StatusPasses ==
    ASSUME NEW order \in Seq(NetSectors), NEW c \in Customers,
           \A s \in NetSectors : StatusOf(s, c) \in ClearStatuses
    PROVE  \E v : Summing(v, order, c)
<1> DEFINE n == Len(order)
           Op(o, s) == UpdateOverallStatus(o, StatusOf(s, c))
           base == "unserviceable"
           step == [p \in ClearStatuses \X (1 .. n) |-> Op(p[1], order[p[2]])]
           Solves(f) == f = [s \in SUBSET DOMAIN order |->
                               IF s = {} THEN base ELSE Op(f[s \ {Max(s)}], order[Max(s)])]
           f0 == CHOOSE f : Solves(f)
<1>1. n \in Nat /\ DOMAIN order = 1 .. n /\ base \in ClearStatuses
      /\ \A i \in 1 .. n : order[i] \in NetSectors
  BY DEF ClearStatuses
<1>2. \A o, t \in ClearStatuses : UpdateOverallStatus(o, t) \in ClearStatuses
  BY DEF ClearStatuses, UpdateOverallStatus
<1>3. \A o \in ClearStatuses, i \in 1 .. n : Op(o, order[i]) \in ClearStatuses
  BY <1>1, <1>2
<1>4. \A o \in ClearStatuses, i \in 1 .. n : step[<<o, i>>] = Op(o, order[i])
  OBVIOUS
<1> HIDE DEF Op, base, step, n
<1>5. \A o \in ClearStatuses : \A i \in 1 .. n : step[<<o, i>>] \in ClearStatuses
  BY <1>3, <1>4
<1>6. PICK f : FoldSolution(f, n, ClearStatuses, base, step)
  BY <1>1, <1>5, FoldExists
<1>7. \A s \in SUBSET (1 .. n) : s # {} => Max(s) \in 1 .. n /\ s \ {Max(s)} \in SUBSET (1 .. n)
  BY <1>1, MaxOfSome
<1>8. Solves(f)
  BY <1>1, <1>4, <1>6, <1>7 DEF FoldSolution
<1>9. Solves(f0)
  BY <1>8
<1>10. OverallStatus(order, c) = f0[1 .. n]
  BY <1>1 DEF OverallStatus, FoldLeft, MapThenFoldSet, Op, base
<1> HIDE DEF f0
<1>11. f0[{}] = base
  BY <1>1, <1>9
<1>12. FoldSolves(f0, n, ClearStatuses, base, step)
  <2>1. \A s \in SUBSET (1 .. n) : s # {} /\ f0[s \ {Max(s)}] \in ClearStatuses
              => f0[s] = step[<<f0[s \ {Max(s)}], Max(s)>>]
    BY <1>1, <1>4, <1>7, <1>9
  <2>2. QED
    BY <1>11, <2>1 DEF FoldSolves
<1> HIDE DEF Solves
<1>13. PICK v : FoldPasses(v, n, ClearStatuses, base, step, f0[1 .. n])
  BY <1>1, <1>5, <1>12, FoldRuns
<1>14. v \in [0 .. n -> ClearStatuses] /\ v[0] = base /\ OverallStatus(order, c) = v[n]
  BY <1>10, <1>13 DEF FoldPasses
<1>15. \A i \in 1 .. n : v[i] = Op(v[i - 1], order[i])
  <2>1. \A i \in 1 .. n : v[i - 1] \in ClearStatuses
    BY <1>1, <1>14
  <2>2. QED
    BY <1>4, <1>13, <2>1 DEF FoldPasses
<1>16. QED
  BY <1>14, <1>15 DEF n, Op, base, Summing

\* The pages as the customers of a list are taken off one after another.
Stranding(v, p, order, M) ==
    /\ v \in [0 .. Len(order) -> Stages(M)] /\ v[0] = p
    /\ \A i \in 1 .. Len(order) : v[i] = Strand(v[i - 1], order[i])
    /\ FoldLeft(Strand, p, order) = v[Len(order)]

\* So does the fold.
LEMMA StrandsAll ==
    ASSUME NEW M, CustomerMessages \subseteq M, NEW p \in Stages(M),
           NEW S, S \subseteq Customers, IsFiniteSet(S)
    PROVE  \E v : Stranding(v, p, SetToSeq(S), M)
<1> DEFINE order == SetToSeq(S)
           n == Len(order)
           V == Stages(M)
           step == [q \in V \X (1 .. n) |-> Strand(q[1], order[q[2]])]
           Solves(f) == f = [s \in SUBSET DOMAIN order |->
                               IF s = {} THEN p ELSE Strand(f[s \ {Max(s)}], order[Max(s)])]
           f0 == CHOOSE f : Solves(f)
<1>1. n \in Nat /\ DOMAIN order = 1 .. n /\ \A i \in 1 .. n : order[i] \in Customers
  <2>1. order \in Seq(S)
    BY EnumeratedOnce DEF Enumerates
  <2>2. QED
    BY <2>1
<1>2. \A q \in V, i \in 1 .. n : Strand(q, order[i]) \in V
  BY <1>1, StrandTyped
<1>3. \A q \in V, i \in 1 .. n : step[<<q, i>>] = Strand(q, order[i])
  OBVIOUS
<1> HIDE DEF step, n, order, V
<1>4. \A q \in V : \A i \in 1 .. n : step[<<q, i>>] \in V
  BY <1>2, <1>3
<1>5. p \in V
  BY DEF V
<1>6. PICK f : FoldSolution(f, n, V, p, step)
  BY <1>1, <1>4, <1>5, FoldExists
<1>7. \A s \in SUBSET (1 .. n) : s # {} => Max(s) \in 1 .. n /\ s \ {Max(s)} \in SUBSET (1 .. n)
  BY <1>1, MaxOfSome
<1>8. Solves(f)
  BY <1>1, <1>3, <1>6, <1>7 DEF FoldSolution
<1>9. Solves(f0)
  BY <1>8
<1>10. FoldLeft(Strand, p, order) = f0[1 .. n]
  BY <1>1 DEF FoldLeft, MapThenFoldSet
<1> HIDE DEF f0
<1>11. FoldSolves(f0, n, V, p, step)
  <2>1. f0[{}] = p
    BY <1>1, <1>9
  <2>2. \A s \in SUBSET (1 .. n) : s # {} /\ f0[s \ {Max(s)}] \in V
          => f0[s] = step[<<f0[s \ {Max(s)}], Max(s)>>]
    BY <1>1, <1>3, <1>7, <1>9
  <2>3. QED
    BY <2>1, <2>2 DEF FoldSolves
<1> HIDE DEF Solves
<1>12. PICK v : FoldPasses(v, n, V, p, step, f0[1 .. n])
  BY <1>1, <1>4, <1>5, <1>11, FoldRuns
<1>13. v \in [0 .. n -> V] /\ v[0] = p /\ FoldLeft(Strand, p, order) = v[n]
  BY <1>10, <1>12 DEF FoldPasses
<1>14. \A i \in 1 .. n : v[i] = Strand(v[i - 1], order[i])
  <2>1. \A i \in 1 .. n : v[i - 1] \in V
    BY <1>1, <1>13
  <2>2. QED
    BY <1>3, <1>12, <2>1 DEF FoldPasses
<1>15. QED
  BY <1>13, <1>14 DEF n, V, order, Stranding

\* A sector is deleted, with its customers.
LEMMA DeleteWithCustomersTyped ==
    ASSUME SettingsAssumption, NEW p \in Stages(Messages), NEW s \in NetSectors
    PROVE  DeleteWithCustomers(p, s) \in Stages(Messages)
<1> DEFINE S == p.page.links[s]
           q == FoldLeft(Strand, p, SetToSeq(p.page.links[s]))
<1>1. S \subseteq Customers /\ IsFiniteSet(S)
  <2>1. S \subseteq Customers
    BY StageFields
  <2>2. QED
    BY <2>1, FS_Subset DEF SettingsAssumption
<1>2. CustomerMessages \subseteq Messages
  BY DEF Messages
<1> HIDE DEF S
<1>3. PICK v : Stranding(v, p, SetToSeq(S), Messages)
  BY <1>1, <1>2, StrandsAll
<1>4. Len(SetToSeq(S)) \in Nat
  BY <1>1, EnumeratedOnce DEF Enumerates
<1>5. q \in Stages(Messages)
  BY <1>3, <1>4 DEF S, Stranding
<1> HIDE DEF q
<1>6. [q EXCEPT !.page.links[s] = {}] \in Stages(Messages)
  <2>1. [q.page.links EXCEPT ![s] = {}] \in [NetSectors -> SUBSET Customers]
    BY <1>5, StageFields
  <2>2. [q EXCEPT !.page.links[s] = {}] = [q EXCEPT !.page.links = [q.page.links EXCEPT ![s] = {}]]
    BY <1>5, StageFields DEF Stages, Pages
  <2>3. QED
    BY <1>5, <2>1, <2>2, WithLinks
<1>7. Message("deleteSector", s, Nowhere) \in Messages
  BY DEF Message, Messages, Answers
<1>8. QED
  BY <1>6, <1>7, SendTyped DEF DeleteWithCustomers, q

\* The answer to a customer's deletion is taken in.
LEMMA DeletedCpeTyped ==
    ASSUME NEW M, CustomerMessages \subseteq M, NEW p \in Stages(M), NEW c \in Customers
    PROVE  DeletedCpe(p, c) \in Stages(M)
<1> DEFINE s == p.page.cpe[c].of
           q == [p EXCEPT !.page.cpe[c].drawn = FALSE]
           r == [q EXCEPT !.page.links[s] = @ \ {c}, !.page.cpe[c].of = Nowhere,
                                      !.page.link[c].drawn = FALSE]
           ls == [q.page.links EXCEPT ![s] = @ \ {c}]
           q1 == [q EXCEPT !.page.links = ls]
           q2 == [q1 EXCEPT !.page.cpe[c].of = Nowhere]
           q3 == [q2 EXCEPT !.page.link[c].drawn = FALSE]
<1>1. q \in Stages(M)
  BY Undrawn
<1> HIDE DEF q, s
<1>2. q1 \in Stages(M)
  <2>1. ls \in [NetSectors -> SUBSET Customers]
    BY <1>1, StageFields
  <2> HIDE DEF ls
  <2>2. QED
    BY <1>1, <2>1, WithLinks
<1>3. q2 \in Stages(M)
  <2> HIDE DEF q1
  <2>1. QED
    BY <1>2, WithField DEF Place
<1>4. q3 \in Stages(M)
  <2> HIDE DEF q2
  <2>1. QED
    BY <1>3, Undrawn
<1>5. r = q3
  BY <1>1, StageFields DEF Stages, Pages, Features, Feature
<1>6. r \in Stages(M)
  BY <1>4, <1>5
<1> HIDE DEF r
<1>7. DrawDeleteLink(r, c) \in Stages(M)
  BY <1>6, DrawDeleteTyped
<1>8. QED
  BY <1>1, <1>7 DEF DeletedCpe, q, r, s

\* The answer to a link's deletion is taken in.
LEMMA DeletedLinkTyped ==
    ASSUME NEW M, CustomerMessages \subseteq M, NEW p \in Stages(M), NEW c \in Customers
    PROVE  DeletedLink(p, c) \in Stages(M)
<1> DEFINE s == p.page.link[c].of
           q == [p EXCEPT !.page.link[c].drawn = FALSE, !.page.links[s] = @ \ {c}]
           ls == [p.page.links EXCEPT ![s] = @ \ {c}]
           q1 == [p EXCEPT !.page.link[c].drawn = FALSE]
           q2 == [q1 EXCEPT !.page.links = ls]
           r == [q EXCEPT !.page.cpe[c].drawn = FALSE]
<1>1. q1 \in Stages(M)
  BY Undrawn
<1>2. q2 \in Stages(M)
  <2>1. ls \in [NetSectors -> SUBSET Customers]
    BY StageFields
  <2> HIDE DEF ls, q1
  <2>2. QED
    BY <1>1, <2>1, WithLinks
<1>3. q = q2
  BY StageFields DEF Stages, Pages, Features, Feature
<1>4. q \in Stages(M)
  BY <1>2, <1>3
<1> HIDE DEF q
<1>5. r \in Stages(M)
  BY <1>4, Undrawn
<1> HIDE DEF r
<1>6. AcceptNewState(DrawDeleteCpe(r, c)) \in Stages(M)
  BY <1>5, DrawDeleteTyped, AcceptTyped
<1>7. QED
  BY <1>4, <1>6, IfDrawnTyped DEF DeletedLink, q, r

\* The answer that something is saved is taken in.
LEMMA SavedTyped ==
    ASSUME NEW M, NEW p \in Stages(M), NEW r, r.of \in Customers, r.to \in Place
    PROVE  Saved(p, "cpe", r) \in Stages(M) /\ Saved(p, "link", r) \in Stages(M)
<1> DEFINE f == [p.page.cpe[r.of] EXCEPT !.saved = TRUE, !.prop = r.to]
           g == [p.page.link[r.of] EXCEPT !.saved = TRUE, !.prop = r.to]
<1>1. f \in Feature /\ g \in Feature
  <2>1. p.page.cpe[r.of] \in Feature /\ p.page.link[r.of] \in Feature
    BY StageFields
  <2>2. QED
    BY <2>1 DEF Feature
<1> HIDE DEF f, g
<1>2. /\ [p EXCEPT !.page.cpe[r.of] = f] \in Stages(M)
      /\ [p EXCEPT !.page.link[r.of] = g] \in Stages(M)
  BY <1>1, WithCpe, WithLink
<1>3. /\ [p EXCEPT !.page["cpe"][r.of] = f] \in Stages(M)
      /\ [p EXCEPT !.page["link"][r.of] = g] \in Stages(M)
  BY <1>2
<1>4. QED
  BY <1>3, AcceptTyped, IfDrawnTyped DEF Saved, f, g

\* A change that failed is taken back.
LEMMA RevertTyped ==
    ASSUME NEW M, NEW p \in Stages(M), NEW c \in Customers
    PROVE  Revert(p, "cpe", c) \in Stages(M) /\ Revert(p, "link", c) \in Stages(M)
<1>1. /\ p.page.previous["cpe"][c] \in Feature /\ p.page.previous["link"][c] \in Feature
  BY StageFields DEF Features
<1> DEFINE s == p.page.previous["cpe"][c].prop
           t == p.page.previous["link"][c].prop
           q == [p EXCEPT !.page.cpe[c].drawn = TRUE]
           r == [p EXCEPT !.page.link[c].drawn = TRUE]
<1>2. s \in Place /\ t \in Place
  BY <1>1 DEF Feature
<1>3. q \in Stages(M) /\ r \in Stages(M)
  BY Undrawn
<1> HIDE DEF s, t
<1>4. [q EXCEPT !.page.cpe[c].prop = s] \in Stages(M) /\ [r EXCEPT !.page.link[c].prop = t] \in Stages(M)
  <2> HIDE DEF q, r
  <2>1. QED
    BY <1>2, <1>3, WithField
<1>5. /\ [p EXCEPT !.page["cpe"][c].drawn = TRUE, !.page["cpe"][c].prop = s] = [q EXCEPT !.page.cpe[c].prop = s]
      /\ [p EXCEPT !.page["link"][c].drawn = TRUE, !.page["link"][c].prop = t] = [r EXCEPT !.page.link[c].prop = t]
  BY StageFields DEF Stages, Pages, Features, Feature
<1>6. QED
  BY <1>4, <1>5, IfDrawnTyped DEF Revert, s, t

\* A customer that is stored is linked to its sector.
LEMMA CustomerStoredTyped ==
    ASSUME NEW M, CustomerMessages \subseteq M, NEW p \in Stages(M),
           NEW r, r.of \in Customers, r.to \in NetSectors
    PROVE  CustomerStored(p, r) \in Stages(M)
<1>1. Saved(p, "cpe", r) \in Stages(M)
  BY SavedTyped DEF Place
<1>2. LinkAP(Saved(p, "cpe", r), r.of, r.to) \in Stages(M)
  BY <1>1, LinkAPTyped
<1>3. QED
  BY <1>1, <1>2 DEF CustomerStored

\* What a message is, by what it asks.
LEMMA MessageKinds ==
    ASSUME NEW r \in Messages
    PROVE  /\ r.reply \in Answers
           /\ \/ r.op \in {"createCpe", "createLink"} /\ r.of \in Customers /\ r.to \in NetSectors
              \/ r.op \in {"patchCpe", "patchLink"} /\ r.of \in Customers /\ r.to \in Place
              \/ r.op \in {"geocode", "deleteLink"} /\ r.of \in Customers /\ r.to = Nowhere
              \/ r.op = "deleteCpe" /\ r.of \in Customers /\ r.to \in {"managed", "popup"}
              \/ r.op = "deleteSector" /\ r.of \in NetSectors /\ r.to = Nowhere
BY DEF Messages, CustomerMessages

\* A customer that was dragged has its address.
LEMMA GeocodedTyped ==
    ASSUME NEW M, CustomerMessages \subseteq M, NEW p \in Stages(M), NEW c \in Customers
    PROVE  Geocoded(p, c) \in Stages(M)
<1>1. UpdateLink(p, c) \in Stages(M)
  BY UpdateLinkTyped
<1>2. Message("patchCpe", c, p.page.cpe[c].prop) \in M
  <2>1. p.page.cpe[c].prop \in Place
    BY StageFields DEF Feature
  <2>2. QED
    BY <2>1, MessageTypes
<1>3. /\ Send(UpdateLink(p, c), Message("patchCpe", c, p.page.cpe[c].prop)) \in Stages(M)
      /\ Send(p, Message("patchCpe", c, p.page.cpe[c].prop)) \in Stages(M)
  BY <1>1, <1>2, SendTyped
<1>4. QED
  BY <1>3 DEF Geocoded, IfDrawn

\* Any reply leaves a page with requests.
LEMMA RepliedTyped ==
    ASSUME NEW M, CustomerMessages \subseteq M, NEW p \in Stages(M), NEW r \in Messages
    PROVE  Replied(p, r) \in Stages(M)
<1> DEFINE c == r.of
<1>1. CASE r.op = "geocode"
  <2>1. c \in Customers
    BY <1>1, MessageKinds
  <2>2. QED
    BY <1>1, <2>1, GeocodedTyped DEF Replied
<1>2. CASE r.op = "deleteSector"
  <2>1. [p EXCEPT !.page.sectors = @ \ {c}] \in Stages(M)
    BY StageFields DEF Stages, Pages
  <2>2. QED
    BY <1>2, <2>1, AcceptTyped DEF Replied
<1>3. CASE r.op = "createCpe"
  <2>1. c \in Customers /\ r.to \in NetSectors
    BY <1>3, MessageKinds
  <2>2. CustomerStored(p, r) \in Stages(M) /\ [p EXCEPT !.page.cpe[c].drawn = FALSE] \in Stages(M)
    BY <2>1, CustomerStoredTyped, Undrawn
  <2>3. QED
    BY <1>3, <2>2 DEF Replied
<1>4. CASE r.op = "patchCpe"
  <2>1. c \in Customers /\ r.to \in Place
    BY <1>4, MessageKinds
  <2>2. Saved(p, "cpe", r) \in Stages(M) /\ Revert(p, "cpe", c) \in Stages(M)
    BY <2>1, SavedTyped, RevertTyped
  <2>3. Replied(p, r) = IF r.reply = "ok" THEN Saved(p, "cpe", r) ELSE Revert(p, "cpe", c)
    BY <1>4 DEF Replied
  <2>4. QED
    BY <2>2, <2>3
<1>5. CASE r.op \in {"createLink", "patchLink"}
  <2>1. c \in Customers /\ r.to \in Place
    BY <1>5, MessageKinds DEF Place
  <2>2. /\ Saved(p, "link", r) \in Stages(M) /\ Revert(p, "link", c) \in Stages(M)
        /\ [p EXCEPT !.page.link[c].drawn = FALSE] \in Stages(M)
    BY <2>1, SavedTyped, RevertTyped, Undrawn
  <2>3. Replied(p, r) = IF r.reply = "ok" THEN Saved(p, "link", r)
                        ELSE IF r.op = "createLink" THEN [p EXCEPT !.page.link[c].drawn = FALSE]
                        ELSE Revert(p, "link", c)
    BY <1>5 DEF Replied
  <2>4. QED
    BY <2>2, <2>3
<1>6. CASE r.op = "deleteCpe"
  <2>1. c \in Customers
    BY <1>6, MessageKinds
  <2>2. DeletedCpe(p, c) \in Stages(M) /\ Revert(p, "cpe", c) \in Stages(M)
        /\ AcceptNewState(DeletedCpe(p, c)) \in Stages(M)
    BY <2>1, DeletedCpeTyped, RevertTyped, AcceptTyped
  <2>3. QED
    BY <1>6, <2>2 DEF Replied
<1>7. CASE r.op = "deleteLink"
  <2>1. c \in Customers
    BY <1>7, MessageKinds
  <2>2. DeletedLink(p, c) \in Stages(M) /\ Revert(p, "link", c) \in Stages(M)
    BY <2>1, DeletedLinkTyped, RevertTyped
  <2>3. QED
    BY <1>7, <2>2 DEF Replied
<1>8. QED
  BY <1>1, <1>2, <1>3, <1>4, <1>5, <1>6, <1>7, MessageKinds

------------------------------------------------------------------------------
(* The rows *)

\* Any request leaves the server's rows in order; only a sector's deletion changes the sectors.
LEMMA WrittenTyped ==
    ASSUME records \in Rows, NEW r \in Messages, r.op # "geocode"
    PROVE  /\ Written(r) \in Rows
           /\ r.op # "deleteSector" => Written(r).sectors = records.sectors
<1>1. CASE r.op \in {"createCpe", "patchCpe", "createLink", "patchLink"}
  <2>1. r.of \in Customers /\ r.to \in Place
    BY <1>1, MessageKinds DEF Place
  <2>2. QED
    BY <1>1, <2>1 DEF Written, Rows
<1>2. CASE r.op = "deleteCpe"
  BY <1>2 DEF Written, Rows, Place
<1>3. CASE r.op = "deleteLink"
  BY <1>3 DEF Written, Rows, Place
<1>4. CASE r.op = "deleteSector"
  BY <1>4 DEF Written, Rows, Place
<1>5. QED
  BY <1>1, <1>2, <1>3, <1>4, MessageKinds


------------------------------------------------------------------------------
(* What the form of a place says *)

\* Numbers around a full turn.
Turning(x, C) == x % C = IF x < 0 THEN x + C ELSE IF x < C THEN x ELSE x - C

\* The remainders of an angle out of one turn to either side.
LEMMA Turns ==
    ASSUME NEW C \in Nat \ {0}, NEW x \in -C .. 2 * C - 1
    PROVE  Turning(x, C)
<1>1. CASE x < 0
  BY <1>1 DEF Turning
<1>2. CASE 0 <= x /\ x < C
  BY <1>2 DEF Turning
<1>3. CASE x >= C
  BY <1>3 DEF Turning
<1>4. QED
  BY <1>1, <1>2, <1>3

\* The offset and the test of a sector, of numbers alone.
OffsetOf(C, h, b) ==
    LET d == (b - h) % C IN IF d <= C - d THEN d ELSE C - d

InsideOf(C, h, b, k) ==
    LET from == (h - k) % C
        to   == (h + k) % C
    IN  IF to <= from THEN ~(b >= to /\ b <= from) ELSE b >= from /\ b <= to

\* A sector of the turn holds what is nearer to its middle than half its width.
LEMMA SectorOfTheTurn ==
    ASSUME NEW C \in Nat \ {0}, NEW h \in 0 .. C - 1, NEW b \in 0 .. C - 1,
           NEW k \in 1 .. C, 2 * k <= C
    PROVE  /\ OffsetOf(C, h, b) \in Nat
           /\ OffsetOf(C, h, b) < k => InsideOf(C, h, b, k)
           /\ OffsetOf(C, h, b) > k => ~InsideOf(C, h, b, k)
<1> DEFINE d == (b - h) % C
           from == (h - k) % C
           to == (h + k) % C
<1>1. d = IF b < h THEN b - h + C ELSE b - h
  <2> DEFINE x == b - h
  <2>1. x \in -C .. 2 * C - 1 /\ x < C
    OBVIOUS
  <2> HIDE DEF x
  <2>2. Turning(x, C)
    BY <2>1, Turns
  <2>3. QED
    BY <2>1, <2>2 DEF x, Turning
<1>2. from = IF h < k THEN h - k + C ELSE h - k
  <2> DEFINE x == h - k
  <2>1. x \in -C .. 2 * C - 1 /\ x < C
    OBVIOUS
  <2> HIDE DEF x
  <2>2. Turning(x, C)
    BY <2>1, Turns
  <2>3. QED
    BY <2>1, <2>2 DEF x, Turning
<1>3. to = IF h + k < C THEN h + k ELSE h + k - C
  <2> DEFINE x == h + k
  <2>1. x \in -C .. 2 * C - 1 /\ x >= 0
    OBVIOUS
  <2> HIDE DEF x
  <2>2. Turning(x, C)
    BY <2>1, Turns
  <2>3. QED
    BY <2>1, <2>2 DEF x, Turning
<1> HIDE DEF d, from, to
<1> DEFINE off == IF d <= C - d THEN d ELSE C - d
           inside == IF to <= from THEN ~(b >= to /\ b <= from) ELSE b >= from /\ b <= to
<1>4. CASE h < k
  <2>1. off \in Nat /\ (off < k => inside) /\ (off > k => ~inside)
    BY <1>1, <1>2, <1>3, <1>4
  <2>2. QED
    BY <2>1 DEF OffsetOf, InsideOf, d, from, to
<1>5. CASE h >= k /\ h + k < C
  <2>1. off \in Nat /\ (off < k => inside) /\ (off > k => ~inside)
    BY <1>1, <1>2, <1>3, <1>5
  <2>2. QED
    BY <2>1 DEF OffsetOf, InsideOf, d, from, to
<1>6. CASE h >= k /\ h + k >= C
  <2>1. off \in Nat /\ (off < k => inside) /\ (off > k => ~inside)
    BY <1>1, <1>2, <1>3, <1>6
  <2>2. QED
    BY <2>1 DEF OffsetOf, InsideOf, d, from, to
<1>7. QED
  BY <1>4, <1>5, <1>6

\* A view's angles and distances, and the status computed of it.
LEMMA ViewTypes ==
    ASSUME SettingsAssumption, setting \in Settings, NEW s \in NetSectors, NEW c \in Customers
    PROVE  /\ setting.air[s] \in Views
           /\ setting.air[s].at[c].bearing \in 0 .. Circle - 1
           /\ Distance(s, c) \in Nat /\ StatusOf(s, c) \in ClearStatuses
           /\ \E k \in 1 .. Circle : setting.air[s].azimuth = 2 * k /\ 2 * k <= Circle
           /\ setting.air[s].radius \in Nat /\ setting.air[s].heading \in 0 .. Circle - 1
<1>1. setting.air[s] \in Views
  BY DEF SettingsAssumption
<1>2. /\ setting.air[s].at \in [Customers -> [bearing : 0 .. Circle - 1, distance : Nat, status : ClearStatuses]]
      /\ setting.air[s].radius \in Nat /\ setting.air[s].heading \in 0 .. Circle - 1
      /\ setting.air[s].azimuth \in {2 * half : half \in 1 .. Circle \div 2}
  BY <1>1 DEF Views
<1>3. setting.air[s].at[c] \in [bearing : 0 .. Circle - 1, distance : Nat, status : ClearStatuses]
  BY <1>2
<1>4. \A half \in 1 .. Circle \div 2 : half \in 1 .. Circle /\ 2 * half <= Circle
  BY DEF SettingsAssumption
<1>5. QED
  BY <1>1, <1>2, <1>3, <1>4 DEF Distance, StatusOf

Within(s, c) == Distance(s, c) <= setting.air[s].radius

\* Off its edges, the sector's polygon is told by distance and angle.
LEMMA WellInside ==
    ASSUME SettingsAssumption, setting \in Settings, NEW s \in NetSectors, NEW c \in Customers
    PROVE  /\ Within(s, c) /\ 2 * Offset(s, c) < setting.air[s].azimuth => Intersects(s, c)
           /\ ~Within(s, c) \/ 2 * Offset(s, c) > setting.air[s].azimuth => ~Intersects(s, c)
<1> DEFINE v == setting.air[s]
           h == v.heading
           b == v.at[c].bearing
<1>1. PICK k \in 1 .. Circle : v.azimuth = 2 * k /\ 2 * k <= Circle
  BY ViewTypes
<1>2. h \in 0 .. Circle - 1 /\ b \in 0 .. Circle - 1 /\ Circle \in Nat \ {0}
  BY ViewTypes DEF SettingsAssumption
<1>3. v.azimuth \div 2 = k
  BY <1>1
<1>4. Offset(s, c) = OffsetOf(Circle, h, b)
  BY DEF Offset, OffsetOf
<1>5. Intersects(s, c) <=> InsideOf(Circle, h, b, k) /\ Within(s, c)
  BY <1>3 DEF Intersects, InsideOf, Within, Distance
<1> HIDE DEF v, h, b
<1>6. /\ OffsetOf(Circle, h, b) \in Nat
      /\ OffsetOf(Circle, h, b) < k => InsideOf(Circle, h, b, k)
      /\ OffsetOf(Circle, h, b) > k => ~InsideOf(Circle, h, b, k)
  BY <1>1, <1>2, SectorOfTheTurn
<1>7. QED
  BY <1>1, <1>4, <1>5, <1>6 DEF v

\* The status of a list tells what its sectors have.
LEMMA StatusOfTheList ==
    ASSUME NEW order \in Seq(NetSectors), NEW c \in Customers,
           \A s \in NetSectors : StatusOf(s, c) \in ClearStatuses
    PROVE  /\ OverallStatus(order, c) = "serviceable" <=>
                \E s \in ToSet(order) : StatusOf(s, c) = "serviceable"
           /\ OverallStatus(order, c) = "unserviceable" =>
                \A s \in ToSet(order) : StatusOf(s, c) = "unserviceable"
<1> DEFINE n == Len(order)
<1>1. n \in Nat /\ (\A i \in 1 .. n : order[i] \in NetSectors)
      /\ ToSet(order) = {order[i] : i \in 1 .. n}
  BY DEF ToSet
<1>2. PICK v : Summing(v, order, c)
  BY StatusPasses
<1> DEFINE Has(i) == \E j \in 1 .. i : StatusOf(order[j], c) = "serviceable"
           Hasnt(i) == \A j \in 1 .. i : StatusOf(order[j], c) = "unserviceable"
           S == {i \in 0 .. n : (v[i] = "serviceable" <=> Has(i)) /\ (v[i] = "unserviceable" => Hasnt(i))}
<1>3. 0 \in S
  BY <1>1, <1>2 DEF Summing
<1>4. ASSUME NEW i \in 1 .. n, i - 1 \in S PROVE i \in S
  <2>1. v[i] = UpdateOverallStatus(v[i - 1], StatusOf(order[i], c))
    BY <1>2 DEF Summing
  <2>2. v[i - 1] \in ClearStatuses /\ StatusOf(order[i], c) \in ClearStatuses
    BY <1>1, <1>2 DEF Summing
  <2>3. Has(i) <=> Has(i - 1) \/ StatusOf(order[i], c) = "serviceable"
    <3>1. \A j \in 1 .. i : j \in 1 .. i - 1 \/ j = i
      OBVIOUS
    <3>2. (\A j \in 1 .. i - 1 : j \in 1 .. i) /\ i \in 1 .. i
      OBVIOUS
    <3>3. QED
      BY <3>1, <3>2
  <2>4. Hasnt(i) <=> Hasnt(i - 1) /\ StatusOf(order[i], c) = "unserviceable"
    <3>1. \A j \in 1 .. i : j \in 1 .. i - 1 \/ j = i
      OBVIOUS
    <3>2. (\A j \in 1 .. i - 1 : j \in 1 .. i) /\ i \in 1 .. i
      OBVIOUS
    <3>3. QED
      BY <3>1, <3>2
  <2>5. (v[i - 1] = "serviceable" <=> Has(i - 1)) /\ (v[i - 1] = "unserviceable" => Hasnt(i - 1))
    BY <1>4
  <2> HIDE DEF Has, Hasnt
  <2>6. (v[i] = "serviceable" <=> Has(i)) /\ (v[i] = "unserviceable" => Hasnt(i))
    BY <2>1, <2>2, <2>3, <2>4, <2>5 DEF UpdateOverallStatus, ClearStatuses
  <2>7. QED
    BY <2>6
<1> HIDE DEF S
<1>5. n \in S
  <2>1. 0 .. n \subseteq S
    BY <1>1, <1>3, <1>4, Upwards
  <2>2. QED
    BY <1>1, <2>1
<1>6. OverallStatus(order, c) = v[n]
  BY <1>2 DEF Summing
<1>7. QED
  BY <1>1, <1>5, <1>6 DEF S

\* What the form says of the place: the list, its status, and the sector it offers.
Rightly(sectors, status, best, c) ==
    LET clear == {s \in sectors : StatusOf(s, c) = "serviceable"}
    IN  /\ \A s \in records.sectors :
             /\ Within(s, c) /\ 2 * Offset(s, c) < setting.air[s].azimuth => s \in sectors
             /\ ~Within(s, c) \/ 2 * Offset(s, c) > setting.air[s].azimuth => s \notin sectors
        /\ status = "serviceable" <=> clear # {}
        /\ clear # {} => /\ best \in clear
                         /\ \A s \in clear : Distance(best, c) <= Distance(s, c)
        /\ status = "unserviceable" => \A s \in sectors : StatusOf(s, c) = "unserviceable"

\* The list made of the sectors in range, in whichever order, says what is right.
LEMMA ListIsRight ==
    ASSUME SettingsAssumption, setting \in Settings, records \in Rows,
           NEW c \in Customers, NEW order \in SetToSeqs(InRange(c))
    PROVE  Rightly(ToSet(order), OverallStatus(order, c), Highlighted(order, c), c)
<1>1. InRange(c) \subseteq NetSectors /\ IsFiniteSet(InRange(c))
  <2>1. InRange(c) \subseteq NetSectors
    BY DEF InRange, Rows
  <2>2. QED
    BY <2>1, FS_Subset DEF SettingsAssumption
<1>2. Enumerates(order, InRange(c))
  BY <1>1, EachEnumerates
<1>3. order \in Seq(NetSectors) /\ ToSet(order) = InRange(c)
  <2>1. order \in Seq(InRange(c)) /\ DOMAIN order = 1 .. Len(order)
    BY <1>2 DEF Enumerates
  <2>2. ToSet(order) = InRange(c)
    BY <1>2, <2>1 DEF Enumerates, ToSet
  <2>3. QED
    BY <1>1, <2>1, <2>2
<1> DEFINE sectors == ToSet(order)
           clear == {s \in sectors : StatusOf(s, c) = "serviceable"}
<1>4. \A s \in NetSectors : StatusOf(s, c) \in ClearStatuses /\ Distance(s, c) \in Nat
  BY ViewTypes
<1>5. /\ OverallStatus(order, c) = "serviceable" <=> clear # {}
      /\ OverallStatus(order, c) = "unserviceable" =>
             \A s \in sectors : StatusOf(s, c) = "unserviceable"
  BY <1>3, <1>4, StatusOfTheList
<1>6. ASSUME clear # {}
      PROVE  /\ Highlighted(order, c) \in clear
             /\ \A s \in clear : Distance(Highlighted(order, c), c) <= Distance(s, c)
  <2> DEFINE T == {Distance(s, c) : s \in clear}
  <2>1. clear \subseteq NetSectors
    BY <1>1, <1>3
  <2>2. T # {} /\ T \subseteq Nat
    BY <1>4, <1>6, <2>1
  <2>3. PICK d \in T : \A e \in T : d <= e
    BY <2>2, LeastNumber
  <2>4. PICK s \in clear : \A t \in clear : Distance(s, c) <= Distance(t, c)
    BY <2>3
  <2>5. Highlighted(order, c) = CHOOSE x \in clear : \A t \in clear : Distance(x, c) <= Distance(t, c)
    BY <1>5, <1>6 DEF Highlighted
  <2> HIDE DEF clear
  <2>6. QED
    BY <2>4, <2>5
<1>7. ASSUME NEW s \in records.sectors
      PROVE  /\ Within(s, c) /\ 2 * Offset(s, c) < setting.air[s].azimuth => s \in sectors
             /\ ~Within(s, c) \/ 2 * Offset(s, c) > setting.air[s].azimuth => s \notin sectors
  <2>1. s \in NetSectors
    BY DEF Rows
  <2>2. s \in sectors <=> Intersects(s, c)
    BY <1>3 DEF InRange
  <2>3. QED
    BY <2>1, <2>2, WellInside
<1> HIDE DEF sectors
<1>8. QED
  BY <1>5, <1>6, <1>7 DEF Rightly, sectors


------------------------------------------------------------------------------
(* The invariant *)

\* While a form is open no sector is about to go, so that what the form said stays so.
OfferStands ==
    offer # NoOffer =>
        /\ asked \in Seq(CustomerMessages)
        /\ offer.kind = "location" /\ ~offer.list =>
             Rightly(offer.sectors, offer.status, offer.best, offer.at)

CustomersInv == CustomersTypeOK /\ OfferStands

\* The page as it is loaded.
LEMMA OnPageTyped ==
    ASSUME NEW db \in Rows
    PROVE  OnPage(db) \in Pages
<1> DEFINE cpe  == [c \in Customers |-> [drawn |-> db.link[c] # Nowhere, saved |-> db.link[c] # Nowhere,
                                         of |-> db.link[c], prop |-> db.cpe[c]]]
           link == [c \in Customers |-> [drawn |-> db.link[c] # Nowhere, saved |-> db.link[c] # Nowhere,
                                         of |-> db.link[c], prop |-> db.link[c]]]
<1>1. cpe \in Features /\ link \in Features
  BY DEF Features, Feature, Rows
<1>2. OnPage(db) = [sectors |-> db.sectors, cpe |-> cpe, link |-> link,
                    links |-> [s \in NetSectors |-> {c \in Customers : db.link[c] = s}],
                    previous |-> [cpe |-> cpe, link |-> link]]
  BY DEF OnPage
<1> HIDE DEF cpe, link
<1>3. QED
  BY <1>1, <1>2 DEF Pages, Rows

\* A request that is served or answered leaves the queue, the others stay.
LEMMA RemovedTyped ==
    ASSUME NEW M, NEW q \in Seq(M), NEW i \in 1 .. Len(q)
    PROVE  /\ RemoveAt(q, i) \in Seq(M) /\ Len(RemoveAt(q, i)) = Len(q) - 1
           /\ \A j \in 1 .. Len(q) - 1 : RemoveAt(q, i)[j] = IF j < i THEN q[j] ELSE q[j + 1]
<1> DEFINE a == SubSeq(q, 1, i - 1)
           b == SubSeq(q, i + 1, Len(q))
<1>1. a \in Seq(M) /\ Len(a) = i - 1 /\ \A j \in 1 .. i - 1 : a[j] = q[j]
  OBVIOUS
<1>2. b \in Seq(M) /\ Len(b) = Len(q) - i /\ \A j \in 1 .. Len(q) - i : b[j] = q[j + i]
  <2>1. \A j \in i + 1 .. Len(q) : q[j] \in M
    OBVIOUS
  <2>2. b \in Seq(M) /\ Len(b) = Len(q) - i
    BY <2>1
  <2>3. \A j \in 1 .. Len(q) - i : b[j] = q[i + 1 + j - 1]
    OBVIOUS
  <2>4. \A j \in 1 .. Len(q) - i : i + 1 + j - 1 = j + i
    OBVIOUS
  <2>5. QED
    BY <2>2, <2>3, <2>4
<1>3. RemoveAt(q, i) = a \o b
  BY DEF RemoveAt
<1> HIDE DEF a, b
<1>0. Len(q) \in Nat /\ i \in Int
  OBVIOUS
<1>4. a \o b \in Seq(M) /\ Len(a \o b) = Len(q) - 1
  <2>1. a \o b \in Seq(M) /\ Len(a \o b) = Len(a) + Len(b)
    <3>1. a \in Seq(M) /\ b \in Seq(M)
      BY <1>1, <1>2
    <3>2. QED
      BY <3>1
  <2>2. QED
    BY <1>0, <1>1, <1>2, <2>1
<1>5. ASSUME NEW j \in 1 .. Len(q) - 1
      PROVE  (a \o b)[j] = IF j < i THEN q[j] ELSE q[j + 1]
  <2>1. (a \o b)[j] = IF j <= Len(a) THEN a[j] ELSE b[j - Len(a)]
    BY <1>1, <1>2
  <2>2. CASE j < i
    BY <1>1, <2>1, <2>2
  <2>3. CASE j >= i
    <3>1. j - (i - 1) \in 1 .. Len(q) - i /\ j - (i - 1) + i = j + 1
      BY <2>3
    <3>2. b[j - (i - 1)] = q[j + 1]
      BY <1>2, <3>1
    <3>3. Len(a) = i - 1 /\ ~(j <= i - 1)
      BY <1>1, <2>3
    <3>4. (a \o b)[j] = b[j - (i - 1)] /\ ~ (j < i)
      BY <2>1, <2>3, <3>3
    <3>5. QED
      BY <3>2, <3>4
  <2>4. j < i \/ j >= i
    BY <1>0
  <2>5. QED
    BY <2>2, <2>3, <2>4
<1>6. QED
  BY <1>3, <1>4, <1>5

\* Nothing new is asked for while the popup is open.
LEMMA CalmAsked ==
    ASSUME asked \in Seq(Messages), \A i \in 1 .. Len(asked) : asked[i].op # "deleteSector"
    PROVE  asked \in Seq(CustomerMessages)
<1>1. \A i \in 1 .. Len(asked) : asked[i] \in CustomerMessages
  BY DEF Messages
<1>2. QED
  BY <1>1

\* The page and its queue after a step, when the step makes them together.
LEMMA NowTyped ==
    ASSUME shown \in Pages, NEW M, asked \in Seq(M)
    PROVE  Now \in Stages(M)
BY DEF Now, Stages

\* The invariant holds where the page is loaded,
LEMMA CustomersInitInv == SettingsAssumption /\ CustomersInit => CustomersInv
<1> SUFFICES ASSUME SettingsAssumption, CustomersInit PROVE CustomersInv
  OBVIOUS
<1>1. records \in Rows
  BY DEF CustomersInit, Rows, NoSector, Place
<1>2. shown \in Pages
  BY <1>1, OnPageTyped DEF CustomersInit
<1>3. QED
  BY <1>1, <1>2 DEF CustomersInit, CustomersInv, CustomersTypeOK, OfferStands

\* A handler that closes the form leaves the rest typed.
LEMMA ClosingStep ==
    ASSUME CustomersInv, NEW p \in Stages(Messages), Handled(p), Leave, offer' = NoOffer
    PROVE  CustomersInv'
BY DEF CustomersInv, CustomersTypeOK, OfferStands, Handled, Leave, Stages

\* in the popup's own steps,
LEMMA FormStep ==
    ASSUME SettingsAssumption, CustomersInv, NEW kind \in Kinds, NEW c \in Customers,
           NEW list \in BOOLEAN, NEW best, Form(kind, c, list, best), Leave,
           kind = "location" /\ ~list => best = Nowhere
    PROVE  CustomersInv'
<1>1. PICK order \in SetToSeqs(InRange(c)) :
         /\ \A i \in 1 .. Len(asked) : asked[i].op # "deleteSector"
         /\ offer' = [kind |-> kind, at |-> c, list |-> list, sectors |-> ToSet(order),
                      status |-> IF best = Nowhere THEN OverallStatus(order, c) ELSE StatusOf(best, c),
                      best |-> IF best = Nowhere THEN Highlighted(order, c) ELSE best]
         /\ UNCHANGED <<shown, asked>>
  BY DEF Form
<1>2. CustomersTypeOK'
  BY <1>1 DEF CustomersInv, CustomersTypeOK, Leave
<1>3. asked' \in Seq(CustomerMessages)
  BY <1>1, CalmAsked DEF CustomersInv, CustomersTypeOK
<1>4. ASSUME kind = "location", ~list
      PROVE  Rightly(offer.sectors, offer.status, offer.best, offer.at)'
  <2>1. /\ offer'.sectors = ToSet(order) /\ offer'.status = OverallStatus(order, c)
        /\ offer'.best = Highlighted(order, c) /\ offer'.at = c
    BY <1>1, <1>4
  <2>2. Rightly(offer'.sectors, offer'.status, offer'.best, offer'.at)
    BY <2>1, ListIsRight DEF CustomersInv, CustomersTypeOK
  <2>3. setting' = setting /\ records' = records
    BY DEF Leave
  <2>4. QED
    BY <2>2, <2>3 DEF Rightly, Within, Distance, StatusOf, Offset
<1>5. offer'.kind = kind /\ offer'.list = list
  BY <1>1
<1>6. QED
  BY <1>2, <1>3, <1>4, <1>5 DEF CustomersInv, OfferStands

\* when the server answers,
LEMMA ServeStep ==
    ASSUME CustomersInv, NEW i \in 1 .. Len(asked), Serve(i)
    PROVE  CustomersInv'
<1>1. asked[i] \in Messages /\ asked \in Seq(Messages) /\ records \in Rows
  BY DEF CustomersInv, CustomersTypeOK
<1>2. records' \in Rows /\ (asked[i].op # "deleteSector" => records'.sectors = records.sectors)
  BY <1>1, WrittenTyped DEF Serve
<1>3. ASSUME NEW M \in {Messages, CustomerMessages}, asked \in Seq(M) PROVE asked' \in Seq(M)
  <2>1. asked[i] \in M
    BY <1>3
  <2>2. \A a \in Answers : [asked[i] EXCEPT !.reply = a] \in M
    BY <2>1 DEF Messages, CustomerMessages
  <2>3. PICK a \in Answers : asked' = [asked EXCEPT ![i] = [asked[i] EXCEPT !.reply = a]]
    BY DEF Serve, Answers
  <2>4. QED
    BY <1>3, <2>2, <2>3
<1>4. CustomersTypeOK'
  BY <1>1, <1>2, <1>3 DEF CustomersInv, CustomersTypeOK, Serve
<1>5. ASSUME offer' # NoOffer
      PROVE  /\ asked' \in Seq(CustomerMessages)
             /\ offer'.kind = "location" /\ ~offer'.list =>
                  Rightly(offer.sectors, offer.status, offer.best, offer.at)'
  <2>1. offer' = offer /\ setting' = setting
    BY DEF Serve
  <2>2. asked \in Seq(CustomerMessages)
    BY <1>5, <2>1 DEF CustomersInv, OfferStands
  <2>3. asked[i].op # "deleteSector"
    BY <2>2 DEF CustomerMessages
  <2>4. records'.sectors = records.sectors
    BY <1>2, <2>3
  <2>5. offer.kind = "location" /\ ~offer.list => Rightly(offer.sectors, offer.status, offer.best, offer.at)
    BY <1>5, <2>1 DEF CustomersInv, OfferStands
  <2>6. QED
    BY <1>3, <2>1, <2>2, <2>4, <2>5 DEF Rightly, Within, Distance, StatusOf, Offset
<1>6. QED
  BY <1>4, <1>5 DEF CustomersInv, OfferStands

\* when the page takes a reply,
LEMMA ReplyStep ==
    ASSUME CustomersInv, NEW i \in 1 .. Len(asked), ReplyArrives(i)
    PROVE  CustomersInv'
<1> DEFINE p == [Now EXCEPT !.asked = RemoveAt(@, i)]
<1>1. asked[i] \in Messages /\ asked \in Seq(Messages) /\ shown \in Pages
  BY DEF CustomersInv, CustomersTypeOK
<1>2. ASSUME NEW M, asked \in Seq(M) PROVE p \in Stages(M)
  BY <1>1, <1>2, RemovedTyped DEF Now, Stages
<1> HIDE DEF p
<1>3. Handled(Replied(p, asked[i])) /\ UNCHANGED <<setting, records, offer>>
  BY DEF ReplyArrives, p
<1>4. ASSUME NEW M, asked \in Seq(M), CustomerMessages \subseteq M
      PROVE  shown' \in Pages /\ asked' \in Seq(M)
  <2>1. Replied(p, asked[i]) \in Stages(M)
    BY <1>1, <1>2, <1>4, RepliedTyped
  <2>2. QED
    BY <1>3, <2>1 DEF Handled, Stages
<1>5. CustomersTypeOK'
  <2>1. CustomerMessages \subseteq Messages
    BY DEF Messages
  <2>2. shown' \in Pages /\ asked' \in Seq(Messages)
    BY <1>1, <1>4, <2>1
  <2>3. QED
    BY <1>3, <2>2 DEF CustomersInv, CustomersTypeOK
<1>6. ASSUME offer # NoOffer PROVE asked' \in Seq(CustomerMessages)
  BY <1>4, <1>6 DEF CustomersInv, OfferStands
<1>7. offer # NoOffer /\ offer.kind = "location" /\ ~offer.list =>
        Rightly(offer.sectors, offer.status, offer.best, offer.at)'
  BY <1>3 DEF CustomersInv, OfferStands, Rightly, Within, Distance, StatusOf, Offset
<1>8. QED
  BY <1>3, <1>5, <1>6, <1>7 DEF CustomersInv, OfferStands

\* and so in every step.
LEMMA CustomersStep == SettingsAssumption /\ CustomersInv /\ [CustomersNext]_customerVars => CustomersInv'
<1> SUFFICES ASSUME SettingsAssumption, CustomersInv, [CustomersNext]_customerVars
             PROVE  CustomersInv'
  OBVIOUS
<1> USE DEF Leave
<1>1. Now \in Stages(Messages) /\ CustomerMessages \subseteq Messages
  BY NowTyped DEF CustomersInv, CustomersTypeOK, Messages
<1>2. offer # NoOffer => offer.at \in Customers /\ offer.kind \in Kinds
  BY DEF CustomersInv, CustomersTypeOK
<1>3. CASE UNCHANGED customerVars
  BY <1>3 DEF customerVars, CustomersInv, CustomersTypeOK, OfferStands, Rightly, Within, Distance,
              StatusOf, Offset
<1>4. ASSUME NEW c \in Customers, OpenLocation(c) PROVE CustomersInv'
  BY <1>4, FormStep DEF OpenLocation, Kinds
<1>5. ASSUME NEW c \in Customers, OpenCustomer(c) PROVE CustomersInv'
  BY <1>5, FormStep DEF OpenCustomer, Kinds
<1>6. ASSUME NEW c \in Customers, Drag(c) PROVE CustomersInv'
  <2>1. Message("geocode", c, Nowhere) \in Messages
    BY <1>1, MessageTypes
  <2>2. Send(Now, Message("geocode", c, Nowhere)) \in Stages(Messages)
    BY <1>1, <2>1, SendTyped
  <2>3. QED
    BY <1>6, <2>2, ClosingStep DEF Drag
<1>7. ASSUME NEW c \in Customers, TrashLink(c) PROVE CustomersInv'
  <2>1. [Now EXCEPT !.page.link[c].drawn = FALSE] \in Stages(Messages)
    BY <1>1, Undrawn
  <2>2. DrawDeleteLink([Now EXCEPT !.page.link[c].drawn = FALSE], c) \in Stages(Messages)
    BY <1>1, <2>1, DrawDeleteTyped
  <2>3. QED
    BY <1>7, <2>2, ClosingStep DEF TrashLink
<1>8. ASSUME NEW s \in NetSectors, Connect(s) PROVE CustomersInv'
  <2> DEFINE f == [drawn |-> TRUE, saved |-> FALSE, of |-> Nowhere, prop |-> s]
             q == [Now EXCEPT !.page.cpe[offer.at] = f]
  <2>1. offer.at \in Customers /\ f \in Feature
    BY <1>2, <1>8 DEF Connect, Feature, Place
  <2>2. q \in Stages(Messages)
    <3> HIDE DEF f
    <3>1. QED
      BY <1>1, <2>1, WithCpe
  <2>3. Message("createCpe", offer.at, s) \in Messages
    BY <1>1, <2>1, MessageTypes
  <2>4. Handled(Send(q, Message("createCpe", offer.at, s))) /\ Leave /\ offer' = NoOffer
    BY <1>8 DEF Connect
  <2> HIDE DEF q
  <2>5. QED
    BY <2>2, <2>3, <2>4, SendTyped, ClosingStep
<1>9. ASSUME NEW s \in NetSectors, SwitchSector(s) PROVE CustomersInv'
  <2>1. SwitchAP(Now, offer.at, s) \in Stages(Messages)
    BY <1>1, <1>2, <1>9, SwitchAPTyped DEF SwitchSector
  <2>2. PICK p \in {SwitchAP(Now, offer.at, s), Now} : Handled(p)
    BY <1>9 DEF SwitchSector
  <2>3. Leave /\ offer' = NoOffer
    BY <1>9 DEF SwitchSector
  <2>4. QED
    BY <1>1, <2>1, <2>2, <2>3, ClosingStep
<1>10. ASSUME NEW s \in NetSectors, DropSector(s) PROVE CustomersInv'
  <2>1. DeleteWithCustomers(Now, s) \in Stages(Messages)
    BY <1>1, DeleteWithCustomersTyped
  <2>2. QED
    BY <1>10, <2>1, ClosingStep DEF DropSector
<1>11. ASSUME OpenList PROVE CustomersInv'
  <2>1. /\ Form(offer.kind, offer.at, TRUE, offer.best) /\ Leave
        /\ offer.kind \in Kinds /\ offer.at \in Customers
    BY <1>2, <1>11 DEF OpenList
  <2>2. QED
    BY <2>1, FormStep
<1>12. ASSUME DeleteCustomer PROVE CustomersInv'
  <2>1. Message("deleteCpe", offer.at, "popup") \in Messages
    BY <1>1, <1>2, <1>12, MessageTypes DEF DeleteCustomer
  <2>2. Send(Now, Message("deleteCpe", offer.at, "popup")) \in Stages(Messages)
    BY <1>1, <2>1, SendTyped
  <2>3. QED
    BY <1>12, <2>2, ClosingStep DEF DeleteCustomer
<1>13. ASSUME Reload PROVE CustomersInv'
  <2>1. OnPage(records) \in Pages
    BY OnPageTyped DEF CustomersInv, CustomersTypeOK
  <2>2. QED
    BY <1>13, <2>1 DEF Reload, CustomersInv, CustomersTypeOK, OfferStands
<1>14. ASSUME NEW i \in 1 .. Len(asked), Serve(i) \/ ReplyArrives(i) PROVE CustomersInv'
  BY <1>14, ServeStep, ReplyStep
<1>15. QED
  BY <1>3, <1>4, <1>5, <1>6, <1>7, <1>8, <1>9, <1>10, <1>11, <1>12, <1>13, <1>14 DEF CustomersNext

\* The page and what it asks for, the rows and the form always have their types.
THEOREM CustomersTypes == CustomersSpec => []CustomersTypeOK
<1>1. CustomersInit => CustomersInv
  BY CustomersInitInv, SettingsAssumption
<1>2. CustomersInv /\ [CustomersNext]_customerVars => CustomersInv'
  BY CustomersStep, SettingsAssumption
<1>3. CustomersInv => CustomersTypeOK
  BY DEF CustomersInv
<1>4. QED
  BY <1>1, <1>2, <1>3, PTL DEF CustomersSpec

\* The form of a place lists the sectors that the place lies in, and offers the nearest
\* of those that see it, as long as it is open.
THEOREM TheOfferIsTheBest == CustomersSpec => []OfferIsTheBest
<1>1. CustomersInit => CustomersInv
  BY CustomersInitInv, SettingsAssumption
<1>2. CustomersInv /\ [CustomersNext]_customerVars => CustomersInv'
  BY CustomersStep, SettingsAssumption
<1>3. CustomersInv => OfferIsTheBest
  BY DEF CustomersInv, OfferStands, OfferIsTheBest, Rightly, Within
<1>4. QED
  BY <1>1, <1>2, <1>3, PTL DEF CustomersSpec
==============================================================================
