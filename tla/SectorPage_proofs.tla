--------------------------- MODULE SectorPage_proofs --------------------------
(***************************************************************************)
(* The pages of a workspace's sectors and towers, for any features, forms  *)
(* and number of clicks.  Where the user waits for what he has begun, the  *)
(* popups show the form of their own feature and act on it; the coverage   *)
(* over the map is the selected sector's own once everything has settled,  *)
(* whatever the versions, messages and replies before.                     *)
(***************************************************************************)
EXTENDS CoverageDisplay, FormPopup, SequenceTheorems, FiniteSetTheorems, TLAPS

-----------------------------------------------------------------------------
(* The popups: what waits for whom.                                        *)

Known == Existing \cup NewSectors

FormRequest == [op : {"form", "submit", "read", "place", "create", "delete"}, kind : Kinds,
            feature : Known \cup {Nobody}, form : Known \cup {Nobody}]

Popups == [drawn : SUBSET Known, of : [Kinds -> Known \cup {Nobody}],
           form : [Kinds -> Known \cup {"loading", "error"}], open : SUBSET Kinds,
           shown : Seq(Kinds), asks : Seq(FormRequest), button : Kinds,
           doomed : Known \cup {Nobody}, question : Known \cup {Nobody}]

\* A popup is set to features of its kind, and sectors on the map have a tower.
Placed(p, h) ==
    /\ \A k \in Kinds : p.of[k] # Nobody => KindOf(p.of[k]) = k
    /\ \A f \in p.drawn \cup {p.of["sector"]} : KindOf(f) = "sector" /\ f # Nobody => f \in DOMAIN h

PopupTypeOK ==
    /\ popup \in Popups
    /\ DOMAIN stored \subseteq Known
    /\ DOMAIN homes \subseteq Known /\ \A s \in DOMAIN homes : homes[s] \in APs
    /\ Placed(popup, homes)

\* What a request is for, while the user waits for its answer.
Due(p, r) ==
    CASE r.op = "form"   -> /\ r.feature = p.of[r.kind] /\ r.kind \in p.open
                            /\ p.form[r.kind] = "loading"
      [] r.op = "place"  -> r.kind = "tower" /\ r.feature = p.of["tower"] /\ r.form = r.feature
      [] r.op = "create" -> r.feature \in APs
      [] r.op = "delete" -> TRUE
      [] OTHER           -> r.feature = p.of[r.kind]

\* One request at a time, and one popup told about at a time: the one whose form is
\* asked for.
OneByOne(p) ==
    /\ p.asks = <<>> \/ \E r \in FormRequest : p.asks = <<r>> /\ Due(p, r)
                            /\ (p.shown # <<>> => r.op = "form" /\ p.shown = <<r.kind>>)
    /\ p.shown = <<>> \/ \E k \in Kinds : p.shown = <<k>>
    /\ p.question # Nobody => p.asks = <<>> /\ p.shown = <<>>

OneOpen(p) == p.shown = <<>> => \E k \in Kinds : p.open \subseteq {k}

OwnForms(p) == \A k \in p.open : p.form[k] \in {"loading", "error", p.of[k]}

WaitedFor(p) == OneByOne(p) /\ OneOpen(p) /\ OwnForms(p)

\* The dialog is about what the user was asked.
Asked(p) ==
    p.question # Nobody => p.question = IF p.button = "sector" THEN p.doomed ELSE p.of[p.button]

PopupInv ==
    "hasty" \notin temper =>
        /\ PopupTypeOK /\ WaitedFor(popup)
        /\ temper = {} => Asked(popup) /\ \A a \in acts : a[1] = a[2]

------------------------------------------------------------------------------
(* The popups' helpers *)

\* A feature is of one kind.
LEMMA FeatureKinds ==
    /\ \A f : KindOf(f) \in Kinds
    /\ \A f : KindOf(f) = "tower" <=> f \in APs
    /\ \A f \in CPEs : KindOf(f) = "cpe"
    /\ \A f \in APSectors \cup NewSectors : KindOf(f) = "sector"
    /\ \A f \in Known : f # Nobody /\ f \notin {"loading", "error"}
    /\ APs \subseteq Known
  BY UuidsAssumption DEF KindOf, Kinds, Known, Existing

\* The only request is taken out.
LEMMA LastRemoved == ASSUME NEW S, NEW r \in S PROVE RemoveAt(<<r>>, 1) = <<>>
<1> DEFINE s == <<r>>
<1>1. s \in Seq(S) /\ Len(s) = 1
  OBVIOUS
<1>2. SubSeq(s, 1, 1 - 1) = <<>> /\ SubSeq(s, 1 + 1, Len(s)) = <<>>
  BY <1>1
<1>3. <<>> \o <<>> = <<>>
  OBVIOUS
<1>4. QED
  BY <1>2, <1>3 DEF RemoveAt

\* A request of a page that waits for none.
LEMMA AjaxIsAlone ==
    ASSUME NEW p \in Popups, p.asks = <<>>, NEW op, NEW k, NEW f, NEW form,
           [op |-> op, kind |-> k, feature |-> f, form |-> form] \in FormRequest
    PROVE  /\ Ajax(p, op, k, f, form) \in Popups
           /\ Ajax(p, op, k, f, form)
                = [p EXCEPT !.asks = <<[op |-> op, kind |-> k, feature |-> f, form |-> form]>>]
<1> DEFINE r == [op |-> op, kind |-> k, feature |-> f, form |-> form]
<1>1. r \in FormRequest
  OBVIOUS
<1> HIDE DEF r
<1>2. Append(<<>>, r) = <<r>> /\ <<r>> \in Seq(FormRequest)
  BY <1>1
<1>3. Ajax(p, op, k, f, form) = [p EXCEPT !.asks = <<r>>]
  BY <1>2 DEF Ajax, r
<1>4. QED
  BY <1>2, <1>3 DEF Popups, r

\* A popup that is not open asks for its form and tells the others.
LEMMA ShowAsks ==
    ASSUME NEW p \in Popups, NEW k \in Kinds, p.asks = <<>>, p.shown = <<>>, k \notin p.open,
           p.of[k] \in Known
    PROVE  LET q == Show(p, k)
               r == [op |-> "form", kind |-> k, feature |-> p.of[k], form |-> Nobody]
           IN  /\ q \in Popups /\ r \in FormRequest
               /\ q.drawn = p.drawn /\ q.of = p.of /\ q.button = p.button
               /\ q.doomed = p.doomed /\ q.question = p.question
               /\ q.form = [p.form EXCEPT ![k] = "loading"]
               /\ q.open = p.open \cup {k} /\ q.shown = <<k>> /\ q.asks = <<r>>
<1> DEFINE r == [op |-> "form", kind |-> k, feature |-> p.of[k], form |-> Nobody]
           s == [p EXCEPT !.shown = <<k>>]
           t == [s EXCEPT !.open = @ \cup {k}, !.form[k] = "loading"]
           q == Show(p, k)
<1>1. r \in FormRequest
  BY DEF FormRequest
<1>2. Append(p.shown, k) = <<k>> /\ <<k>> \in Seq(Kinds)
  OBVIOUS
<1>3. /\ s \in Popups /\ s.asks = <<>> /\ s.open = p.open /\ s.of = p.of /\ s.shown = <<k>>
      /\ s.drawn = p.drawn /\ s.form = p.form /\ s.button = p.button /\ s.doomed = p.doomed
      /\ s.question = p.question
  BY <1>2 DEF Popups
<1>4. /\ t \in Popups /\ t.asks = <<>> /\ t.drawn = p.drawn /\ t.of = p.of /\ t.button = p.button
      /\ t.doomed = p.doomed /\ t.question = p.question
      /\ t.form = [p.form EXCEPT ![k] = "loading"]
      /\ t.open = p.open \cup {k} /\ t.shown = <<k>>
  <2>1. [p.form EXCEPT ![k] = "loading"] \in [Kinds -> Known \cup {"loading", "error"}]
    BY DEF Popups
  <2>2. t = [s EXCEPT !.open = s.open \cup {k}, !.form = [s.form EXCEPT ![k] = "loading"]]
    OBVIOUS
  <2> HIDE DEF s, t
  <2>3. QED
    BY <1>2, <1>3, <2>1, <2>2 DEF Popups
<1>5. q = Ajax(t, "form", k, p.of[k], Nobody)
  BY <1>2, <1>3 DEF Show
<1> HIDE DEF q, t, s
<1>6. q = [t EXCEPT !.asks = <<r>>] /\ q \in Popups
  BY <1>1, <1>4, <1>5, AjaxIsAlone
<1>7. /\ q.drawn = t.drawn /\ q.of = t.of /\ q.button = t.button
      /\ q.doomed = t.doomed /\ q.question = t.question
      /\ q.form = t.form /\ q.open = t.open /\ q.shown = t.shown /\ q.asks = <<r>>
  BY <1>4, <1>6 DEF Popups
<1>8. QED
  BY <1>1, <1>4, <1>6, <1>7 DEF q

\* What a user who waits finds when a popup was shown that had been closed.
LEMMA ShownIsWaitedFor ==
    ASSUME NEW p \in Popups, NEW h, NEW k \in Kinds, Placed(p, h), OwnForms(p),
           p.asks = <<>>, p.shown = <<>>, p.question = Nobody, k \notin p.open, p.of[k] \in Known
    PROVE  /\ Show(p, k) \in Popups /\ Placed(Show(p, k), h) /\ WaitedFor(Show(p, k))
           /\ Show(p, k).question = Nobody
<1> DEFINE r == [op |-> "form", kind |-> k, feature |-> p.of[k], form |-> Nobody]
           q == Show(p, k)
<1>1. /\ q \in Popups /\ r \in FormRequest
      /\ q.drawn = p.drawn /\ q.of = p.of /\ q.question = Nobody
      /\ q.form = [p.form EXCEPT ![k] = "loading"]
      /\ q.open = p.open \cup {k} /\ q.shown = <<k>> /\ q.asks = <<r>>
  BY ShowAsks
<1> HIDE DEF q
<1>2. q.form[k] = "loading" /\ \A j \in Kinds \ {k} : q.form[j] = p.form[j]
  BY <1>1 DEF Popups
<1>3. Due(q, r)
  BY <1>1, <1>2 DEF Due
<1>4. r.op = "form" /\ r.kind = k /\ <<k>> # <<>>
  OBVIOUS
<1> HIDE DEF r
<1>5. OneByOne(q)
  BY <1>1, <1>3, <1>4 DEF OneByOne
<1>6. OwnForms(q) /\ OneOpen(q)
  BY <1>1, <1>2, <1>4 DEF OwnForms, OneOpen, Popups
<1>7. Placed(q, h)
  BY <1>1 DEF Placed
<1>8. QED
  BY <1>1, <1>5, <1>6, <1>7 DEF WaitedFor, q

\* A popup is set to another feature.
LEMMA SwitchIsWaitedFor ==
    ASSUME NEW p \in Popups, NEW h, NEW f \in Known, Placed(p, h), OwnForms(p),
           p.asks = <<>>, p.shown = <<>>, p.question = Nobody,
           KindOf(f) = "sector" => f \in DOMAIN h
    PROVE  /\ SwitchTo(p, f) \in Popups /\ Placed(SwitchTo(p, f), h) /\ WaitedFor(SwitchTo(p, f))
           /\ SwitchTo(p, f).question = Nobody
<1> DEFINE k == KindOf(f)
           q == [Hide(p, k) EXCEPT !.of[k] = f]
<1>1. k \in Kinds /\ f # Nobody
  BY FeatureKinds
<1>2. /\ Hide(p, k) \in Popups
      /\ Hide(p, k) = [p EXCEPT !.open = p.open \ {k}]
      /\ q = [Hide(p, k) EXCEPT !.of = [Hide(p, k).of EXCEPT ![k] = f]]
  BY DEF Popups, Hide
<1>3. SwitchTo(p, f) = Show(q, k)
  BY DEF SwitchTo
<1> HIDE DEF q
<1>4. /\ [p.of EXCEPT ![k] = f] \in [Kinds -> Known \cup {Nobody}]
      /\ [p.of EXCEPT ![k] = f][k] = f
      /\ \A j \in Kinds \ {k} : [p.of EXCEPT ![k] = f][j] = p.of[j]
  BY <1>1 DEF Popups
<1>5. /\ q \in Popups /\ q.asks = <<>> /\ q.shown = <<>> /\ q.question = Nobody /\ k \notin q.open
      /\ q.of[k] = f /\ q.drawn = p.drawn /\ q.open = p.open \ {k} /\ q.form = p.form
      /\ \A j \in Kinds \ {k} : q.of[j] = p.of[j]
  <2> DEFINE given == [p.of EXCEPT ![k] = f]
  <2>1. q = [p EXCEPT !.open = p.open \ {k}, !.of = given]
    BY <1>2
  <2>2. given \in [Kinds -> Known \cup {Nobody}]
    BY <1>4
  <2> HIDE DEF given, k
  <2>3. /\ q \in Popups /\ q.of = given /\ q.open = p.open \ {k} /\ q.form = p.form
        /\ q.asks = p.asks /\ q.shown = p.shown /\ q.question = p.question /\ q.drawn = p.drawn
    BY <2>1, <2>2 DEF Popups
  <2>4. k \notin q.open
    BY <2>3
  <2> USE DEF given
  <2>5. QED
    BY <1>4, <2>3, <2>4
<1>6. Placed(q, h)
  <2>1. \A j \in Kinds : q.of[j] # Nobody => KindOf(q.of[j]) = j
    BY <1>5 DEF Placed
  <2>2. q.of["sector"] \in {f, p.of["sector"]}
    BY <1>5 DEF Kinds
  <2>3. QED
    BY <1>5, <2>1, <2>2 DEF Placed
<1>7. OwnForms(q)
  BY <1>5 DEF OwnForms, Popups
<1> HIDE DEF k
<1>8. QED
  BY <1>1, <1>3, <1>5, <1>6, <1>7, ShownIsWaitedFor

\* A request of a user who waits.
LEMMA AskIsWaitedFor ==
    ASSUME NEW p \in Popups, NEW h, Placed(p, h), OwnForms(p), OneOpen(p),
           p.asks = <<>>, p.shown = <<>>, p.question = Nobody, NEW op, NEW k, NEW f, NEW form,
           [op |-> op, kind |-> k, feature |-> f, form |-> form] \in FormRequest,
           Due(p, [op |-> op, kind |-> k, feature |-> f, form |-> form])
    PROVE  /\ Ajax(p, op, k, f, form) \in Popups /\ Placed(Ajax(p, op, k, f, form), h)
           /\ WaitedFor(Ajax(p, op, k, f, form)) /\ Ajax(p, op, k, f, form).question = Nobody
           /\ Ajax(p, op, k, f, form).of = p.of
<1> DEFINE r == [op |-> op, kind |-> k, feature |-> f, form |-> form]
           q == Ajax(p, op, k, f, form)
<1>1. q \in Popups /\ q = [p EXCEPT !.asks = <<r>>] /\ r \in FormRequest /\ Due(p, r)
  BY AjaxIsAlone
<1> HIDE DEF q, r
<1>2. /\ q.drawn = p.drawn /\ q.of = p.of /\ q.form = p.form /\ q.open = p.open /\ q.shown = <<>>
      /\ q.question = Nobody /\ q.asks = <<r>>
  BY <1>1 DEF Popups
<1>3. Due(q, r)
  BY <1>1, <1>2 DEF Due
<1>4. OneByOne(q)
  BY <1>1, <1>2, <1>3 DEF OneByOne
<1>5. OwnForms(q) /\ OneOpen(q) /\ Placed(q, h)
  BY <1>2 DEF OwnForms, OneOpen, Placed
<1>6. QED
  BY <1>1, <1>2, <1>4, <1>5 DEF WaitedFor, q

\* No request, and nobody to be told.
LEMMA QuietIsWaitedFor ==
    ASSUME NEW p \in Popups, OwnForms(p), OneOpen(p), p.asks = <<>>, p.shown = <<>>
    PROVE  WaitedFor(p)
  BY DEF WaitedFor, OneByOne

------------------------------------------------------------------------------
(* The popups: the steps *)

\* What is to be shown of a step.
LEMMA Kept ==
    ASSUME NEW p \in Popups, NEW h, popup' = p, homes' = h, temper' = temper,
           DOMAIN stored' \subseteq Known, DOMAIN h \subseteq Known,
           \A s \in DOMAIN h : h[s] \in APs,
           Placed(p, h), WaitedFor(p),
           temper = {} => Asked(p) /\ \A a \in acts' : a[1] = a[2]
    PROVE  PopupInv'
<1>1. PopupTypeOK'
  BY DEF PopupTypeOK, Placed
<1>2. WaitedFor(popup)'
  BY DEF WaitedFor, OneByOne, OneOpen, OwnForms, Due
<1>3. temper' = {} => Asked(popup)' /\ \A a \in acts' : a[1] = a[2]
  BY DEF Asked
<1>4. QED
  BY <1>1, <1>2, <1>3 DEF PopupInv

\* A user who waits acts when nothing is on its way.
LEMMA Click ==
    ASSUME PopupInv, "hasty" \notin temper, ClickSomething
    PROVE  /\ popup \in Popups /\ Placed(popup, homes) /\ OwnForms(popup) /\ OneOpen(popup)
           /\ popup.asks = <<>> /\ popup.shown = <<>> /\ \E k \in Kinds : popup.open \subseteq {k}
           /\ DOMAIN stored \subseteq Known /\ DOMAIN homes \subseteq Known
           /\ \A s \in DOMAIN homes : homes[s] \in APs
           /\ UNCHANGED <<temper, stored, homes>>
           /\ temper = {} => Asked(popup) /\ \A a \in acts : a[1] = a[2]
  BY DEF PopupInv, PopupTypeOK, WaitedFor, OneOpen, ClickSomething

\* An open form is of the feature the popup is set to.
LEMMA FormIsOwn ==
    ASSUME NEW p \in Popups, NEW k \in Kinds, Placed(p, homes), OwnForms(p), k \in p.open,
           p.form[k] \in Known
    PROVE  p.form[k] = p.of[k] /\ p.of[k] \in Known /\ p.of[k] # Nobody /\ KindOf(p.of[k]) = k
  BY FeatureKinds DEF OwnForms, Placed, Popups

\* The popup is set to what is clicked.
LEMMA OpenPopupKeeps ==
    ASSUME PopupInv, "hasty" \notin temper, NEW f \in popup.drawn, OpenPopup(f)
    PROVE  PopupInv'
<1>1. ClickSomething /\ popup.question = Nobody /\ popup' = SwitchTo(popup, f) /\ acts' = acts
  BY DEF OpenPopup
<1>2. f \in Known /\ (KindOf(f) = "sector" => f \in DOMAIN homes)
  BY <1>1, Click, FeatureKinds DEF Placed, Popups
<1>3. /\ SwitchTo(popup, f) \in Popups /\ Placed(SwitchTo(popup, f), homes)
      /\ WaitedFor(SwitchTo(popup, f)) /\ SwitchTo(popup, f).question = Nobody
  BY <1>1, <1>2, Click, SwitchIsWaitedFor
<1>4. Asked(SwitchTo(popup, f))
  BY <1>3 DEF Asked
<1>5. QED
  BY <1>1, <1>3, <1>4, Click, Kept

\* A popup that is closed waits for nothing.
LEMMA ClosePopupKeeps ==
    ASSUME PopupInv, "hasty" \notin temper, NEW k \in Kinds, ClosePopup(k)
    PROVE  PopupInv'
<1> DEFINE p == Hide(popup, k)
<1>1. ClickSomething /\ popup.question = Nobody /\ popup' = p /\ acts' = acts
  BY DEF ClosePopup
<1>2. popup \in Popups /\ popup.asks = <<>> /\ popup.shown = <<>>
  BY <1>1, Click
<1>3. /\ p \in Popups /\ p.open \subseteq popup.open /\ p.form = popup.form /\ p.of = popup.of
      /\ p.drawn = popup.drawn /\ p.asks = <<>> /\ p.shown = <<>> /\ p.question = Nobody
  BY <1>1, <1>2 DEF Hide, Popups
<1> HIDE DEF p
<1>4. OwnForms(p) /\ OneOpen(p) /\ Placed(p, homes) /\ Asked(p)
  BY <1>1, <1>2, <1>3, Click DEF OwnForms, OneOpen, Placed, Asked
<1>5. QED
  BY <1>1, <1>3, <1>4, Click, QuietIsWaitedFor, Kept

\* The tower's popup was closed when the sector's was opened.
LEMMA BackToTowerKeeps ==
    ASSUME PopupInv, "hasty" \notin temper, BackToTower
    PROVE  PopupInv'
<1> DEFINE t == homes[popup.of["sector"]]
           p == [popup EXCEPT !.of["tower"] = t]
<1>1. /\ ClickSomething /\ popup.question = Nobody /\ popup' = Show(p, "tower") /\ acts' = acts
      /\ "sector" \in popup.open /\ popup.form["sector"] \in Known
  BY DEF BackToTower, OpenForm, Known
<1>2. /\ popup \in Popups /\ popup.asks = <<>> /\ popup.shown = <<>>
      /\ {"tower", "sector"} \subseteq Kinds
      /\ Placed(popup, homes) /\ OwnForms(popup)
  BY <1>1, Click DEF Kinds
<1>3. popup.of["sector"] # Nobody /\ KindOf(popup.of["sector"]) = "sector"
  BY <1>1, <1>2, FormIsOwn
<1>4. t \in APs
  <2>1. popup.of["sector"] \in DOMAIN homes
    BY <1>2, <1>3 DEF Placed
  <2>2. QED
    BY <1>1, <2>1, Click
<1>5. "tower" \notin popup.open
  BY <1>1, Click
<1>6. t \in Known /\ KindOf(t) = "tower"
  BY <1>4, FeatureKinds
<1>7. p = [popup EXCEPT !.of = [popup.of EXCEPT !["tower"] = t]]
  OBVIOUS
<1> HIDE DEF t
<1>8. /\ [popup.of EXCEPT !["tower"] = t] \in [Kinds -> Known \cup {Nobody}]
      /\ [popup.of EXCEPT !["tower"] = t]["tower"] = t
      /\ \A j \in Kinds \ {"tower"} : [popup.of EXCEPT !["tower"] = t][j] = popup.of[j]
  BY <1>2, <1>6 DEF Popups
<1> HIDE DEF p
<1>9. /\ p \in Popups /\ p.asks = <<>> /\ p.shown = <<>> /\ p.question = Nobody
      /\ p.of["tower"] = t /\ p.drawn = popup.drawn /\ p.open = popup.open /\ p.form = popup.form
      /\ \A j \in Kinds \ {"tower"} : p.of[j] = popup.of[j]
  BY <1>1, <1>2, <1>7, <1>8 DEF Popups
<1>10. Placed(p, homes)
  <2>1. p.of["sector"] = popup.of["sector"]
    BY <1>2, <1>9
  <2>2. QED
    BY <1>2, <1>6, <1>9, <2>1 DEF Placed
<1>11. OwnForms(p)
  BY <1>2, <1>5, <1>9 DEF OwnForms, Popups
<1>12. /\ Show(p, "tower") \in Popups /\ Placed(Show(p, "tower"), homes)
       /\ WaitedFor(Show(p, "tower")) /\ Show(p, "tower").question = Nobody
  BY <1>2, <1>5, <1>6, <1>9, <1>10, <1>11, ShownIsWaitedFor
<1>13. Asked(Show(p, "tower"))
  BY <1>12 DEF Asked
<1>14. QED
  BY <1>1, <1>12, <1>13, Click, Kept

\* A form is sent for the feature it is of.
LEMMA SubmitFormKeeps ==
    ASSUME PopupInv, "hasty" \notin temper, NEW k \in Kinds, SubmitForm(k)
    PROVE  PopupInv'
<1> DEFINE f == popup.of[k]
           p == Ajax(popup, "submit", k, f, popup.form[k])
<1>1. /\ ClickSomething /\ popup.question = Nobody /\ popup' = p
      /\ acts' = acts \cup {<<popup.form[k], f>>} /\ k \in popup.open /\ popup.form[k] \in Known
  BY DEF SubmitForm, OpenForm, Known
<1>2. /\ popup \in Popups /\ Placed(popup, homes) /\ OwnForms(popup) /\ OneOpen(popup)
      /\ popup.asks = <<>> /\ popup.shown = <<>>
  BY <1>1, Click
<1>3. popup.form[k] = f /\ f \in Known
  BY <1>1, <1>2, FormIsOwn
<1> DEFINE r == [op |-> "submit", kind |-> k, feature |-> f, form |-> popup.form[k]]
<1>4. r \in FormRequest /\ Due(popup, r)
  BY <1>3 DEF FormRequest, Due
<1>5. p \in Popups /\ Placed(p, homes) /\ WaitedFor(p) /\ p.question = Nobody
  BY <1>1, <1>2, <1>4, AskIsWaitedFor
<1> HIDE DEF p
<1>6. Asked(p)
  BY <1>5 DEF Asked
<1>7. temper = {} => \A a \in acts' : a[1] = a[2]
  BY <1>1, <1>3, Click
<1>8. QED
  BY <1>1, <1>5, <1>6, <1>7, Click, Kept

\* A sector is added to the tower the form is of, or to that of the form's sector.
LEMMA PlaceSectorKeeps ==
    ASSUME PopupInv, "hasty" \notin temper, NEW k \in Kinds, PlaceSector(k)
    PROVE  PopupInv'
<1> DEFINE f == popup.of[k]
           p == popup'
<1>1. /\ ClickSomething /\ popup.question = Nobody /\ k # "cpe"
      /\ k \in popup.open /\ popup.form[k] \in Known
      /\ k = "tower" => p = Ajax(popup, "place", k, f, popup.form[k]) /\ acts' = acts
      /\ k # "tower" => /\ p = Ajax(popup, "create", k, homes[f], popup.form[k])
                        /\ acts' = acts \cup {<<popup.form[k], f>>}
  BY DEF PlaceSector, OpenForm, Known
<1>2. /\ popup \in Popups /\ Placed(popup, homes) /\ OwnForms(popup) /\ OneOpen(popup)
      /\ popup.asks = <<>> /\ popup.shown = <<>>
  BY <1>1, Click
<1>3. popup.form[k] = f /\ f \in Known /\ f # Nobody /\ KindOf(f) = k
  BY <1>1, <1>2, FormIsOwn
<1>4. p \in Popups /\ Placed(p, homes) /\ WaitedFor(p) /\ p.question = Nobody
  <2>1. CASE k = "tower"
    <3> DEFINE r == [op |-> "place", kind |-> k, feature |-> f, form |-> popup.form[k]]
    <3>1. r \in FormRequest /\ Due(popup, r)
      BY <1>3, <2>1 DEF FormRequest, Due
    <3>2. QED
      BY <1>1, <1>2, <2>1, <3>1, AskIsWaitedFor
  <2>2. CASE k # "tower"
    <3> DEFINE r == [op |-> "create", kind |-> k, feature |-> homes[f], form |-> popup.form[k]]
    <3>1. k = "sector" /\ f \in DOMAIN homes
      BY <1>1, <1>2, <1>3, <2>2 DEF Placed, Kinds
    <3>2. homes[f] \in APs /\ homes[f] \in Known
      BY <1>1, <3>1, Click, FeatureKinds
    <3>3. r \in FormRequest /\ Due(popup, r)
      BY <1>3, <3>2 DEF FormRequest, Due
    <3>4. QED
      BY <1>1, <1>2, <2>2, <3>3, AskIsWaitedFor
  <2>3. QED
    BY <2>1, <2>2
<1>5. temper = {} => \A a \in acts' : a[1] = a[2]
  BY <1>1, <1>3, Click
<1>6. PICK q : q = popup'
  OBVIOUS
<1>7. q \in Popups /\ Placed(q, homes) /\ WaitedFor(q) /\ Asked(q)
  BY <1>4, <1>6 DEF Asked
<1>8. QED
  BY <1>1, <1>5, <1>6, <1>7, Click, Kept

\* The dialog is opened for the feature of the form.
LEMMA AskDeleteKeeps ==
    ASSUME PopupInv, "hasty" \notin temper, NEW k \in Kinds, AskDelete(k)
    PROVE  PopupInv'
<1> DEFINE f == popup.form[k]
<1>1. /\ ClickSomething /\ k \in popup.open /\ f \in Known /\ acts' = acts
      /\ k = "sector" => popup.button = "sector" \/ "mixed" \in temper
  BY DEF AskDelete, OpenForm, Known
<1>2. /\ popup \in Popups /\ Placed(popup, homes) /\ OwnForms(popup) /\ OneOpen(popup)
      /\ popup.asks = <<>> /\ popup.shown = <<>>
  BY <1>1, Click
<1>3. f = popup.of[k] /\ f # Nobody
  BY <1>1, <1>2, FormIsOwn
<1>4. PICK p : /\ p = popup'
               /\ p = IF k = "sector" THEN [popup EXCEPT !.question = f, !.doomed = popup.of[k]]
                                      ELSE [popup EXCEPT !.question = f, !.button = k]
  BY DEF AskDelete
<1> HIDE DEF f
<1>5. /\ p \in Popups /\ p.drawn = popup.drawn /\ p.of = popup.of /\ p.form = popup.form
      /\ p.open = popup.open /\ p.asks = <<>> /\ p.shown = <<>> /\ p.question = f
      /\ k = "sector" => p.doomed = f /\ p.button = popup.button
      /\ k # "sector" => p.button = k
  <2>1. CASE k = "sector"
    <3>1. p = [popup EXCEPT !.question = f, !.doomed = f]
      BY <1>3, <1>4, <2>1
    <3>2. QED
      BY <1>1, <1>2, <2>1, <3>1 DEF Popups
  <2>2. CASE k # "sector"
    <3>1. p = [popup EXCEPT !.question = f, !.button = k]
      BY <1>4, <2>2
    <3>2. QED
      BY <1>1, <1>2, <2>2, <3>1 DEF Popups
  <2>3. QED
    BY <2>1, <2>2
<1>6. OwnForms(p) /\ OneOpen(p) /\ Placed(p, homes)
  BY <1>2, <1>5 DEF OwnForms, OneOpen, Placed
<1>7. temper = {} => Asked(p)
  BY <1>1, <1>3, <1>5 DEF Asked
<1>8. WaitedFor(p)
  BY <1>5, <1>6, QuietIsWaitedFor
<1>9. QED
  BY <1>1, <1>4, <1>5, <1>6, <1>7, <1>8, Click, Kept

\* The popups, once the user has answered the dialog.
LEMMA QuestionAnswered ==
    ASSUME PopupInv, "hasty" \notin temper, ClickSomething
    PROVE  LET p == [popup EXCEPT !.question = Nobody]
           IN  /\ p \in Popups /\ p.of = popup.of /\ p.button = popup.button
               /\ p.doomed = popup.doomed /\ p.drawn = popup.drawn
               /\ p.asks = <<>> /\ p.shown = <<>> /\ p.question = Nobody
               /\ OwnForms(p) /\ OneOpen(p) /\ Placed(p, homes)
<1> DEFINE p == [popup EXCEPT !.question = Nobody]
<1>1. popup \in Popups
  BY Click
<1>2. /\ p \in Popups /\ p.of = popup.of /\ p.button = popup.button /\ p.doomed = popup.doomed
      /\ p.drawn = popup.drawn /\ p.form = popup.form /\ p.open = popup.open
      /\ p.asks = popup.asks /\ p.shown = popup.shown /\ p.question = Nobody
  BY <1>1 DEF Popups
<1> HIDE DEF p
<1>3. OwnForms(p) /\ OneOpen(p) /\ Placed(p, homes)
  BY <1>2, Click DEF OwnForms, OneOpen, Placed
<1>4. QED
  BY <1>2, <1>3, Click DEF p

\* Nothing is deleted.
LEMMA CancelKeeps ==
    ASSUME PopupInv, "hasty" \notin temper, Cancel
    PROVE  PopupInv'
<1>1. PICK p : p = [popup EXCEPT !.question = Nobody]
  OBVIOUS
<1>2. ClickSomething /\ popup' = p /\ acts' = acts
  BY <1>1 DEF Cancel
<1>3. /\ p \in Popups /\ p.asks = <<>> /\ p.shown = <<>> /\ p.question = Nobody
      /\ OwnForms(p) /\ OneOpen(p) /\ Placed(p, homes)
  BY <1>1, <1>2, QuestionAnswered
<1>4. WaitedFor(p) /\ Asked(p)
  BY <1>3, QuietIsWaitedFor DEF Asked
<1>5. QED
  BY <1>2, <1>3, <1>4, Click, Kept

\* What draw.delete leaves of the popups.
LEMMA DrawDeletedIsWaitedFor ==
    ASSUME NEW p \in Popups, NEW f \in Known, Placed(p, homes), OwnForms(p), OneOpen(p),
           p.asks = <<>>, p.shown = <<>>, p.question = Nobody
    PROVE  /\ DrawDeleted(p, f) \in Popups /\ Placed(DrawDeleted(p, f), homes)
           /\ WaitedFor(DrawDeleted(p, f)) /\ DrawDeleted(p, f).question = Nobody
           /\ DrawDeleted(p, f).shown = <<>>
           /\ DrawDeleted(p, f).asks
                = <<[op |-> "delete", kind |-> KindOf(f), feature |-> f, form |-> Nobody]>>
<1> DEFINE gone == {f} \cup {s \in DOMAIN homes : homes[s] = f}
           closed == {k \in {"tower", "sector"} : p.of[k] \in gone}
           q == [p EXCEPT !.open = @ \ closed, !.drawn = @ \ (gone \ {f})]
           r == [op |-> "delete", kind |-> KindOf(f), feature |-> f, form |-> Nobody]
           t == DrawDeleted(p, f)
<1>1. t = Ajax(q, "delete", KindOf(f), f, Nobody)
  BY DEF DrawDeleted
<1> HIDE DEF gone, closed
<1>2. /\ q \in Popups /\ q.open \subseteq p.open /\ q.drawn \subseteq p.drawn /\ q.of = p.of
      /\ q.form = p.form /\ q.asks = <<>> /\ q.shown = <<>> /\ q.question = Nobody
  BY DEF Popups
<1> HIDE DEF q, t
<1>3. Placed(q, homes) /\ OwnForms(q) /\ OneOpen(q)
  BY <1>2 DEF Placed, OwnForms, OneOpen
<1>4. r \in FormRequest /\ Due(q, r)
  BY FeatureKinds DEF FormRequest, Due
<1>5. t \in Popups /\ Placed(t, homes) /\ WaitedFor(t) /\ t.question = Nobody
  BY <1>1, <1>2, <1>3, <1>4, AskIsWaitedFor
<1>6. t = [q EXCEPT !.asks = <<r>>]
  BY <1>1, <1>2, <1>4, AjaxIsAlone
<1>7. t.shown = <<>> /\ t.asks = <<r>>
  BY <1>2, <1>6 DEF Popups
<1>8. QED
  BY <1>5, <1>7 DEF t

\* What is deleted is what the user was asked about.
LEMMA ConfirmKeeps ==
    ASSUME PopupInv, "hasty" \notin temper, Confirm
    PROVE  PopupInv'
<1> DEFINE b == popup.button
           f == IF b = "sector" THEN popup.doomed ELSE popup.of[b]
<1>1. PICK p : p = [popup EXCEPT !.question = Nobody]
  OBVIOUS
<1>2. PICK q : q = popup'
  OBVIOUS
<1>3. ClickSomething /\ popup.question # Nobody
  BY DEF Confirm
<1>4. /\ p \in Popups /\ p.of = popup.of /\ p.button = popup.button /\ p.doomed = popup.doomed
      /\ p.asks = <<>> /\ p.shown = <<>> /\ p.question = Nobody
      /\ OwnForms(p) /\ OneOpen(p) /\ Placed(p, homes)
  BY <1>1, <1>3, QuestionAnswered
<1>5. /\ acts' = acts \cup {<<popup.question, f>>}
      /\ q = IF f = Nobody THEN p
             ELSE CASE b = "sector" ->
                         Hide(DrawDeleted([p EXCEPT !.drawn = @ \ {f}, !.doomed = Nobody], f), b)
                    [] b = "tower" -> DrawDeleted(p, f)
                    [] b = "cpe"   -> Ajax(Hide(p, b), "delete", b, f, Nobody)
  <2> DEFINE e == [popup EXCEPT !.question = Nobody]
             g == IF b = "sector" THEN e.doomed ELSE e.of[b]
             Outcome(o, x) ==
               IF x = Nobody THEN o
               ELSE CASE b = "sector" ->
                           Hide(DrawDeleted([o EXCEPT !.drawn = @ \ {x}, !.doomed = Nobody], x), b)
                      [] b = "tower" -> DrawDeleted(o, x)
                      [] b = "cpe"   -> Ajax(Hide(o, b), "delete", b, x, Nobody)
  <2>1. acts' = acts \cup {<<popup.question, g>>} /\ popup' = Outcome(e, g)
    BY DEF Confirm
  <2>2. e = p /\ g = f
    BY <1>1, <1>4
  <2> HIDE DEF e, g, f, Outcome
  <2>3. acts' = acts \cup {<<popup.question, f>>} /\ q = Outcome(p, f)
    BY <1>2, <2>1, <2>2
  <2>4. QED
    BY <2>3 DEF Outcome
<1>6. b \in Kinds /\ f \in Known \cup {Nobody}
  BY <1>3, Click DEF Popups
<1>7. q \in Popups /\ Placed(q, homes) /\ WaitedFor(q) /\ q.question = Nobody
  <2>1. CASE f = Nobody
    BY <1>4, <1>5, <2>1, QuietIsWaitedFor
  <2>2. CASE f # Nobody /\ b = "sector"
    <3> DEFINE s == [p EXCEPT !.drawn = @ \ {f}, !.doomed = Nobody]
               t == DrawDeleted(s, f)
               r == [op |-> "delete", kind |-> KindOf(f), feature |-> f, form |-> Nobody]
    <3>1. f \in Known /\ q = Hide(t, b)
      BY <1>5, <1>6, <2>2
    <3>2. /\ s \in Popups /\ s.of = p.of /\ s.form = p.form /\ s.open = p.open /\ s.asks = <<>>
          /\ s.shown = <<>> /\ s.question = Nobody /\ s.drawn \subseteq p.drawn
      BY <1>4 DEF Popups
    <3> HIDE DEF s, f, b
    <3>3. OwnForms(s) /\ OneOpen(s) /\ Placed(s, homes)
      BY <1>4, <3>2 DEF OwnForms, OneOpen, Placed
    <3>4. /\ t \in Popups /\ Placed(t, homes) /\ WaitedFor(t) /\ t.question = Nobody
          /\ t.shown = <<>> /\ t.asks = <<r>>
      BY <3>1, <3>2, <3>3, DrawDeletedIsWaitedFor
    <3> HIDE DEF t
    <3>5. /\ q \in Popups /\ q.drawn = t.drawn /\ q.of = t.of /\ q.form = t.form
          /\ q.open \subseteq t.open /\ q.shown = <<>> /\ q.asks = <<r>> /\ q.question = Nobody
      BY <3>1, <3>4 DEF Hide, Popups
    <3>6. r \in FormRequest /\ Due(q, r)
      BY <3>1, FeatureKinds DEF FormRequest, Due
    <3> HIDE DEF r
    <3>7. OneByOne(q)
      BY <3>5, <3>6 DEF OneByOne
    <3>8. OwnForms(q) /\ OneOpen(q) /\ Placed(q, homes)
      BY <3>4, <3>5 DEF WaitedFor, OwnForms, OneOpen, Placed
    <3>9. QED
      BY <3>5, <3>7, <3>8 DEF WaitedFor
  <2>3. CASE f # Nobody /\ b = "tower"
    <3>1. f \in Known /\ q = DrawDeleted(p, f)
      BY <1>5, <1>6, <2>3
    <3> HIDE DEF f, b
    <3>2. QED
      BY <1>4, <3>1, DrawDeletedIsWaitedFor
  <2>4. CASE f # Nobody /\ b = "cpe"
    <3> DEFINE s == Hide(p, b)
               r == [op |-> "delete", kind |-> b, feature |-> f, form |-> Nobody]
    <3>1. f \in Known /\ q = Ajax(s, "delete", b, f, Nobody)
      BY <1>5, <1>6, <2>4
    <3> HIDE DEF f, b
    <3>2. /\ s \in Popups /\ s.of = p.of /\ s.form = p.form /\ s.open \subseteq p.open
        /\ s.asks = <<>>
          /\ s.shown = <<>> /\ s.question = Nobody /\ s.drawn = p.drawn
      BY <1>4 DEF Hide, Popups
    <3> HIDE DEF s
    <3>3. OwnForms(s) /\ OneOpen(s) /\ Placed(s, homes)
      BY <1>4, <3>2 DEF OwnForms, OneOpen, Placed
    <3>4. r \in FormRequest /\ Due(s, r)
      BY <1>6, <3>1 DEF FormRequest, Due
    <3>5. QED
      BY <3>1, <3>2, <3>3, <3>4, AskIsWaitedFor
  <2>5. QED
    BY <1>6, <2>1, <2>2, <2>3, <2>4 DEF Kinds
<1>8. Asked(q)
  BY <1>7 DEF Asked
<1>9. temper = {} => \A a \in acts' : a[1] = a[2]
  BY <1>3, <1>5, Click DEF Asked
<1> HIDE DEF f, b
<1>10. QED
  BY <1>2, <1>3, <1>7, <1>8, <1>9, Click, Kept

\* The others are hidden.
LEMMA HearShownKeeps ==
    ASSUME PopupInv, "hasty" \notin temper, HearShown
    PROVE  PopupInv'
<1>1. /\ popup \in Popups /\ PopupTypeOK /\ OneByOne(popup) /\ OwnForms(popup) /\ popup.shown # <<>>
      /\ UNCHANGED <<temper, stored, homes, acts>>
      /\ temper = {} => Asked(popup) /\ \A a \in acts : a[1] = a[2]
  BY DEF PopupInv, PopupTypeOK, WaitedFor, HearShown
<1>2. PICK k \in Kinds : popup.shown = <<k>>
  BY <1>1 DEF OneByOne
<1>3. PICK p : p = [popup EXCEPT !.shown = <<>>, !.open = @ \cap {k}]
  OBVIOUS
<1>4. popup' = p
  BY <1>2, <1>3 DEF HearShown
<1>5. /\ p \in Popups /\ p.drawn = popup.drawn /\ p.of = popup.of /\ p.form = popup.form
      /\ p.open = popup.open \cap {k} /\ p.asks = popup.asks /\ p.shown = <<>>
      /\ p.button = popup.button /\ p.doomed = popup.doomed /\ p.question = popup.question
  <2>1. <<>> \in Seq(Kinds) /\ popup.open \cap {k} \in SUBSET Kinds
    OBVIOUS
  <2>2. QED
    BY <1>1, <1>3, <2>1 DEF Popups
<1>6. OneByOne(p)
  <2>1. CASE popup.asks = <<>>
    BY <1>1, <1>5, <2>1 DEF OneByOne
  <2>2. CASE popup.asks # <<>>
    <3>1. PICK r \in FormRequest : /\ popup.asks = <<r>> /\ Due(popup, r)
                                   /\ r.op = "form" /\ popup.shown = <<r.kind>>
      BY <1>1, <2>2 DEF OneByOne
    <3>2. r.kind = k
      BY <1>2, <3>1
    <3>3. Due(p, r)
      BY <1>5, <3>1, <3>2 DEF Due
    <3>4. QED
      BY <1>1, <1>5, <3>1, <3>3 DEF OneByOne
  <2>3. QED
    BY <2>1, <2>2
<1>7. OwnForms(p) /\ OneOpen(p) /\ Placed(p, homes)
  BY <1>1, <1>5 DEF OwnForms, OneOpen, Placed, PopupTypeOK
<1>8. temper = {} => Asked(p)
  BY <1>1, <1>5 DEF Asked
<1>9. WaitedFor(p)
  BY <1>6, <1>7 DEF WaitedFor
<1>10. QED
  BY <1>1, <1>4, <1>5, <1>7, <1>8, <1>9, Kept DEF PopupTypeOK

\* The one answer that is waited for.
LEMMA AnswerStarts ==
    ASSUME PopupInv, "hasty" \notin temper, NEW i \in 1 .. Len(popup.asks)
    PROVE  \E r \in FormRequest :
             LET p == [popup EXCEPT !.asks = RemoveAt(@, i)]
             IN  /\ popup.asks = <<r>> /\ popup.asks[i] = r /\ i = 1 /\ Due(p, r)
                 /\ p \in Popups /\ p.asks = <<>> /\ p.question = Nobody
                 /\ p.shown # <<>> => r.op = "form" /\ p.shown = <<r.kind>>
                 /\ OwnForms(p) /\ OneOpen(p) /\ Placed(p, homes)
<1>1. /\ popup \in Popups /\ OneByOne(popup) /\ OwnForms(popup) /\ OneOpen(popup)
      /\ Placed(popup, homes)
  BY DEF PopupInv, PopupTypeOK, WaitedFor
<1>2. popup.asks # <<>>
  <2>1. SUFFICES ASSUME popup.asks = <<>> PROVE FALSE
    OBVIOUS
  <2>2. Len(popup.asks) = 0
    BY <2>1
  <2>3. QED
    BY <2>2
<1>3. PICK r \in FormRequest : /\ popup.asks = <<r>> /\ Due(popup, r)
                               /\ (popup.shown # <<>> => r.op = "form" /\ popup.shown = <<r.kind>>)
  BY <1>1, <1>2 DEF OneByOne
<1>4. i = 1 /\ popup.asks[i] = r
  <2>1. Len(<<r>>) = 1 /\ <<r>>[1] = r
    OBVIOUS
  <2>2. QED
    BY <1>3, <2>1
<1>5. RemoveAt(popup.asks, i) = <<>>
  BY <1>3, <1>4, LastRemoved
<1> DEFINE p == [popup EXCEPT !.asks = RemoveAt(@, i)]
<1>6. p = [popup EXCEPT !.asks = <<>>]
  BY <1>5
<1>7. popup.question = Nobody
  BY <1>1, <1>2 DEF OneByOne
<1> HIDE DEF p
<1>8. /\ p \in Popups /\ p.asks = <<>> /\ p.question = Nobody /\ p.shown = popup.shown
      /\ p.of = popup.of /\ p.form = popup.form /\ p.open = popup.open /\ p.drawn = popup.drawn
  <2>1. <<>> \in Seq(FormRequest)
    OBVIOUS
  <2>2. QED
    BY <1>1, <1>6, <1>7, <2>1 DEF Popups
<1>9. Due(p, r)
  BY <1>3, <1>8 DEF Due
<1>10. OwnForms(p) /\ OneOpen(p) /\ Placed(p, homes)
  BY <1>1, <1>8 DEF OwnForms, OneOpen, Placed
<1>11. QED
  BY <1>3, <1>4, <1>8, <1>9, <1>10 DEF p

\* The form, or an error in its place.
LEMMA FormIsWaitedFor ==
    ASSUME PopupInv, "hasty" \notin temper, NEW p \in Popups, NEW r \in FormRequest,
           r.op = "form", Due(p, r), p.asks = <<>>, p.question = Nobody,
           p.shown # <<>> => p.shown = <<r.kind>>,
           OwnForms(p), OneOpen(p), Placed(p, homes)
    PROVE  /\ FormArrives(p, r) \in Popups /\ Placed(FormArrives(p, r), homes)
           /\ WaitedFor(FormArrives(p, r)) /\ FormArrives(p, r).question = Nobody
<1> DEFINE x == IF r.feature \in DOMAIN stored THEN r.feature ELSE "error"
           q == FormArrives(p, r)
<1>1. r.kind \in Kinds /\ r.kind \in p.open /\ r.feature = p.of[r.kind]
  BY DEF Due, FormRequest
<1>2. x \in Known \cup {"loading", "error"} /\ x \in {"error", p.of[r.kind]}
  BY <1>1 DEF PopupInv, PopupTypeOK
<1>3. q = [p EXCEPT !.form = [p.form EXCEPT ![r.kind] = x], !.open = p.open \cup {r.kind}]
  BY DEF FormArrives
<1> HIDE DEF x, q
<1>4. /\ [p.form EXCEPT ![r.kind] = x] \in [Kinds -> Known \cup {"loading", "error"}]
      /\ [p.form EXCEPT ![r.kind] = x][r.kind] = x
      /\ \A j \in Kinds \ {r.kind} : [p.form EXCEPT ![r.kind] = x][j] = p.form[j]
      /\ p.open \cup {r.kind} = p.open
  BY <1>1, <1>2 DEF Popups
<1>5. /\ q \in Popups /\ q.drawn = p.drawn /\ q.of = p.of /\ q.open = p.open /\ q.shown = p.shown
      /\ q.asks = <<>> /\ q.question = Nobody /\ q.form[r.kind] = x
      /\ \A j \in Kinds \ {r.kind} : q.form[j] = p.form[j]
  BY <1>3, <1>4 DEF Popups
<1>6. OwnForms(q) /\ OneOpen(q) /\ Placed(q, homes)
  BY <1>2, <1>5 DEF OwnForms, OneOpen, Placed, Popups
<1>7. OneByOne(q)
  BY <1>1, <1>5 DEF OneByOne
<1>8. QED
  BY <1>5, <1>6, <1>7 DEF WaitedFor, q

\* To a user who waits, a tower that is read is the one the popup is set to.
LEMMA TowerReadIsQuiet ==
    ASSUME NEW p \in Popups, NEW r \in FormRequest, r.feature \in Known, Placed(p, homes),
           r.feature = p.of[r.kind]
    PROVE  TowerRead(p, r.feature) = p
<1>1. r.kind \in Kinds /\ KindOf(r.feature) = r.kind
  BY FeatureKinds DEF FormRequest, Placed
<1>2. QED
  BY <1>1, FeatureKinds DEF TowerRead

\* The page without a feature.
LEMMA ErasedIsWaitedFor ==
    ASSUME NEW p \in Popups, NEW f, Placed(p, homes), OwnForms(p), OneOpen(p),
           p.asks = <<>>, p.shown = <<>>, p.question = Nobody
    PROVE  \E q \in Popups : /\ q = [p EXCEPT !.drawn = @ \ {f}]
                             /\ Placed(q, homes) /\ WaitedFor(q) /\ q.question = Nobody
<1>1. PICK q : q = [p EXCEPT !.drawn = p.drawn \ {f}]
  OBVIOUS
<1>2. /\ q \in Popups /\ q.drawn \subseteq p.drawn /\ q.of = p.of /\ q.form = p.form
      /\ q.open = p.open /\ q.asks = <<>> /\ q.shown = <<>> /\ q.question = Nobody
  BY <1>1 DEF Popups
<1>3. Placed(q, homes) /\ OwnForms(q) /\ OneOpen(q)
  BY <1>2 DEF Placed, OwnForms, OneOpen
<1>4. QED
  BY <1>1, <1>2, <1>3, QuietIsWaitedFor

\* The form again, and the feature is read.
LEMMA SubmittedIsWaitedFor ==
    ASSUME NEW p \in Popups, NEW r \in FormRequest, r.feature \in Known, r.feature = p.of[r.kind],
           Placed(p, homes), OwnForms(p), OneOpen(p),
           p.asks = <<>>, p.shown = <<>>, p.question = Nobody
    PROVE  /\ Submitted(p, r) \in Popups /\ Placed(Submitted(p, r), homes)
           /\ WaitedFor(Submitted(p, r)) /\ Submitted(p, r).question = Nobody
<1> DEFINE k == r.kind
           q == [p EXCEPT !.form = [p.form EXCEPT ![k] = r.feature]]
<1>1. k \in Kinds
  BY DEF FormRequest
<1>2. /\ [p.form EXCEPT ![k] = r.feature] \in [Kinds -> Known \cup {"loading", "error"}]
      /\ [p.form EXCEPT ![k] = r.feature][k] = r.feature
      /\ \A j \in Kinds \ {k} : [p.form EXCEPT ![k] = r.feature][j] = p.form[j]
  BY <1>1 DEF Popups
<1>3. Submitted(p, r) = Ajax(q, "read", k, p.of[k], Nobody)
  BY DEF Submitted
<1> HIDE DEF q
<1>4. /\ q \in Popups /\ q.drawn = p.drawn /\ q.of = p.of /\ q.open = p.open /\ q.shown = <<>>
      /\ q.asks = <<>> /\ q.question = Nobody /\ q.form[k] = r.feature
      /\ \A j \in Kinds \ {k} : q.form[j] = p.form[j]
  BY <1>2 DEF Popups, q
<1>5. OwnForms(q) /\ OneOpen(q) /\ Placed(q, homes)
  BY <1>4 DEF OwnForms, OneOpen, Placed, Popups
<1> DEFINE t == [op |-> "read", kind |-> k, feature |-> p.of[k], form |-> Nobody]
<1>6. t \in FormRequest /\ Due(q, t)
  BY <1>1, <1>4 DEF FormRequest, Due
<1>7. QED
  BY <1>3, <1>4, <1>5, <1>6, AskIsWaitedFor

\* What an answer does to the popups, the rows and the towers of sectors.
LEMMA AnswerKeeps ==
    ASSUME PopupInv, "hasty" \notin temper, NEW i \in 1 .. Len(popup.asks), Answer(i)
    PROVE  PopupInv'
<1>1. PICK r \in FormRequest :
          LET p == [popup EXCEPT !.asks = RemoveAt(@, i)]
          IN  /\ popup.asks = <<r>> /\ popup.asks[i] = r /\ i = 1 /\ Due(p, r)
              /\ p \in Popups /\ p.asks = <<>> /\ p.question = Nobody
              /\ p.shown # <<>> => r.op = "form" /\ p.shown = <<r.kind>>
              /\ OwnForms(p) /\ OneOpen(p) /\ Placed(p, homes)
  BY AnswerStarts
<1>2. PICK p : p = [popup EXCEPT !.asks = RemoveAt(@, i)]
  OBVIOUS
<1>3. /\ popup.asks[i] = r /\ Due(p, r) /\ p \in Popups /\ p.asks = <<>> /\ p.question = Nobody
      /\ p.shown # <<>> => r.op = "form" /\ p.shown = <<r.kind>>
      /\ OwnForms(p) /\ OneOpen(p) /\ Placed(p, homes)
  BY <1>1, <1>2
<1>4. /\ DOMAIN stored \subseteq Known /\ DOMAIN homes \subseteq Known
      /\ \A s \in DOMAIN homes : homes[s] \in APs
      /\ temper = {} => \A a \in acts : a[1] = a[2]
  BY DEF PopupInv, PopupTypeOK
<1>5. temper' = temper
  BY DEF Answer
<1>6. PICK q : q = popup'
  OBVIOUS
<1>7. \A n : n.question = Nobody => Asked(n)
  BY DEF Asked
<1>8. ASSUME q \in Popups, Placed(q, homes), WaitedFor(q), q.question = Nobody,
             UNCHANGED <<homes, acts>>, DOMAIN stored' \subseteq Known
      PROVE  PopupInv'
  BY <1>4, <1>5, <1>6, <1>7, <1>8, Kept
<1>9. CASE /\ r.feature \notin DOMAIN stored
           /\ popup' = Missing(p, r) /\ UNCHANGED <<stored, homes, acts>>
  <2>1. CASE r.op = "form"
    <3>1. q = FormArrives(p, r)
      BY <1>6, <1>9, <2>1 DEF Missing
    <3>2. QED
      BY <1>3, <1>4, <1>8, <1>9, <2>1, <3>1, FormIsWaitedFor
  <2>2. CASE r.op # "form"
    <3>1. q = p
      BY <1>6, <1>9, <2>2 DEF Missing
    <3>2. QED
      BY <1>3, <1>4, <1>8, <1>9, <2>2, <3>1, QuietIsWaitedFor
  <2>3. QED
    BY <2>1, <2>2
<1>10. CASE r.op = "form" /\ popup' = FormArrives(p, r) /\ UNCHANGED <<stored, homes, acts>>
  BY <1>3, <1>4, <1>6, <1>8, <1>10, FormIsWaitedFor
<1>11. CASE /\ r.op = "read" /\ r.feature \in DOMAIN stored
            /\ popup' = TowerRead(p, r.feature) /\ UNCHANGED <<stored, homes, acts>>
  <2>1. r.feature = p.of[r.kind]
    BY <1>3, <1>11 DEF Due
  <2>2. q = p
    BY <1>3, <1>4, <1>6, <1>11, <2>1, TowerReadIsQuiet
  <2>3. QED
    BY <1>3, <1>4, <1>8, <1>11, <2>2, QuietIsWaitedFor
<1>12. CASE /\ r.op = "submit" /\ r.feature \in DOMAIN stored
            /\ stored' = [stored EXCEPT ![r.feature] = r.form]
            /\ popup' = Submitted(p, r) /\ UNCHANGED <<homes, acts>>
  <2>1. r.feature = p.of[r.kind] /\ r.feature \in Known /\ DOMAIN stored' \subseteq Known
    BY <1>3, <1>4, <1>12 DEF Due
  <2>2. QED
    BY <1>3, <1>6, <1>8, <1>12, <2>1, SubmittedIsWaitedFor
<1>13. CASE /\ r.op = "place" /\ r.feature \in DOMAIN stored
            /\ popup' = Ajax(TowerRead(p, r.feature), "create", "tower",
                             TowerRead(p, r.feature).of["tower"], r.form)
            /\ acts' = acts \cup {<<r.form, TowerRead(p, r.feature).of["tower"]>>}
            /\ UNCHANGED <<stored, homes>>
  <2>1. /\ r.kind = "tower" /\ r.feature = p.of["tower"] /\ r.form = r.feature
        /\ r.feature \in Known /\ r.feature # Nobody
    BY <1>3, <1>4, <1>13, FeatureKinds DEF Due
  <2>2. TowerRead(p, r.feature) = p
    BY <1>3, <2>1, TowerReadIsQuiet
  <2>3. r.feature \in APs /\ "tower" \in Kinds
    BY <1>3, <2>1, FeatureKinds DEF Placed, Kinds
  <2> DEFINE t == [op |-> "create", kind |-> "tower", feature |-> r.feature, form |-> r.form]
  <2>4. t \in FormRequest /\ Due(p, t)
    BY <2>1, <2>3 DEF FormRequest, Due
  <2>5. q = Ajax(p, "create", "tower", r.feature, r.form)
    BY <1>6, <1>13, <2>1, <2>2
  <2>6. q \in Popups /\ Placed(q, homes) /\ WaitedFor(q) /\ q.question = Nobody
    BY <1>3, <1>13, <2>4, <2>5, AskIsWaitedFor
  <2>7. temper = {} => \A a \in acts' : a[1] = a[2]
    BY <1>4, <1>13, <2>1, <2>2
  <2>8. QED
    BY <1>4, <1>5, <1>6, <1>7, <1>13, <2>6, <2>7, Kept
<1>14. ASSUME NEW s \in NewSectors, r.op = "create",
              stored' = [f \in DOMAIN stored \cup {s} |-> IF f = s THEN s ELSE stored[f]],
              homes' = [f \in DOMAIN homes \cup {s} |-> IF f = s THEN r.feature ELSE homes[f]],
              popup' = SwitchTo([p EXCEPT !.drawn = @ \cup {s}], s), acts' = acts
       PROVE  PopupInv'
  <2>1. r.feature \in APs /\ p.shown = <<>> /\ s \in Known
    BY <1>3, <1>14 DEF Due, Known
  <2>2. PICK h : h = homes'
    OBVIOUS
  <2>3. /\ DOMAIN stored' \subseteq Known /\ DOMAIN h = DOMAIN homes \cup {s}
        /\ DOMAIN h \subseteq Known
        /\ \A f \in DOMAIN h : h[f] \in APs
    BY <1>4, <1>14, <2>1, <2>2
  <2>4. PICK n : n = [p EXCEPT !.drawn = p.drawn \cup {s}]
    OBVIOUS
  <2>5. /\ n \in Popups /\ n.drawn = p.drawn \cup {s} /\ n.of = p.of /\ n.form = p.form
        /\ n.open = p.open /\ n.asks = <<>> /\ n.shown = <<>> /\ n.question = Nobody
    BY <1>3, <2>1, <2>4 DEF Popups
  <2>6. OwnForms(n) /\ Placed(n, h)
    BY <1>3, <2>3, <2>5 DEF OwnForms, Placed
  <2>7. q = SwitchTo(n, s)
    BY <1>6, <1>14, <2>4
  <2>8. q \in Popups /\ Placed(q, h) /\ WaitedFor(q) /\ q.question = Nobody
    BY <2>1, <2>3, <2>5, <2>6, <2>7, SwitchIsWaitedFor
  <2>9. QED
    BY <1>4, <1>5, <1>6, <1>7, <1>14, <2>2, <2>3, <2>8, Kept
<1>15. CASE /\ r.op = "delete"
            /\ stored' = [f \in {g \in DOMAIN stored : g # r.feature
                            /\ ~(g \in DOMAIN homes /\ homes[g] = r.feature)} |-> stored[f]]
            /\ popup' = [p EXCEPT !.drawn = @ \ {r.feature}] /\ UNCHANGED <<homes, acts>>
  <2>1. DOMAIN stored' \subseteq Known
    BY <1>4, <1>15
  <2>2. q \in Popups /\ Placed(q, homes) /\ WaitedFor(q) /\ q.question = Nobody
    BY <1>3, <1>6, <1>15, ErasedIsWaitedFor, ZenonT(60)
  <2>3. QED
    BY <1>8, <1>15, <2>1, <2>2
<1>16. QED
  BY <1>2, <1>3, <1>9, <1>10, <1>11, <1>12, <1>13, <1>14, <1>15 DEF Answer

------------------------------------------------------------------------------
(* The popups: the theorems *)

\* Nothing is open.
LEMMA PopupInvInit == PopupInit => PopupInv
<1> SUFFICES ASSUME PopupInit PROVE PopupInv
  OBVIOUS
<1>1. /\ acts = {} /\ stored = [f \in Existing |-> f]
      /\ popup = [drawn |-> Existing, of |-> [k \in Kinds |-> Nobody],
                  form |-> [k \in Kinds |-> "loading"], open |-> {}, shown |-> <<>>,
                  asks |-> <<>>, button |-> "sector", doomed |-> Nobody, question |-> Nobody]
      /\ homes \in [APSectors -> APs]
  BY DEF PopupInit, NothingOpen
<1>2. /\ popup \in Popups /\ popup.of = [k \in Kinds |-> Nobody] /\ popup.open = {}
      /\ popup.shown = <<>> /\ popup.asks = <<>> /\ popup.question = Nobody
      /\ popup.drawn = Existing
  <2>1. <<>> \in Seq(Kinds) /\ <<>> \in Seq(FormRequest) /\ "sector" \in Kinds
    BY DEF Kinds
  <2>2. [k \in Kinds |-> Nobody] \in [Kinds -> Known \cup {Nobody}]
    OBVIOUS
  <2>3. [k \in Kinds |-> "loading"] \in [Kinds -> Known \cup {"loading", "error"}]
    OBVIOUS
  <2>4. Existing \in SUBSET Known
    BY DEF Known
  <2>5. QED
    BY <1>1, <2>1, <2>2, <2>3, <2>4 DEF Popups
<1>3. Placed(popup, homes)
  <2>1. \A k \in Kinds : popup.of[k] = Nobody
    BY <1>2
  <2>2. \A f \in Existing : KindOf(f) = "sector" => f \in APSectors
    BY DEF KindOf, Existing
  <2>3. "sector" \in Kinds /\ DOMAIN homes = APSectors
    BY <1>1 DEF Kinds
  <2>4. QED
    BY <1>2, <2>1, <2>2, <2>3 DEF Placed
<1>4. PopupTypeOK
  BY <1>1, <1>2, <1>3 DEF PopupTypeOK, Known, Existing
<1>5. WaitedFor(popup) /\ Asked(popup)
  BY <1>2 DEF WaitedFor, OneByOne, OneOpen, OwnForms, Asked, Kinds
<1>6. QED
  BY <1>1, <1>4, <1>5 DEF PopupInv

\* Every step keeps the invariant; that of a user who does not wait says nothing.
LEMMA PopupInvStep == PopupInv /\ [PopupNext]_popupVars => PopupInv'
<1> SUFFICES ASSUME PopupInv, [PopupNext]_popupVars PROVE PopupInv'
  OBVIOUS
<1>1. CASE UNCHANGED popupVars
  BY <1>1 DEF popupVars, PopupInv, PopupTypeOK, Placed, WaitedFor, OneByOne, OneOpen, OwnForms,
              Due, Asked
<1>2. CASE PopupNext /\ "hasty" \in temper
  <2>1. temper' = temper
    BY <1>2 DEF PopupNext, OpenPopup, ClosePopup, SubmitForm, PlaceSector, AskDelete, BackToTower,
                Cancel, Confirm, Answer, HearShown, ClickSomething
  <2>2. QED
    BY <1>2, <2>1 DEF PopupInv
<1>3. CASE PopupNext /\ "hasty" \notin temper
  BY <1>3, OpenPopupKeeps, ClosePopupKeeps, SubmitFormKeeps, PlaceSectorKeeps, AskDeleteKeeps,
     BackToTowerKeeps, CancelKeeps, ConfirmKeeps, AnswerKeeps, HearShownKeeps DEF PopupNext
<1>4. QED
  BY <1>1, <1>2, <1>3

\* To a user who waits, a popup shows the form of the feature it is set to, alone
\* (LinkCheckBaseAjaxFormPopup, CollapsibleComponent).
THEOREM PopupsShowTheirFeature == PopupSpec => []PopupShowsItsFeature
<1>1. PopupInv => PopupShowsItsFeature
  <2>1. SUFFICES ASSUME PopupInv, "hasty" \notin temper
                 PROVE  /\ \A k \in popup.open : popup.form[k] \in {"loading", "error", popup.of[k]}
                        /\ popup.shown = <<>> => Cardinality(popup.open) <= 1
    BY DEF PopupShowsItsFeature
  <2>2. \A k \in popup.open : popup.form[k] \in {"loading", "error", popup.of[k]}
    BY <2>1 DEF PopupInv, WaitedFor, OwnForms
  <2>3. ASSUME popup.shown = <<>> PROVE Cardinality(popup.open) <= 1
    <3>1. PICK k \in Kinds : popup.open \subseteq {k}
      BY <2>1, <2>3 DEF PopupInv, WaitedFor, OneOpen
    <3>2. popup.open = {} \/ popup.open = {k}
      BY <3>1
    <3>3. Cardinality({}) = 0 /\ Cardinality({k}) = 1
      BY FS_EmptySet, FS_Singleton
    <3>4. QED
      BY <3>2, <3>3
  <2>4. QED
    BY <2>2, <2>3
<1>2. PopupInv /\ [PopupNext]_popupVars => PopupInv'
  BY PopupInvStep
<1>3. QED
  BY PopupInvInit, <1>1, <1>2, PTL DEF PopupSpec

\* What a form does is done to the feature it is of, and what is confirmed is what was
\* asked (SubmitForm, PlaceSector, Confirm).
THEOREM FormsActOnTheirs == PopupSpec => []FormsActOnTheirFeature
<1>1. PopupInv => FormsActOnTheirFeature
  BY DEF PopupInv, FormsActOnTheirFeature
<1>2. PopupInv /\ [PopupNext]_popupVars => PopupInv'
  BY PopupInvStep
<1>3. QED
  BY PopupInvInit, <1>1, <1>2, PTL DEF PopupSpec

------------------------------------------------------------------------------
(* The coverage over the map: what is on its way to whom.                   *)

Coverages == Nat \X (0 .. 3)
Replies   == {"none", "ok", "missing"} \cup Nat \cup Coverages
Stages    == {"none", "queued", "remade", "viewshed", "nearby", "coverage", "judging"}
SectorRow == [version : Nat, viewshed : Nat, coverage : Coverages, task : Stages]
News      == [type : {"progress", "viewshed", "status", "complete"}, sector : Sectors,
              version : Nat]
PageAsk   == [op : {"save", "rename", "read", "overlay", "coverage", "delete"},
              sector : Sectors, done : BOOLEAN, reply : Replies]
Chosen    == SUBSET (Sectors \cup {Mast})
Overlays  == [of : SUBSET Sectors, version : Replies, visible : BOOLEAN, tiles : BOOLEAN]
Pages     == [known : SUBSET Sectors, drawn : SUBSET Sectors, selected : Chosen,
              held : [Sectors -> Replies],
              shown : UNION {[D -> Replies] : D \in SUBSET Sectors},
              loading : SUBSET Sectors, spinning : SUBSET Sectors, overlay : Overlays,
              last : Chosen, ajax : Seq(PageAsk)]

DisplayTypeOK ==
    /\ server \in [Sectors -> SectorRow]
    /\ socket \in Seq(News)
    /\ display \in Pages

\* The requests on their way, and whether a message is among those after the nth.
Wanted(p) == {<<p.ajax[i].op, p.ajax[i].sector>> : i \in 1 .. Len(p.ajax)}
Says(k, type, s, n) == \E i \in 1 .. Len(k) : i > n /\ k[i].type = type /\ k[i].sector = s

FormAsks == {"save", "rename"}

\* Of a sector one form is on its way at a time, and no task while the server has not
\* got it.
OneSave(v, p) ==
    \A i \in 1 .. Len(p.ajax) : p.ajax[i].op \in FormAsks =>
        /\ ~ p.ajax[i].done => v[p.ajax[i].sector].task = "none"
        /\ \A j \in 1 .. Len(p.ajax) :
              p.ajax[j].op \in FormAsks /\ p.ajax[j].sector = p.ajax[i].sector => i = j

InTime(p) == \A i \in 1 .. Len(p.ajax) : ~ p.ajax[i].done

\* The rows are those of a task that has ended, or has come so far.
RowFollows(r) ==
    /\ r.version = 0 => r.task = "none" /\ r.viewshed = 0 /\ r.coverage = NoCoverage
    /\ r.viewshed <= r.version
    /\ r.task = "remade" => r.viewshed # r.version
    /\ r.task \notin {"queued", "remade"} => r.viewshed = r.version

\* Features that are drawn are there, and those selected are drawn.
DrawnAreThere(v, p) ==
    /\ \A s \in p.drawn : s \in p.known /\ v[s].version > 0 /\ <<"delete", s>> \notin Wanted(p)
    /\ p.selected \subseteq p.drawn \cup {Mast}
    /\ p.selected \subseteq p.last

Grounded(v, p) ==
    /\ OneSave(v, p) /\ DrawnAreThere(v, p)
    /\ \A s \in Sectors : RowFollows(v[s])
    /\ "overtake" \notin sky => InTime(p)

\* What spins has a task at work, or one that will have been told complete.
AtWork == {"viewshed", "nearby", "coverage", "judging"}
Ends(v, k, s, n) == v[s].task \in AtWork \/ Says(k, "complete", s, n)

Spins(v, k, p) ==
    /\ p.known = Sectors /\ p.spinning = p.loading
    /\ \A s \in Sectors : <<"delete", s>> \notin Wanted(p)
    /\ \A s \in p.loading : Ends(v, k, s, 0)
    /\ \A i \in 1 .. Len(k) : k[i].type = "progress" => Ends(v, k, k[i].sector, i)

\* A selected sector's buildings are to be asked for, or are those of the last task.
SoleOf(p, s) == p.selected = {s} /\ p.last = {s}

CoverageDue(v, k, p, s) ==
    v[s].task # "none" \/ Says(k, "complete", s, 0) \/ <<"coverage", s>> \in Wanted(p)

HeldAndShown(p, s, coverage) ==
    s \in DOMAIN p.shown /\ p.shown[s] = coverage /\ p.held[s] = coverage
CoverageShown(v, p, s) == HeldAndShown(p, s, <<v[s].version, Judged>>)

Covers(v, k, p) ==
    \A s \in Sectors :
        /\ v[s].task = "none" /\ v[s].version > 0 => v[s].coverage = <<v[s].version, Judged>>
        /\ v[s].task = "queued" => v[s].viewshed # v[s].version
        /\ <<"rename", s>> \notin Wanted(p)
        /\ <<"read", s>> \in Wanted(p) => v[s].task = "queued" \/ v[s].version = 0
        /\ SoleOf(p, s) => CoverageDue(v, k, p, s) \/ CoverageShown(v, p, s)

\* Its tiles are to be made, told of or asked for, or are those of the last viewshed.
Remaking(r) == r.task = "viewshed" \/ r.viewshed # r.version

OverlayDue(v, k, p, s) ==
    Remaking(v[s]) \/ Says(k, "viewshed", s, 0) \/ <<"overlay", s>> \in Wanted(p)

OverlayShown(v, p, s) ==
    p.overlay.of = {s} /\ p.overlay.version = v[s].viewshed /\ p.overlay.visible

Overlies(v, k, p) ==
    /\ p.last \cap p.drawn = p.selected
    /\ \A op \in FormAsks \cup {"read", "overlay"} : \A s \in Sectors :
          <<op, s>> \in Wanted(p) => s \in p.selected
    /\ \A i \in 1 .. Len(k) : k[i].type = "viewshed" =>
          \/ k[i].version = v[k[i].sector].viewshed \/ v[k[i].sector].version = 0
          \/ Remaking(v[k[i].sector]) \/ Says(k, "viewshed", k[i].sector, i)
    /\ \A s \in Sectors : SoleOf(p, s) => OverlayDue(v, k, p, s) \/ OverlayShown(v, p, s)

SpinsAt    == sky \cap {"fail", "disconnect", "delete"} = {}
CoversAt   == sky \cap {"fail", "disconnect", "swift", "rename", "overtake"} = {}
OverliesAt == sky \cap {"fail", "disconnect", "overtake", "restless"} = {}

DisplayInv ==
    /\ DisplayTypeOK /\ Grounded(server, display)
    /\ SpinsAt => Spins(server, socket, display)
    /\ CoversAt => Covers(server, socket, display)
    /\ OverliesAt => Overlies(server, socket, display)

------------------------------------------------------------------------------
(* The coverage: requests and messages *)

\* What lies before the removed element keeps its place, what lies behind moves up.
LEMMA RemoveAtProperties ==
    ASSUME NEW S, NEW q \in Seq(S), NEW i \in 1 .. Len(q)
    PROVE  /\ RemoveAt(q, i) \in Seq(S) /\ Len(RemoveAt(q, i)) = Len(q) - 1
           /\ \A j \in 1 .. Len(q) - 1 : RemoveAt(q, i)[j] = IF j < i THEN q[j] ELSE q[j + 1]
<1> DEFINE a == SubSeq(q, 1, i - 1)
           b == SubSeq(q, i + 1, Len(q))
<1>1. Len(q) \in Nat /\ \A j \in 1 .. Len(q) : q[j] \in S
  BY LenProperties, ElementOfSeq
<1>2. a \in Seq(S) /\ Len(a) = i - 1 /\ \A j \in 1 .. i - 1 : a[j] = q[j]
  <2>1. 1 \in Int /\ i - 1 \in Int /\ \A j \in 1 .. i - 1 : q[j] \in S
    BY <1>1
  <2>2. /\ a \in Seq(S) /\ Len(a) = (IF 1 <= i - 1 THEN i - 1 - 1 + 1 ELSE 0)
        /\ \A j \in 1 .. (i - 1) - 1 + 1 : a[j] = q[1 + j - 1]
    BY <2>1, SubSeqProperties
  <2>3. QED
    BY <2>2, <1>1
<1>3. /\ b \in Seq(S) /\ Len(b) = Len(q) - i
      /\ \A j \in 1 .. Len(q) - i : b[j] = q[i + j]
  <2>1. i + 1 \in Int /\ Len(q) \in Int /\ \A j \in i + 1 .. Len(q) : q[j] \in S
    BY <1>1
  <2>2. /\ b \in Seq(S) /\ Len(b) = (IF i + 1 <= Len(q) THEN Len(q) - (i + 1) + 1 ELSE 0)
        /\ \A j \in 1 .. Len(q) - (i + 1) + 1 : b[j] = q[i + 1 + j - 1]
    BY <2>1, SubSeqProperties
  <2>3. QED
    BY <2>2, <1>1
<1>4. RemoveAt(q, i) = a \o b
  BY DEF RemoveAt
<1> HIDE DEF a, b
<1>5. /\ a \o b \in Seq(S) /\ Len(a \o b) = Len(a) + Len(b)
      /\ \A j \in 1 .. Len(a) + Len(b) : (a \o b)[j] = IF j <= Len(a) THEN a[j] ELSE b[j - Len(a)]
  BY <1>2, <1>3, ConcatProperties
<1>6. ASSUME NEW j \in 1 .. Len(q) - 1
      PROVE  (a \o b)[j] = IF j < i THEN q[j] ELSE q[j + 1]
  <2>1. (a \o b)[j] = IF j <= i - 1 THEN a[j] ELSE b[j - (i - 1)]
    BY <1>1, <1>2, <1>3, <1>5
  <2>2. CASE j < i
    <3>1. j <= i - 1 /\ j \in 1 .. i - 1
      BY <1>1, <2>2
    <3>2. QED
      BY <1>2, <2>1, <2>2, <3>1
  <2>3. CASE j >= i
    <3>1. ~ (j <= i - 1) /\ j - (i - 1) \in 1 .. Len(q) - i /\ i + (j - (i - 1)) = j + 1
      BY <1>1, <2>3
    <3>2. QED
      BY <1>1, <1>3, <2>1, <2>3, <3>1
  <2>4. j < i \/ j >= i
    BY <1>1
  <2>5. QED
    BY <2>2, <2>3, <2>4
<1>7. QED
  BY <1>1, <1>2, <1>3, <1>4, <1>5, <1>6, SMTT(30)

AsksAlso(p, q, op, s) == Wanted(q) = Wanted(p) \cup {<<op, s>>}

SameMap(p, q) ==
    q.known = p.known /\ q.drawn = p.drawn /\ q.selected = p.selected /\ q.last = p.last
SameSpin(p, q) == q.loading = p.loading /\ q.spinning = p.spinning
SameDraw(p, q) == q.held = p.held /\ q.shown = p.shown

\* A request is answered: the others stay, and of a form no other is on its way.
LEMMA WithoutAsk ==
    ASSUME NEW p \in Pages, NEW i \in 1 .. Len(p.ajax), NEW q,
           q = [p EXCEPT !.ajax = RemoveAt(p.ajax, i)]
    PROVE  /\ q \in Pages /\ SameMap(p, q) /\ SameSpin(p, q) /\ SameDraw(p, q)
           /\ q.overlay = p.overlay
           /\ AsksAlso(q, p, p.ajax[i].op, p.ajax[i].sector)
           /\ InTime(p) => InTime(q)
           /\ \A v : OneSave(v, p) =>
                 /\ OneSave(v, q)
                 /\ p.ajax[i].op \in FormAsks =>
                       \A op \in FormAsks : <<op, p.ajax[i].sector>> \notin Wanted(q)
<1> DEFINE a == p.ajax
           b == RemoveAt(a, i)
<1>1. a \in Seq(PageAsk)
  BY DEF Pages
<1>2. /\ b \in Seq(PageAsk) /\ Len(b) = Len(a) - 1 /\ Len(a) \in Nat
      /\ \A j \in 1 .. Len(a) - 1 : b[j] = IF j < i THEN a[j] ELSE a[j + 1]
  BY <1>1, RemoveAtProperties, LenProperties
<1>3. /\ q \in Pages /\ SameMap(p, q) /\ SameSpin(p, q) /\ SameDraw(p, q)
      /\ q.overlay = p.overlay /\ q.ajax = b
  BY <1>2 DEF Pages, SameMap, SameSpin, SameDraw
<1> DEFINE From(j) == IF j < i THEN j ELSE j + 1
<1> HIDE DEF b
<1>4. \A j \in 1 .. Len(b) : From(j) \in 1 .. Len(a) /\ From(j) # i /\ b[j] = a[From(j)]
  BY <1>2
<1>5. \A x \in 1 .. Len(a) : x = i \/ \E j \in 1 .. Len(b) : From(j) = x
  <2> SUFFICES ASSUME NEW x \in 1 .. Len(a), x # i PROVE \E j \in 1 .. Len(b) : From(j) = x
    OBVIOUS
  <2>1. CASE x < i
    <3>1. x \in 1 .. Len(b) /\ From(x) = x
      BY <1>2, <2>1
    <3>2. QED
      BY <3>1
  <2>2. CASE x > i
    <3>1. x - 1 \in 1 .. Len(b) /\ From(x - 1) = x
      BY <1>2, <2>2
    <3>2. QED
      BY <3>1
  <2>3. QED
    BY <1>2, <2>1, <2>2
<1>6. \A j, k \in 1 .. Len(b) : From(j) = From(k) => j = k
  BY <1>2
<1> HIDE DEF From, a
<1>7. AsksAlso(q, p, p.ajax[i].op, p.ajax[i].sector)
  <2>1. \A x \in 1 .. Len(a) : <<a[x].op, a[x].sector>> \in
             {<<b[j].op, b[j].sector>> : j \in 1 .. Len(b)} \cup {<<a[i].op, a[i].sector>>}
    BY <1>4, <1>5
  <2>2. \A j \in 1 .. Len(b) : <<b[j].op, b[j].sector>> \in
             {<<a[x].op, a[x].sector>> : x \in 1 .. Len(a)}
    BY <1>4
  <2>3. <<a[i].op, a[i].sector>> \in {<<a[x].op, a[x].sector>> : x \in 1 .. Len(a)}
    BY DEF a
  <2>4. /\ Wanted(p) = {<<a[x].op, a[x].sector>> : x \in 1 .. Len(a)}
        /\ Wanted(q) = {<<b[j].op, b[j].sector>> : j \in 1 .. Len(b)}
    BY <1>3 DEF Wanted, a
  <2> DEFINE A == {<<a[x].op, a[x].sector>> : x \in 1 .. Len(a)}
             B == {<<b[j].op, b[j].sector>> : j \in 1 .. Len(b)}
  <2>5. A \subseteq B \cup {<<a[i].op, a[i].sector>>} /\ B \subseteq A
    BY <2>1, <2>2
  <2>6. <<a[i].op, a[i].sector>> \in A
    BY <2>3
  <2> HIDE DEF A, B
  <2>7. A = B \cup {<<a[i].op, a[i].sector>>}
    BY <2>5, <2>6
  <2>8. QED
    BY <2>4, <2>7 DEF A, B, a, AsksAlso
<1>8. InTime(p) => InTime(q)
  BY <1>3, <1>4 DEF InTime, a
<1>9. ASSUME NEW v, OneSave(v, p) PROVE OneSave(v, q)
  <2> SUFFICES ASSUME NEW j \in 1 .. Len(b), b[j].op \in FormAsks
               PROVE  /\ ~ b[j].done => v[b[j].sector].task = "none"
                      /\ \A k \in 1 .. Len(b) :
                            b[k].op \in FormAsks /\ b[k].sector = b[j].sector => j = k
    BY <1>3 DEF OneSave
  <2>1. \A x \in 1 .. Len(a) : a[x].op \in FormAsks =>
            /\ ~ a[x].done => v[a[x].sector].task = "none"
            /\ \A y \in 1 .. Len(a) :
                  a[y].op \in FormAsks /\ a[y].sector = a[x].sector => x = y
    BY <1>9 DEF OneSave, a
  <2>2. /\ From(j) \in 1 .. Len(a) /\ a[From(j)].op = b[j].op
        /\ a[From(j)].sector = b[j].sector /\ a[From(j)].done = b[j].done
    BY <1>4
  <2>3. ~ b[j].done => v[b[j].sector].task = "none"
    BY <2>1, <2>2
  <2>4. ASSUME NEW k \in 1 .. Len(b), b[k].op \in FormAsks, b[k].sector = b[j].sector
        PROVE  j = k
    <3>1. /\ From(k) \in 1 .. Len(a) /\ a[From(k)].op = b[k].op
          /\ a[From(k)].sector = b[k].sector
      BY <1>4
    <3>2. From(j) = From(k)
      BY <2>1, <2>2, <2>4, <3>1
    <3>3. QED
      BY <1>6, <3>2
  <2>5. QED
    BY <2>3, <2>4
<1>10. ASSUME NEW v, OneSave(v, p), p.ajax[i].op \in FormAsks,
              NEW op \in FormAsks, <<op, p.ajax[i].sector>> \in Wanted(q)
       PROVE  FALSE
  <2>1. PICK j \in 1 .. Len(b) : b[j].op = op /\ b[j].sector = a[i].sector
    BY <1>3, <1>10 DEF Wanted, a
  <2>2. From(j) \in 1 .. Len(a) /\ From(j) # i /\ a[From(j)].op = op
           /\ a[From(j)].sector = a[i].sector
    BY <1>4, <2>1
  <2>3. QED
    BY <1>10, <2>2 DEF OneSave, a
<1>11. QED
  BY <1>3, <1>7, <1>8, <1>9, <1>10

------------------------------------------------------------------------------
(* The coverage: what the page's helpers change *)

\* A form is asked for when none is on its way and no task under way.
MayAsk(v, p, op, s) ==
    op \in FormAsks =>
        v[s].task = "none" /\ \A form \in FormAsks : <<form, s>> \notin Wanted(p)

\* A request more.
LEMMA AskChanges ==
    ASSUME NEW p \in Pages, NEW s \in Sectors, NEW q,
           NEW op \in {"save", "rename", "read", "overlay", "coverage", "delete"},
           q = Ask(p, op, s)
    PROVE  /\ q \in Pages /\ SameMap(p, q) /\ SameSpin(p, q) /\ SameDraw(p, q)
           /\ q.overlay = p.overlay
           /\ AsksAlso(p, q, op, s)
           /\ InTime(p) => InTime(q)
           /\ \A v : MayAsk(v, p, op, s) /\ OneSave(v, p) => OneSave(v, q)
<1> DEFINE r == [op |-> op, sector |-> s, done |-> FALSE, reply |-> "none"]
           a == p.ajax
           b == Append(a, r)
<1>1. r \in PageAsk /\ r.op = op /\ r.sector = s /\ r.done = FALSE
  BY DEF PageAsk, Replies
<1>2. a \in Seq(PageAsk)
  BY DEF Pages
<1> HIDE DEF r
<1>3. /\ b \in Seq(PageAsk) /\ Len(b) = Len(a) + 1 /\ Len(a) \in Nat
      /\ \A i \in 1 .. Len(a) : b[i] = a[i]
      /\ b[Len(a) + 1] = r
  BY <1>1, <1>2, AppendProperties, LenProperties
<1>4. q = [p EXCEPT !.ajax = b]
  BY DEF Ask, r
<1> HIDE DEF b
<1>5. /\ q \in Pages /\ SameMap(p, q) /\ SameSpin(p, q) /\ SameDraw(p, q)
      /\ q.overlay = p.overlay /\ q.ajax = b
  BY <1>3, <1>4 DEF Pages, SameMap, SameSpin, SameDraw
<1>6. \A i \in 1 .. Len(b) : (i \in 1 .. Len(a) /\ b[i] = a[i]) \/ (i = Len(a) + 1 /\ b[i] = r)
  BY <1>3
<1>7. Len(a) + 1 \in 1 .. Len(b) /\ \A i \in 1 .. Len(a) : i \in 1 .. Len(b) /\ i # Len(a) + 1
  BY <1>3
<1>8. AsksAlso(p, q, op, s)
  <2> DEFINE A == {<<a[x].op, a[x].sector>> : x \in 1 .. Len(a)}
             B == {<<b[j].op, b[j].sector>> : j \in 1 .. Len(b)}
  <2>1. B \subseteq A \cup {<<op, s>>}
    BY <1>1, <1>6
  <2>2. A \subseteq B
    BY <1>3, <1>7
  <2>3. <<op, s>> \in B
    BY <1>1, <1>3, <1>7
  <2>4. Wanted(p) = A /\ Wanted(q) = B
    BY <1>5 DEF Wanted
  <2> HIDE DEF A, B
  <2>5. QED
    BY <2>1, <2>2, <2>3, <2>4 DEF AsksAlso
<1>9. InTime(p) => InTime(q)
  BY <1>1, <1>5, <1>6 DEF InTime
<1>10. ASSUME NEW v, MayAsk(v, p, op, s), OneSave(v, p) PROVE OneSave(v, q)
  <2>1. ASSUME op \in FormAsks, NEW i \in 1 .. Len(a), a[i].op \in FormAsks, a[i].sector = s
        PROVE  FALSE
    <3>1. <<a[i].op, s>> \in Wanted(p)
      BY <2>1 DEF Wanted
    <3>2. QED
      BY <1>10, <2>1, <3>1 DEF MayAsk
  <2> SUFFICES ASSUME NEW j \in 1 .. Len(b), b[j].op \in FormAsks
               PROVE  /\ ~ b[j].done => v[b[j].sector].task = "none"
                      /\ \A k \in 1 .. Len(b) :
                            b[k].op \in FormAsks /\ b[k].sector = b[j].sector => j = k
    BY <1>5 DEF OneSave
  <2>2. \A x \in 1 .. Len(a) : a[x].op \in FormAsks =>
            /\ ~ a[x].done => v[a[x].sector].task = "none"
            /\ \A y \in 1 .. Len(a) :
                  a[y].op \in FormAsks /\ a[y].sector = a[x].sector => x = y
    BY <1>10 DEF OneSave
  <2>3. CASE j \in 1 .. Len(a) /\ b[j] = a[j]
    <3>1. ~ b[j].done => v[b[j].sector].task = "none"
      BY <2>2, <2>3
    <3>2. ASSUME NEW k \in 1 .. Len(b), b[k].op \in FormAsks, b[k].sector = b[j].sector
          PROVE  j = k
      <4>1. CASE k \in 1 .. Len(a) /\ b[k] = a[k]
        BY <2>2, <2>3, <3>2, <4>1
      <4>2. CASE b[k] = r
        BY <1>1, <2>1, <2>3, <3>2, <4>2
      <4>3. QED
        BY <1>6, <4>1, <4>2
    <3>3. QED
      BY <3>1, <3>2
  <2>4. CASE j = Len(a) + 1 /\ b[j] = r
    <3>1. ~ b[j].done => v[b[j].sector].task = "none"
      BY <1>1, <1>10, <2>4 DEF MayAsk
    <3>2. ASSUME NEW k \in 1 .. Len(b), b[k].op \in FormAsks, b[k].sector = b[j].sector
          PROVE  j = k
      <4>1. CASE k \in 1 .. Len(a) /\ b[k] = a[k]
        BY <1>1, <2>1, <2>4, <3>2, <4>1
      <4>2. CASE k = Len(a) + 1
        BY <2>4, <4>2
      <4>3. QED
        BY <1>6, <4>1, <4>2
    <3>3. QED
      BY <3>1, <3>2
  <2>5. QED
    BY <1>6, <2>3, <2>4
<1>11. QED
  BY <1>5, <1>8, <1>9, <1>10

\* A request that is no form.
LEMMA AskOtherChanges ==
    ASSUME NEW p \in Pages, NEW s \in Sectors, NEW q,
           NEW op \in {"read", "overlay", "coverage", "delete"}, q = Ask(p, op, s)
    PROVE  /\ q \in Pages /\ SameMap(p, q) /\ SameSpin(p, q) /\ SameDraw(p, q)
           /\ q.overlay = p.overlay
           /\ AsksAlso(p, q, op, s)
           /\ InTime(p) => InTime(q)
           /\ \A v : OneSave(v, p) => OneSave(v, q)
<1>1. op \notin FormAsks /\ op \in {"save", "rename", "read", "overlay", "coverage", "delete"}
  BY DEF FormAsks
<1>2. /\ q \in Pages /\ SameMap(p, q) /\ SameSpin(p, q) /\ SameDraw(p, q)
      /\ q.overlay = p.overlay /\ AsksAlso(p, q, op, s)
      /\ InTime(p) => InTime(q)
  BY <1>1, AskChanges
<1>3. ASSUME NEW v, OneSave(v, p) PROVE OneSave(v, q)
  <2>1. MayAsk(v, p, op, s)
    BY <1>1 DEF MayAsk
  <2>2. QED
    BY <1>1, <1>3, <2>1, AskChanges
<1>4. QED
  BY <1>2, <1>3

SameAsks(p, q) == q.ajax = p.ajax

\* The same requests are the same ones.
LEMMA SameAsksAreSame ==
    ASSUME NEW p, NEW q, SameAsks(p, q)
    PROVE  /\ Wanted(q) = Wanted(p)
           /\ InTime(p) => InTime(q)
           /\ \A v : OneSave(v, p) => OneSave(v, q)
  BY DEF SameAsks, Wanted, InTime, OneSave

\* What is drawn of the one sector that is selected is what the page holds of it.
LEMMA RenderChanges ==
    ASSUME NEW p \in Pages, NEW q, q = RenderBuildings(p)
    PROVE  /\ q \in Pages /\ SameMap(p, q) /\ SameSpin(p, q) /\ SameAsks(p, q)
           /\ q.held = p.held /\ q.overlay = p.overlay
           /\ \A s \in Sectors : p.selected = {s} /\ s \in p.known =>
                 s \in DOMAIN q.shown /\ q.shown[s] = p.held[s]
<1> DEFINE D == IF p.selected = {} THEN p.drawn ELSE p.selected \ {Mast}
           f == [s \in D |-> IF s \in p.known THEN p.held[s] ELSE NoCoverage]
<1>1. q = [p EXCEPT !.shown = f]
  BY DEF RenderBuildings
<1>2. D \in SUBSET Sectors
  BY DEF Pages, Chosen
<1>3. NoCoverage \in Replies
  BY DEF NoCoverage, Replies, Coverages
<1>4. p.held \in [Sectors -> Replies]
  BY DEF Pages
<1>5. ASSUME NEW s \in Sectors, p.selected = {s} PROVE s \in D
  BY <1>5, SectorsAssumption
<1> HIDE DEF D
<1>6. f \in [D -> Replies]
  BY <1>2, <1>3, <1>4
<1>7. f \in UNION {[X -> Replies] : X \in SUBSET Sectors}
  BY <1>2, <1>6
<1>8. \A s \in D : s \in DOMAIN f /\ (s \in p.known => f[s] = p.held[s])
  OBVIOUS
<1> HIDE DEF f
<1>9. /\ q \in Pages /\ SameMap(p, q) /\ SameSpin(p, q) /\ SameAsks(p, q)
      /\ q.held = p.held /\ q.overlay = p.overlay /\ q.shown = f
  BY <1>1, <1>7 DEF Pages, SameMap, SameSpin, SameAsks
<1>10. QED
  BY <1>5, <1>8, <1>9

\* Only whether the overlay is visible.
LEMMA SetVisibleChanges ==
    ASSUME NEW p \in Pages, NEW visible \in BOOLEAN, NEW q, q = SetVisible(p, visible)
    PROVE  /\ q \in Pages /\ SameMap(p, q) /\ SameSpin(p, q) /\ SameDraw(p, q) /\ SameAsks(p, q)
           /\ q.overlay.of = p.overlay.of /\ q.overlay.version = p.overlay.version
           /\ visible /\ p.overlay.visible => q.overlay.visible
<1>1. CASE p.overlay.of = {}
  <2>1. q = p
    BY <1>1 DEF SetVisible
  <2>2. QED
    BY <2>1 DEF SameMap, SameSpin, SameDraw, SameAsks
<1>2. CASE p.overlay.of # {}
  <2> DEFINE o == [p.overlay EXCEPT !.visible = visible]
  <2>1. q = [p EXCEPT !.overlay = o]
    BY <1>2 DEF SetVisible
  <2>2. p.overlay \in Overlays
    BY DEF Pages
  <2>3. /\ o \in Overlays /\ o.of = p.overlay.of /\ o.version = p.overlay.version
        /\ o.visible = visible
    BY <2>2 DEF Overlays
  <2> HIDE DEF o
  <2>4. /\ q \in Pages /\ SameMap(p, q) /\ SameSpin(p, q) /\ SameDraw(p, q) /\ SameAsks(p, q)
        /\ q.overlay = o
    BY <2>1, <2>3 DEF Pages, SameMap, SameSpin, SameDraw, SameAsks
  <2>5. QED
    BY <2>3, <2>4
<1>3. QED
  BY <1>1, <1>2

\* The tiles of a sector that is still selected.
LEMMA UpdateImageChanges ==
    ASSUME NEW p \in Pages, NEW s \in Sectors, NEW version \in Replies, NEW q,
           q = UpdateViewshedImage(p, s, version)
    PROVE  /\ q \in Pages /\ SameMap(p, q) /\ SameSpin(p, q) /\ SameDraw(p, q) /\ SameAsks(p, q)
           /\ s \notin p.selected => q.overlay = p.overlay
           /\ s \in p.selected =>
                 q.overlay.of = {s} /\ q.overlay.version = version /\ q.overlay.visible
<1>1. CASE s \notin p.selected
  <2>1. q = p
    BY <1>1 DEF UpdateViewshedImage
  <2>2. QED
    BY <1>1, <2>1 DEF SameMap, SameSpin, SameDraw, SameAsks
<1>2. CASE s \in p.selected
  <2> DEFINE o == [of |-> {s}, version |-> version, visible |-> TRUE, tiles |-> TRUE]
  <2>1. q = [p EXCEPT !.overlay = o]
    BY <1>2 DEF UpdateViewshedImage
  <2>2. o \in Overlays /\ o.of = {s} /\ o.version = version /\ o.visible = TRUE
    BY DEF Overlays
  <2> HIDE DEF o
  <2>3. /\ q \in Pages /\ SameMap(p, q) /\ SameSpin(p, q) /\ SameDraw(p, q) /\ SameAsks(p, q)
        /\ q.overlay = o
    BY <2>1, <2>2 DEF Pages, SameMap, SameSpin, SameDraw, SameAsks
  <2>4. QED
    BY <1>2, <2>2, <2>3
<1>3. QED
  BY <1>1, <1>2

\* A sector begins or ends to load, and the spinners follow if it is known.
LEMMA SpinnersChange ==
    ASSUME NEW p \in Pages, NEW L \in SUBSET Sectors, NEW q,
           q = UpdateSpinners([p EXCEPT !.loading = L])
    PROVE  /\ q \in Pages /\ SameMap(p, q) /\ SameDraw(p, q) /\ SameAsks(p, q)
           /\ q.overlay = p.overlay /\ q.loading = L
           /\ L \subseteq p.known => q.spinning = L
<1> DEFINE r == [p EXCEPT !.loading = L]
<1>1. /\ r \in Pages /\ SameMap(p, r) /\ SameDraw(p, r) /\ SameAsks(p, r)
      /\ r.overlay = p.overlay /\ r.loading = L /\ r.known = p.known
  BY DEF Pages, SameMap, SameDraw, SameAsks
<1>2. q = IF L \subseteq p.known THEN [r EXCEPT !.spinning = L] ELSE r
  BY <1>1 DEF UpdateSpinners
<1> HIDE DEF r
<1>3. CASE L \subseteq p.known
  <2>1. q = [r EXCEPT !.spinning = L]
    BY <1>2, <1>3
  <2>2. /\ q \in Pages /\ SameMap(r, q) /\ SameDraw(r, q) /\ SameAsks(r, q)
        /\ q.overlay = r.overlay /\ q.loading = r.loading /\ q.spinning = L
    BY <1>1, <2>1 DEF Pages, SameMap, SameDraw, SameAsks
  <2>3. QED
    BY <1>1, <2>2 DEF SameMap, SameDraw, SameAsks
<1>4. CASE ~ (L \subseteq p.known)
  BY <1>1, <1>2, <1>4
<1>5. QED
  BY <1>3, <1>4

\* A selection: the one sector selected has its coverage asked for, and its tiles
\* unless the selection is taken for the same one again.
LEMMA SelectionChanges ==
    ASSUME NEW p \in Pages, NEW S \in SUBSET (p.drawn \cup {Mast}), NEW q,
           q = SelectionChange(p, S)
    PROVE  /\ q \in Pages /\ SameSpin(p, q) /\ q.known = p.known /\ q.drawn = p.drawn
           /\ q.selected = S /\ q.last = S
           /\ Wanted(p) \subseteq Wanted(q)
           /\ \A w \in Wanted(q) \ Wanted(p) :
                 \E s \in Sectors : S = {s} /\ w \in {<<"overlay", s>>, <<"coverage", s>>}
           /\ \A s \in Sectors : S = {s} =>
                 <<"coverage", s>> \in Wanted(q) /\ (S # p.last => <<"overlay", s>> \in Wanted(q))
           /\ InTime(p) => InTime(q)
           /\ \A v : OneSave(v, p) => OneSave(v, q)
<1> DEFINE again  == S = p.last
           single == \E x \in Sectors : S = {x}
           s == CHOOSE x \in S : TRUE
           p1 == [p EXCEPT !.selected = S, !.last = S]
           p2 == IF single /\ again THEN SetVisible(p1, FALSE)
                 ELSE IF single THEN Ask(p1, "overlay", s)
                 ELSE IF Mast \in S /\ ~again THEN SetVisible(p1, FALSE) ELSE p1
           p3 == IF again THEN p2 ELSE RenderBuildings(p2)
<1>1. q = IF single THEN Ask(p3, "coverage", s) ELSE p3
  BY DEF SelectionChange, AccessPointStatus
<1>2. S \in Chosen
  BY DEF Pages, Chosen
<1>3. /\ p1 \in Pages /\ SameSpin(p, p1) /\ p1.known = p.known /\ p1.drawn = p.drawn
      /\ p1.selected = S /\ p1.last = S /\ SameAsks(p, p1)
  BY <1>2 DEF Pages, SameSpin, SameAsks
<1>4. single => s \in Sectors /\ S = {s}
  OBVIOUS
<1>5. \A x \in Sectors : S = {x} => single /\ x = s
  OBVIOUS
<1> DEFINE Alike(r) ==
      /\ r \in Pages /\ SameSpin(p1, r) /\ SameMap(p1, r)
      /\ InTime(p1) => InTime(r)
      /\ \A v : OneSave(v, p1) => OneSave(v, r)
<1> HIDE DEF s, single, p1, again
<1>6. Alike(p2) /\ Wanted(p2) = IF single /\ ~again THEN Wanted(p1) \cup {<<"overlay", s>>}
                                 ELSE Wanted(p1)
  <2>1. CASE p2 = SetVisible(p1, FALSE) /\ ~ (single /\ ~again)
    <3>1. PICK r : r = SetVisible(p1, FALSE)
      OBVIOUS
    <3>2. r \in Pages /\ SameSpin(p1, r) /\ SameMap(p1, r) /\ SameAsks(p1, r)
      BY <1>3, <3>1, SetVisibleChanges
    <3>3. Alike(r) /\ Wanted(r) = Wanted(p1)
      BY <3>2, SameAsksAreSame
    <3>4. QED
      BY <2>1, <3>1, <3>3
  <2>2. CASE single /\ ~again
    <3>1. PICK r : r = Ask(p1, "overlay", s)
      OBVIOUS
    <3>3. Alike(r) /\ AsksAlso(p1, r, "overlay", s)
      BY <1>3, <1>4, <2>2, <3>1, AskOtherChanges
    <3>4. QED
      BY <2>2, <3>1, <3>3 DEF AsksAlso
  <2>3. CASE p2 = p1 /\ ~single
    BY <1>3, <2>3 DEF SameSpin, SameMap
  <2>4. QED
    BY <2>1, <2>2, <2>3
<1> HIDE DEF p2
<1>7. Alike(p3) /\ Wanted(p3) = Wanted(p2)
  <2>1. CASE ~again
    <3>1. PICK r : r = RenderBuildings(p2)
      OBVIOUS
    <3>2. r \in Pages /\ SameSpin(p2, r) /\ SameMap(p2, r) /\ SameAsks(p2, r)
      BY <1>6, <3>1, RenderChanges
    <3>3. Alike(r) /\ Wanted(r) = Wanted(p2)
      BY <1>6, <3>2, SameAsksAreSame DEF SameSpin, SameMap
    <3>4. QED
      BY <2>1, <3>1, <3>3
  <2>2. CASE again
    BY <1>6, <2>2
  <2>3. QED
    BY <2>1, <2>2
<1> HIDE DEF p3
<1>8. Alike(q) /\ Wanted(q) = IF single THEN Wanted(p3) \cup {<<"coverage", s>>} ELSE Wanted(p3)
  <2>1. CASE single
    <3>1. q = Ask(p3, "coverage", s) /\ s \in Sectors /\ p3 \in Pages
      BY <1>1, <1>4, <1>7, <2>1
    <3>2. "coverage" \in {"read", "overlay", "coverage", "delete"}
      OBVIOUS
    <3>3. /\ q \in Pages /\ SameMap(p3, q) /\ SameSpin(p3, q)
          /\ AsksAlso(p3, q, "coverage", s)
          /\ InTime(p3) => InTime(q)
          /\ \A v : OneSave(v, p3) => OneSave(v, q)
      BY <3>1, <3>2, AskOtherChanges
    <3>4. QED
      BY <1>7, <2>1, <3>3 DEF SameMap, SameSpin, AsksAlso
  <2>2. CASE ~single
    BY <1>1, <1>7, <2>2
  <2>3. QED
    BY <2>1, <2>2
<1>9. Wanted(p1) = Wanted(p) /\ (InTime(p) => InTime(p1)) /\ \A v : OneSave(v, p) => OneSave(v, p1)
  BY <1>3, SameAsksAreSame
<1>10. /\ q \in Pages /\ SameSpin(p, q) /\ q.known = p.known /\ q.drawn = p.drawn
       /\ q.selected = S /\ q.last = S
       /\ InTime(p) => InTime(q)
       /\ \A v : OneSave(v, p) => OneSave(v, q)
  BY <1>3, <1>8, <1>9 DEF SameSpin, SameMap
<1>11. /\ Wanted(p) \subseteq Wanted(q)
       /\ Wanted(q) \subseteq Wanted(p) \cup (IF single THEN {<<"overlay", s>>, <<"coverage", s>>}
                                              ELSE {})
       /\ single => <<"coverage", s>> \in Wanted(q) /\ (~again => <<"overlay", s>> \in Wanted(q))
  BY <1>6, <1>7, <1>8, <1>9
<1>12. /\ \A w \in Wanted(q) \ Wanted(p) :
              \E x \in Sectors : S = {x} /\ w \in {<<"overlay", x>>, <<"coverage", x>>}
       /\ \A x \in Sectors : S = {x} =>
              <<"coverage", x>> \in Wanted(q) /\ (S # p.last => <<"overlay", x>> \in Wanted(q))
  <2>1. \A w \in Wanted(q) \ Wanted(p) : single /\ w \in {<<"overlay", s>>, <<"coverage", s>>}
    BY <1>11
  <2>2. QED
    BY <1>4, <1>5, <1>11, <2>1 DEF again
<1>13. QED
  BY <1>10, <1>11, <1>12

\* A sector was read after it was saved: its tiles are asked for, what is held of its
\* buildings is forgotten.
LEMMA ReadChanges ==
    ASSUME NEW p \in Pages, NEW s \in Sectors, NEW q, q = SectorRead(p, s)
    PROVE  /\ q \in Pages /\ SameMap(p, q) /\ SameSpin(p, q) /\ q.overlay = p.overlay
           /\ Wanted(p) \subseteq Wanted(q) /\ Wanted(q) \subseteq Wanted(p) \cup {<<"overlay", s>>}
           /\ InTime(p) => InTime(q)
           /\ \A v : OneSave(v, p) => OneSave(v, q)
           /\ SameDraw(p, q) \/
                 /\ \A x \in Sectors \ {s} : q.held[x] = p.held[x]
                 /\ \A x \in Sectors : p.selected = {x} /\ x \in p.known =>
                       x \in DOMAIN q.shown /\ q.shown[x] = p.held[x]
<1>1. CASE s \notin p.drawn
  <2>1. q = p
    BY <1>1 DEF SectorRead
  <2>2. QED
    BY <2>1 DEF SameMap, SameSpin, SameDraw
<1>2. CASE s \in p.drawn
  <2>1. PICK a : a = Ask(p, "overlay", s)
    OBVIOUS
  <2>3. /\ a \in Pages /\ SameMap(p, a) /\ SameSpin(p, a) /\ SameDraw(p, a)
        /\ a.overlay = p.overlay /\ AsksAlso(p, a, "overlay", s)
        /\ InTime(p) => InTime(a)
        /\ \A v : OneSave(v, p) => OneSave(v, a)
    BY <2>1, AskOtherChanges
  <2>4. PICK b : b = RenderBuildings(a)
    OBVIOUS
  <2>5. /\ b \in Pages /\ SameMap(a, b) /\ SameSpin(a, b) /\ SameAsks(a, b)
        /\ b.held = a.held /\ b.overlay = a.overlay
        /\ \A x \in Sectors : a.selected = {x} /\ x \in a.known =>
              x \in DOMAIN b.shown /\ b.shown[x] = a.held[x]
    BY <2>3, <2>4, RenderChanges
  <2> DEFINE h == [b.held EXCEPT ![s] = NoCoverage]
  <2>6. q = [b EXCEPT !.held = h]
    BY <1>2, <2>1, <2>4 DEF SectorRead
  <2>7. b.held \in [Sectors -> Replies] /\ NoCoverage \in Replies
    BY <2>5 DEF Pages, NoCoverage, Replies, Coverages
  <2>8. h \in [Sectors -> Replies] /\ \A x \in Sectors \ {s} : h[x] = b.held[x]
    BY <2>7
  <2> HIDE DEF h
  <2>9. /\ q \in Pages /\ SameMap(b, q) /\ SameSpin(b, q) /\ SameAsks(b, q)
        /\ q.held = h /\ q.overlay = b.overlay /\ q.shown = b.shown
    BY <2>5, <2>6, <2>8 DEF Pages, SameMap, SameSpin, SameAsks
  <2>10. /\ Wanted(q) = Wanted(a) /\ (InTime(a) => InTime(q))
         /\ \A v : OneSave(v, a) => OneSave(v, q)
    BY <2>5, <2>9, SameAsksAreSame DEF SameAsks
  <2>11. /\ \A x \in Sectors \ {s} : q.held[x] = p.held[x]
         /\ \A x \in Sectors : p.selected = {x} /\ x \in p.known =>
               x \in DOMAIN q.shown /\ q.shown[x] = p.held[x]
    BY <2>3, <2>5, <2>8, <2>9 DEF SameMap, SameDraw
  <2>12. /\ SameMap(p, q) /\ SameSpin(p, q) /\ q.overlay = p.overlay
    BY <2>3, <2>5, <2>9 DEF SameMap, SameSpin
  <2>13. QED
    BY <2>3, <2>9, <2>10, <2>11, <2>12 DEF AsksAlso
<1>3. QED
  BY <1>1, <1>2

\* A sector is deleted from the map.
LEMMA DeletionChanges ==
    ASSUME NEW p \in Pages, NEW s \in Sectors, NEW q, q = SectorDelete(p, s)
    PROVE  /\ q \in Pages /\ SameSpin(p, q) /\ q.known = p.known /\ q.last = p.last
           /\ q.drawn = p.drawn \ {s} /\ q.selected = p.selected \ {s}
           /\ Wanted(q) = Wanted(p) \cup {<<"delete", s>>}
           /\ InTime(p) => InTime(q)
           /\ \A v : OneSave(v, p) => OneSave(v, q)
<1> DEFINE a == [p EXCEPT !.drawn = p.drawn \ {s}, !.selected = p.selected \ {s}]
           b == IF s \in a.overlay.of THEN SetVisible(a, FALSE) ELSE a
<1>1. /\ a \in Pages /\ SameSpin(p, a) /\ SameAsks(p, a) /\ a.known = p.known /\ a.last = p.last
      /\ a.drawn = p.drawn \ {s} /\ a.selected = p.selected \ {s}
  BY DEF Pages, Chosen, SameSpin, SameAsks
<1>2. q = Ask(RenderBuildings(b), "delete", s)
  BY DEF SectorDelete
<1> HIDE DEF a
<1>3. b \in Pages /\ SameSpin(a, b) /\ SameAsks(a, b) /\ SameMap(a, b)
  <2>1. PICK r : r = SetVisible(a, FALSE)
    OBVIOUS
  <2>2. r \in Pages /\ SameSpin(a, r) /\ SameAsks(a, r) /\ SameMap(a, r)
    BY <1>1, <2>1, SetVisibleChanges
  <2>3. SameSpin(a, a) /\ SameAsks(a, a) /\ SameMap(a, a)
    BY DEF SameSpin, SameAsks, SameMap
  <2>4. QED
    BY <1>1, <2>1, <2>2, <2>3
<1> HIDE DEF b
<1>4. PICK c : c = RenderBuildings(b)
  OBVIOUS
<1>5. c \in Pages /\ SameSpin(b, c) /\ SameAsks(b, c) /\ SameMap(b, c)
  BY <1>3, <1>4, RenderChanges
<1>6. q = Ask(c, "delete", s) /\ c \in Pages
  BY <1>2, <1>4, <1>5
<1>7. /\ q \in Pages /\ SameMap(c, q) /\ SameSpin(c, q)
      /\ AsksAlso(c, q, "delete", s)
      /\ InTime(c) => InTime(q)
      /\ \A v : OneSave(v, c) => OneSave(v, q)
  BY <1>6, AskOtherChanges
<1>8. SameAsks(p, c)
  BY <1>1, <1>3, <1>5 DEF SameAsks
<1>9. /\ Wanted(c) = Wanted(p) /\ (InTime(p) => InTime(c))
      /\ \A v : OneSave(v, p) => OneSave(v, c)
  BY <1>8, SameAsksAreSame
<1>10. QED
  BY <1>1, <1>3, <1>5, <1>7, <1>9 DEF SameSpin, SameMap, AsksAlso

\* What a message changes.
Heard(p, q, m) ==
    /\ q \in Pages /\ SameMap(p, q) /\ SameDraw(p, q)
    /\ Wanted(p) \subseteq Wanted(q)
    /\ Wanted(q) \subseteq Wanted(p) \cup {<<"coverage", m.sector>>}
    /\ m.type = "complete" => <<"coverage", m.sector>> \in Wanted(q)
    /\ InTime(p) => InTime(q)
    /\ \A v : OneSave(v, p) => OneSave(v, q)
    /\ m.type # "viewshed" \/ m.sector \notin p.selected => q.overlay = p.overlay
    /\ m.type = "viewshed" /\ m.sector \in p.selected =>
          /\ q.overlay.of = {m.sector} /\ q.overlay.version = m.version
          /\ q.overlay.visible
    /\ q.loading = CASE m.type = "progress" -> p.loading \cup {m.sector}
                     [] m.type = "complete" -> p.loading \ {m.sector}
                     [] OTHER -> p.loading
    /\ p.spinning = p.loading /\ p.known = Sectors => q.spinning = q.loading

\* A message is heard.
LEMMA ToldChanges ==
    ASSUME NEW p \in Pages, NEW m \in News, NEW q, q = Told(p, m)
    PROVE  Heard(p, q, m)
<1> DEFINE s == m.sector
<1>1. /\ s \in Sectors /\ m.version \in Nat
      /\ m.type \in {"progress", "viewshed", "status", "complete"}
  BY DEF News
<1>2. p.loading \in SUBSET Sectors /\ p.loading \cup {s} \in SUBSET Sectors
         /\ p.loading \ {s} \in SUBSET Sectors
  BY <1>1 DEF Pages
<1>3. /\ SameMap(p, p) /\ SameDraw(p, p) /\ SameAsks(p, p)
      /\ \A v : OneSave(v, p) => OneSave(v, p)
  BY DEF SameMap, SameDraw, SameAsks
<1> HIDE DEF s
<1>4. CASE m.type = "progress"
  <2> SUFFICES /\ q \in Pages /\ SameMap(p, q) /\ SameDraw(p, q) /\ SameAsks(p, q)
               /\ q.overlay = p.overlay /\ q.loading = p.loading \cup {s}
               /\ p.spinning = p.loading /\ p.known = Sectors => q.spinning = q.loading
    BY <1>4, SameAsksAreSame DEF s, Heard
  <2>1. CASE s \in p.loading
    <3>1. q = p /\ p.loading = p.loading \cup {s}
      BY <1>4, <2>1 DEF Told, s
    <3>2. QED
      BY <1>3, <3>1
  <2>2. CASE s \notin p.loading
    <3>1. q = UpdateSpinners([p EXCEPT !.loading = p.loading \cup {s}])
      BY <1>4, <2>2 DEF Told, s
    <3>2. /\ q \in Pages /\ SameMap(p, q) /\ SameDraw(p, q) /\ SameAsks(p, q)
          /\ q.overlay = p.overlay /\ q.loading = p.loading \cup {s}
          /\ p.loading \cup {s} \subseteq p.known => q.spinning = p.loading \cup {s}
      BY <1>2, <3>1, SpinnersChange
    <3>3. QED
      BY <1>2, <3>2
  <2>3. QED
    BY <2>1, <2>2
<1>5. CASE m.type = "viewshed"
  <2>1. q = UpdateViewshedImage(p, s, m.version) /\ m.version \in Replies
    BY <1>1, <1>5 DEF Told, s, Replies
  <2>2. /\ q \in Pages /\ SameMap(p, q) /\ SameSpin(p, q) /\ SameDraw(p, q) /\ SameAsks(p, q)
        /\ s \notin p.selected => q.overlay = p.overlay
        /\ s \in p.selected =>
              q.overlay.of = {s} /\ q.overlay.version = m.version /\ q.overlay.visible
    BY <1>1, <2>1, UpdateImageChanges
  <2>3. /\ Wanted(q) = Wanted(p) /\ (InTime(p) => InTime(q))
        /\ \A v : OneSave(v, p) => OneSave(v, q)
    BY <2>2, SameAsksAreSame
  <2>4. QED
    BY <1>5, <2>2, <2>3 DEF s, SameSpin, Heard
<1>6. CASE m.type = "status"
  <2>1. q = Ask(p, "coverage", s)
    BY <1>6 DEF Told, AccessPointStatus, s
  <2>2. /\ q \in Pages /\ SameMap(p, q) /\ SameSpin(p, q) /\ SameDraw(p, q)
        /\ q.overlay = p.overlay /\ AsksAlso(p, q, "coverage", s)
        /\ InTime(p) => InTime(q)
        /\ \A v : OneSave(v, p) => OneSave(v, q)
    BY <1>1, <2>1, AskOtherChanges
  <2>3. QED
    BY <1>6, <2>2 DEF s, SameSpin, AsksAlso, Heard
<1>7. CASE m.type = "complete"
  <2>1. PICK a : a = Ask(p, "coverage", s)
    OBVIOUS
  <2>2. /\ a \in Pages /\ SameMap(p, a) /\ SameSpin(p, a) /\ SameDraw(p, a)
        /\ a.overlay = p.overlay /\ AsksAlso(p, a, "coverage", s)
        /\ InTime(p) => InTime(a)
        /\ \A v : OneSave(v, p) => OneSave(v, a)
    BY <1>1, <2>1, AskOtherChanges
  <2>3. /\ q \in Pages /\ SameMap(a, q) /\ SameDraw(a, q) /\ SameAsks(a, q)
        /\ q.overlay = a.overlay /\ q.loading = p.loading \ {s}
        /\ p.spinning = p.loading /\ p.known = Sectors => q.spinning = q.loading
    <3>1. a.loading = p.loading /\ a.spinning = p.spinning /\ a.known = p.known
      BY <2>2 DEF SameSpin, SameMap
    <3>2. CASE s \notin p.loading
      <4>1. q = a /\ p.loading = p.loading \ {s}
        BY <1>7, <2>1, <3>1, <3>2 DEF Told, AccessPointStatus, s
      <4>2. QED
        BY <2>2, <3>1, <4>1 DEF SameMap, SameDraw, SameAsks
    <3>3. CASE s \in p.loading
      <4>1. q = UpdateSpinners([a EXCEPT !.loading = p.loading \ {s}])
        BY <1>7, <2>1, <3>1, <3>3 DEF Told, AccessPointStatus, s
      <4>2. /\ q \in Pages /\ SameMap(a, q) /\ SameDraw(a, q) /\ SameAsks(a, q)
            /\ q.overlay = a.overlay /\ q.loading = p.loading \ {s}
            /\ p.loading \ {s} \subseteq a.known => q.spinning = p.loading \ {s}
        BY <1>2, <2>2, <4>1, SpinnersChange, ZenonT(60)
      <4>3. QED
        BY <1>2, <3>1, <4>2
    <3>4. QED
      BY <3>2, <3>3
  <2>4. /\ Wanted(q) = Wanted(a) /\ (InTime(a) => InTime(q))
        /\ \A v : OneSave(v, a) => OneSave(v, q)
    BY <2>3, SameAsksAreSame
  <2>5. SameMap(p, q) /\ SameDraw(p, q) /\ q.overlay = p.overlay
    BY <2>2, <2>3 DEF SameMap, SameDraw
  <2>6. QED
    BY <1>7, <2>2, <2>3, <2>4, <2>5 DEF s, AsksAlso, Heard
<1>8. QED
  BY <1>1, <1>4, <1>5, <1>6, <1>7

\* What an answer leaves alone: the selection and the spinners, always.
AnswerFrame(p, q, r) ==
    /\ q \in Pages /\ SameSpin(p, q)
    /\ q.drawn = p.drawn /\ q.selected = p.selected /\ q.last = p.last
    /\ q.known = IF r.op = "delete" THEN p.known \ {r.sector} ELSE p.known
    /\ Wanted(p) \subseteq Wanted(q)
    /\ Wanted(q) \subseteq Wanted(p)
                               \cup (IF r.op \in FormAsks THEN {<<"read", r.sector>>} ELSE {})
                               \cup (IF r.op = "read" THEN {<<"overlay", r.sector>>} ELSE {})
    /\ InTime(p) => InTime(q)
    /\ \A v : OneSave(v, p) => OneSave(v, q)

\* What it does to the tiles, and to the buildings of the one sector selected.
AnswerDraws(p, q, r) ==
    /\ r.op # "overlay" => q.overlay = p.overlay
    /\ r.op = "overlay" /\ r.reply # 0 /\ r.sector \in p.selected =>
          q.overlay.of = {r.sector} /\ q.overlay.version = r.reply /\ q.overlay.visible
    /\ r.op = "coverage" /\ r.reply # NoCoverage /\ p.selected = {r.sector}
             /\ r.sector \in p.known => HeldAndShown(q, r.sector, r.reply)
    /\ \A x \in Sectors : \A c :
          p.selected = {x} /\ x \in q.known /\ HeldAndShown(p, x, c)
             /\ (x = r.sector => r.op \notin {"read", "coverage"})
          => HeldAndShown(q, x, c)

\* A page with the same requests and map is framed.
LEMMA AnswerFrameChains ==
    ASSUME NEW p, NEW a, NEW q, NEW r,
           a \in Pages, SameMap(p, a), SameSpin(p, a), Wanted(a) = Wanted(p),
           InTime(p) => InTime(a), \A v : OneSave(v, p) => OneSave(v, a)
    PROVE  r.op # "delete" => AnswerFrame(p, a, r)
  BY DEF AnswerFrame, SameMap, SameSpin

\* An answer is handled.
LEMMA AnswerChanges ==
    ASSUME NEW p \in Pages, NEW r \in PageAsk, NEW q, q = Answered(p, r)
    PROVE  AnswerFrame(p, q, r) /\ AnswerDraws(p, q, r)
<1> DEFINE s == r.sector
<1>1. /\ s \in Sectors /\ r.reply \in Replies
      /\ r.op \in {"save", "rename", "read", "overlay", "coverage", "delete"}
  BY DEF PageAsk
<1>2. AnswerFrame(p, p, r) \/ r.op = "delete"
  BY DEF AnswerFrame, SameSpin
<1>3. AnswerDraws(p, p, r) \/ r.op \in {"overlay", "coverage"}
  BY DEF AnswerDraws
<1> HIDE DEF s
<1>4. CASE r.op \in FormAsks
  <2>1. r.op \in {"save", "rename"}
    BY <1>4 DEF FormAsks
  <2>2. CASE r.reply = "ok"
    <3>1. q = Ask(p, "read", s)
      BY <2>1, <2>2 DEF Answered, s
    <3>2. /\ q \in Pages /\ SameMap(p, q) /\ SameSpin(p, q) /\ SameDraw(p, q)
          /\ q.overlay = p.overlay /\ AsksAlso(p, q, "read", s)
          /\ InTime(p) => InTime(q)
          /\ \A v : OneSave(v, p) => OneSave(v, q)
      BY <1>1, <3>1, AskOtherChanges
    <3>3. AnswerFrame(p, q, r)
      BY <1>4, <2>1, <3>2 DEF AnswerFrame, SameMap, SameSpin, AsksAlso, s
    <3>4. AnswerDraws(p, q, r)
      BY <2>1, <3>2 DEF AnswerDraws, HeldAndShown, SameDraw
    <3>5. QED
      BY <3>3, <3>4
  <2>3. CASE r.reply # "ok"
    <3>1. q = p
      BY <2>1, <2>3 DEF Answered
    <3>2. QED
      BY <1>2, <1>3, <2>1, <3>1
  <2>4. QED
    BY <2>2, <2>3
<1>5. CASE r.op = "read"
  <2>1. CASE r.reply = "ok"
    <3>1. q = SectorRead(p, s)
      BY <1>5, <2>1 DEF Answered, s
    <3>2. /\ q \in Pages /\ SameMap(p, q) /\ SameSpin(p, q) /\ q.overlay = p.overlay
          /\ Wanted(p) \subseteq Wanted(q) /\ Wanted(q) \subseteq Wanted(p) \cup {<<"overlay", s>>}
          /\ InTime(p) => InTime(q)
          /\ \A v : OneSave(v, p) => OneSave(v, q)
          /\ SameDraw(p, q) \/
                /\ \A x \in Sectors \ {s} : q.held[x] = p.held[x]
                /\ \A x \in Sectors : p.selected = {x} /\ x \in p.known =>
                      x \in DOMAIN q.shown /\ q.shown[x] = p.held[x]
      BY <1>1, <3>1, ReadChanges
    <3>3. AnswerFrame(p, q, r)
      BY <1>5, <3>2 DEF AnswerFrame, SameMap, SameSpin, s
    <3>4. ASSUME NEW x \in Sectors, NEW c, p.selected = {x}, x \in q.known,
                 HeldAndShown(p, x, c), x # s
          PROVE  HeldAndShown(q, x, c)
      BY <3>2, <3>4 DEF HeldAndShown, SameDraw, SameMap
    <3>5. AnswerDraws(p, q, r)
      BY <1>5, <3>2, <3>4 DEF AnswerDraws, s
    <3>6. QED
      BY <3>3, <3>5
  <2>2. CASE r.reply # "ok"
    <3>1. q = p
      BY <1>5, <2>2 DEF Answered
    <3>2. QED
      BY <1>2, <1>3, <1>5, <3>1
  <2>3. QED
    BY <2>1, <2>2
<1>6. CASE r.op = "overlay"
  <2> SUFFICES /\ q \in Pages /\ SameMap(p, q) /\ SameSpin(p, q) /\ SameDraw(p, q)
               /\ SameAsks(p, q)
               /\ r.reply # 0 /\ s \in p.selected =>
                     q.overlay.of = {s} /\ q.overlay.version = r.reply /\ q.overlay.visible
    <3>1. /\ Wanted(q) = Wanted(p) /\ (InTime(p) => InTime(q))
          /\ \A v : OneSave(v, p) => OneSave(v, q)
      BY SameAsksAreSame
    <3>2. AnswerFrame(p, q, r)
      BY <1>6, <3>1, AnswerFrameChains
    <3>3. AnswerDraws(p, q, r)
      BY <1>6 DEF AnswerDraws, HeldAndShown, SameDraw, s
    <3>4. QED
      BY <3>2, <3>3
  <2>1. CASE r.reply = 0
    <3>1. q = SetVisible(p, FALSE)
      BY <1>6, <2>1 DEF Answered
    <3>2. QED
      BY <2>1, <3>1, SetVisibleChanges
  <2>2. CASE r.reply # 0
    <3>1. q = UpdateViewshedImage(p, s, r.reply)
      BY <1>6, <2>2 DEF Answered, s
    <3>2. QED
      BY <1>1, <3>1, UpdateImageChanges
  <2>3. QED
    BY <2>1, <2>2
<1>7. CASE r.op = "coverage"
  <2>1. CASE r.reply = NoCoverage
    <3>1. q = p
      BY <1>7, <2>1 DEF Answered
    <3>2. AnswerDraws(p, p, r)
      BY <1>7, <2>1 DEF AnswerDraws
    <3>3. QED
      BY <1>2, <1>7, <3>1, <3>2
  <2>2. CASE r.reply # NoCoverage
    <3> DEFINE h == IF s \in p.known THEN [p.held EXCEPT ![s] = r.reply] ELSE p.held
    <3>1. PICK a : a = [p EXCEPT !.held = h]
      OBVIOUS
    <3>2. p.held \in [Sectors -> Replies]
      BY DEF Pages
    <3>3. /\ h \in [Sectors -> Replies] /\ \A x \in Sectors \ {s} : h[x] = p.held[x]
          /\ s \in p.known => h[s] = r.reply
      BY <1>1, <3>2
    <3>4. q = RenderBuildings(a)
      <4>1. p = [p EXCEPT !.held = p.held]
        BY DEF Pages
      <4>2. QED
        BY <1>7, <2>2, <3>1, <4>1 DEF Answered, s
    <3> HIDE DEF h
    <3>5. /\ a \in Pages /\ SameMap(p, a) /\ SameSpin(p, a) /\ SameAsks(p, a)
          /\ a.overlay = p.overlay /\ a.held = h
      BY <3>1, <3>3 DEF Pages, SameMap, SameSpin, SameAsks
    <3>6. /\ q \in Pages /\ SameMap(a, q) /\ SameSpin(a, q) /\ SameAsks(a, q)
          /\ q.held = a.held /\ q.overlay = a.overlay
          /\ \A x \in Sectors : a.selected = {x} /\ x \in a.known =>
                x \in DOMAIN q.shown /\ q.shown[x] = a.held[x]
      BY <3>4, <3>5, RenderChanges
    <3>7. SameMap(p, q) /\ SameSpin(p, q) /\ SameAsks(p, q) /\ q.overlay = p.overlay
      BY <3>5, <3>6 DEF SameMap, SameSpin, SameAsks
    <3>8. /\ Wanted(q) = Wanted(p) /\ (InTime(p) => InTime(q))
          /\ \A v : OneSave(v, p) => OneSave(v, q)
      BY <3>7, SameAsksAreSame
    <3>9. AnswerFrame(p, q, r)
      BY <1>7, <3>6, <3>7, <3>8, AnswerFrameChains
    <3>10. \A x \in Sectors : p.selected = {x} /\ x \in p.known =>
              HeldAndShown(q, x, h[x])
      BY <3>5, <3>6 DEF HeldAndShown, SameMap
    <3>11. ASSUME p.selected = {s}, s \in p.known PROVE HeldAndShown(q, s, r.reply)
      BY <1>1, <3>3, <3>10, <3>11
    <3>12. ASSUME NEW x \in Sectors, NEW c, p.selected = {x}, x \in q.known,
                  HeldAndShown(p, x, c), x # s
           PROVE  HeldAndShown(q, x, c)
      <4>1. h[x] = c
        BY <3>3, <3>12 DEF HeldAndShown
      <4>2. QED
        BY <3>7, <3>10, <3>12, <4>1 DEF SameMap
    <3>13. AnswerDraws(p, q, r)
      BY <1>7, <3>7, <3>11, <3>12 DEF AnswerDraws, s
    <3>14. QED
      BY <3>9, <3>13
  <2>3. QED
    BY <2>1, <2>2
<1>8. CASE r.op = "delete"
  <2>1. PICK a : a = [p EXCEPT !.known = p.known \ {s}]
    OBVIOUS
  <2>2. /\ a \in Pages /\ SameSpin(p, a) /\ SameAsks(p, a) /\ SameDraw(p, a)
        /\ a.drawn = p.drawn /\ a.selected = p.selected /\ a.last = p.last
        /\ a.overlay = p.overlay /\ a.known = p.known \ {s}
    BY <2>1 DEF Pages, SameSpin, SameAsks, SameDraw
  <2>3. q = RenderBuildings(a)
    BY <1>8, <2>1 DEF Answered, s
  <2>4. /\ q \in Pages /\ SameMap(a, q) /\ SameSpin(a, q) /\ SameAsks(a, q)
        /\ q.held = a.held /\ q.overlay = a.overlay
        /\ \A x \in Sectors : a.selected = {x} /\ x \in a.known =>
              x \in DOMAIN q.shown /\ q.shown[x] = a.held[x]
    BY <2>2, <2>3, RenderChanges
  <2>5. SameSpin(p, q) /\ SameAsks(p, q)
    BY <2>2, <2>4 DEF SameSpin, SameAsks
  <2>6. /\ Wanted(q) = Wanted(p) /\ (InTime(p) => InTime(q))
        /\ \A v : OneSave(v, p) => OneSave(v, q)
    BY <2>5, SameAsksAreSame
  <2>7. AnswerFrame(p, q, r)
    BY <1>8, <2>2, <2>4, <2>5, <2>6 DEF AnswerFrame, SameMap, s
  <2>8. ASSUME NEW x \in Sectors, NEW c, p.selected = {x}, x \in q.known, HeldAndShown(p, x, c)
        PROVE  HeldAndShown(q, x, c)
    BY <2>2, <2>4, <2>8 DEF HeldAndShown, SameDraw, SameMap
  <2>9. AnswerDraws(p, q, r)
    BY <1>8, <2>2, <2>4, <2>8 DEF AnswerDraws
  <2>10. QED
    BY <2>7, <2>9
<1>9. QED
  BY <1>1, <1>4, <1>5, <1>6, <1>7, <1>8 DEF FormAsks

------------------------------------------------------------------------------
(* The coverage: the steps *)

\* What is to be shown of a step.
LEMMA DisplayKept ==
    ASSUME NEW v \in [Sectors -> SectorRow], NEW k \in Seq(News), NEW p \in Pages,
           server' = v, socket' = k, display' = p, sky' = sky,
           Grounded(v, p),
           SpinsAt => Spins(v, k, p),
           CoversAt => Covers(v, k, p),
           OverliesAt => Overlies(v, k, p)
    PROVE  DisplayInv'
<1>1. DisplayTypeOK'
  BY DEF DisplayTypeOK
<1>2. Grounded(server, display)'
  BY DEF Grounded
<1>3. (SpinsAt => Spins(server, socket, display))'
  BY DEF SpinsAt
<1>4. (CoversAt => Covers(server, socket, display))'
  BY DEF CoversAt
<1>5. (OverliesAt => Overlies(server, socket, display))'
  BY DEF OverliesAt
<1>6. QED
  BY <1>1, <1>2, <1>3, <1>4, <1>5 DEF DisplayInv

\* The user selects.
LEMMA SelectKeeps ==
    ASSUME DisplayInv, NEW S \in SUBSET (display.drawn \cup {Mast}), Select(S)
    PROVE  DisplayInv'
<1> DEFINE v == server
           k == socket
           p == display
<1>1. PICK q : q = SelectionChange(p, S)
  OBVIOUS
<1>2. v \in [Sectors -> SectorRow] /\ k \in Seq(News) /\ p \in Pages
  BY DEF DisplayInv, DisplayTypeOK
<1>3. /\ server' = v /\ socket' = k /\ display' = q /\ sky' = sky
      /\ S # p.selected \/ "restless" \in sky
      /\ Mast \in S => "restless" \in sky
  BY <1>1 DEF Select, UserMoves
<1>4. /\ q \in Pages /\ SameSpin(p, q) /\ q.known = p.known /\ q.drawn = p.drawn
      /\ S \subseteq p.drawn \cup {Mast}
      /\ q.selected = S /\ q.last = S
      /\ Wanted(p) \subseteq Wanted(q)
      /\ \A w \in Wanted(q) \ Wanted(p) :
            \E s \in Sectors : S = {s} /\ w \in {<<"overlay", s>>, <<"coverage", s>>}
      /\ \A s \in Sectors : S = {s} =>
            <<"coverage", s>> \in Wanted(q) /\ (S # p.last => <<"overlay", s>> \in Wanted(q))
      /\ InTime(p) => InTime(q)
      /\ \A x : OneSave(x, p) => OneSave(x, q)
  BY <1>1, <1>2, SelectionChanges
<1>5. Grounded(v, p) /\ (SpinsAt => Spins(v, k, p))
         /\ (CoversAt => Covers(v, k, p)) /\ (OverliesAt => Overlies(v, k, p))
  BY DEF DisplayInv
<1> HIDE DEF v, k, p
<1>6. \A op \in {"save", "rename", "read", "delete"} : \A s \in Sectors :
          <<op, s>> \in Wanted(q) => <<op, s>> \in Wanted(p)
  BY <1>4
<1>7. Grounded(v, q)
  <2>1. p.drawn \subseteq Sectors
    BY <1>2 DEF Pages
  <2>2. DrawnAreThere(v, q)
    BY <1>4, <1>5, <1>6, <2>1 DEF Grounded, DrawnAreThere
  <2>3. QED
    BY <1>4, <1>5, <2>2 DEF Grounded
<1>8. ASSUME SpinsAt PROVE Spins(v, k, q)
  BY <1>4, <1>5, <1>6, <1>8 DEF Spins, SameSpin
<1>9. ASSUME CoversAt PROVE Covers(v, k, q)
  <2>1. ASSUME NEW s \in Sectors, SoleOf(q, s) PROVE CoverageDue(v, k, q, s)
    BY <1>4, <2>1 DEF SoleOf, CoverageDue
  <2>2. QED
    BY <1>5, <1>6, <1>9, <2>1 DEF Covers
<1>10. ASSUME OverliesAt PROVE Overlies(v, k, q)
  <2>1. "restless" \notin sky
    BY <1>10 DEF OverliesAt
  <2>2. S \subseteq p.drawn /\ S # p.selected
    BY <1>3, <1>4, <2>1
  <2>3. Overlies(v, k, p)
    BY <1>5, <1>10
  <2>4. ASSUME NEW s \in Sectors, SoleOf(q, s) PROVE OverlayDue(v, k, q, s)
    <3>1. S = {s} /\ s \in p.drawn
      BY <1>4, <2>2, <2>4 DEF SoleOf
    <3>2. S # p.last
      BY <2>2, <2>3, <3>1 DEF Overlies
    <3>3. QED
      BY <1>4, <3>1, <3>2 DEF OverlayDue
  <2>5. p.ajax = <<>>
    BY <2>1 DEF Select, UserMoves, p
  <2>6. Wanted(p) = {}
    BY <2>5 DEF Wanted
  <2>7. ASSUME NEW op \in FormAsks \cup {"read", "overlay"}, NEW s \in Sectors,
               <<op, s>> \in Wanted(q)
        PROVE  s \in q.selected
    BY <1>4, <2>6, <2>7
  <2>8. q.last \cap q.drawn = q.selected
    BY <1>4, <2>2
  <2>9. QED
    BY <2>3, <2>4, <2>7, <2>8 DEF Overlies
<1>11. QED
  BY <1>2, <1>3, <1>4, <1>7, <1>8, <1>9, <1>10, DisplayKept

\* The user posts a form.
LEMMA SubmitKeeps ==
    ASSUME DisplayInv, NEW s \in display.drawn, NEW form \in {"save", "rename"},
           Submit(s, form)
    PROVE  DisplayInv'
<1> DEFINE v == server
           k == socket
           p == display
<1>1. PICK q : q = Ask(p, form, s)
  OBVIOUS
<1>2. v \in [Sectors -> SectorRow] /\ k \in Seq(News) /\ p \in Pages
  BY DEF DisplayInv, DisplayTypeOK
<1>3. /\ server' = v /\ socket' = k /\ display' = q /\ sky' = sky
      /\ form = "rename" => "rename" \in sky
      /\ s \in p.selected /\ v[s].task = "none"
  BY <1>1 DEF Submit, UserMoves
<1>4. s \in Sectors
  BY <1>2 DEF Pages
<1>5. form \in FormAsks
  BY DEF FormAsks
<1>6. /\ q \in Pages /\ SameMap(p, q) /\ SameSpin(p, q) /\ SameDraw(p, q)
      /\ q.overlay = p.overlay /\ AsksAlso(p, q, form, s)
      /\ InTime(p) => InTime(q)
      /\ \A x : MayAsk(x, p, form, s) /\ OneSave(x, p) => OneSave(x, q)
  BY <1>1, <1>2, <1>4, AskChanges
<1>7. Grounded(v, p) /\ (SpinsAt => Spins(v, k, p))
         /\ (CoversAt => Covers(v, k, p)) /\ (OverliesAt => Overlies(v, k, p))
  BY DEF DisplayInv
<1>8. MayAsk(v, p, form, s)
  <2>1. ASSUME NEW op \in FormAsks, <<op, s>> \in Wanted(p) PROVE FALSE
    <3>1. PICK i \in 1 .. Len(p.ajax) : p.ajax[i].op = op /\ p.ajax[i].sector = s
      BY <2>1 DEF Wanted
    <3>2. Saving(s)
      BY <2>1, <3>1 DEF Saving, FormAsks
    <3>3. QED
      BY <3>2 DEF Submit
  <2>2. QED
    BY <1>3, <2>1 DEF MayAsk
<1> HIDE DEF v, k, p
<1>9. Wanted(q) = Wanted(p) \cup {<<form, s>>} /\ Wanted(p) \subseteq Wanted(q)
  BY <1>6 DEF AsksAlso
<1>10. Grounded(v, q)
  <2>1. DrawnAreThere(v, q)
    BY <1>2, <1>6, <1>7, <1>9 DEF Grounded, DrawnAreThere, SameMap
  <2>2. OneSave(v, q)
    BY <1>6, <1>7, <1>8 DEF Grounded
  <2>3. QED
    BY <1>6, <1>7, <2>1, <2>2 DEF Grounded
<1>11. ASSUME SpinsAt PROVE Spins(v, k, q)
  BY <1>6, <1>7, <1>9, <1>11 DEF Spins, SameSpin, SameMap
<1>12. ASSUME CoversAt PROVE Covers(v, k, q)
  <2>1. form = "save"
    BY <1>3, <1>12 DEF CoversAt
  <2>2. ASSUME NEW x \in Sectors, SoleOf(q, x)
        PROVE  CoverageDue(v, k, q, x) \/ CoverageShown(v, q, x)
    <3>1. SoleOf(p, x)
      BY <1>6, <2>2 DEF SoleOf, SameMap
    <3>2. CoverageDue(v, k, p, x) \/ CoverageShown(v, p, x)
      BY <1>7, <1>12, <3>1 DEF Covers
    <3>3. QED
      BY <1>6, <1>9, <3>2 DEF CoverageDue, CoverageShown, HeldAndShown, SameDraw
  <2>3. QED
    BY <1>7, <1>9, <1>12, <2>1, <2>2 DEF Covers
<1>13. ASSUME OverliesAt PROVE Overlies(v, k, q)
  <2>1. Overlies(v, k, p)
    BY <1>7, <1>13
  <2>2. ASSUME NEW x \in Sectors, SoleOf(q, x)
        PROVE  OverlayDue(v, k, q, x) \/ OverlayShown(v, q, x)
    <3>1. SoleOf(p, x)
      BY <1>6, <2>2 DEF SoleOf, SameMap
    <3>2. OverlayDue(v, k, p, x) \/ OverlayShown(v, p, x)
      BY <2>1, <3>1 DEF Overlies
    <3>3. QED
      BY <1>6, <1>9, <3>2 DEF OverlayDue, OverlayShown
  <2>3. \A op \in FormAsks \cup {"read", "overlay"} : \A x \in Sectors :
            <<op, x>> \in Wanted(q) => x \in q.selected
    BY <1>3, <1>6, <1>9, <2>1 DEF Overlies, SameMap
  <2>4. QED
    BY <1>6, <2>1, <2>2, <2>3 DEF Overlies, SameMap
<1>14. QED
  BY <1>2, <1>3, <1>6, <1>10, <1>11, <1>12, <1>13, DisplayKept

\* The user deletes a sector.
LEMMA DeleteKeeps ==
    ASSUME DisplayInv, NEW s \in display.drawn, Delete(s)
    PROVE  DisplayInv'
<1> DEFINE v == server
           k == socket
           p == display
<1>1. PICK q : q = SectorDelete(p, s)
  OBVIOUS
<1>2. v \in [Sectors -> SectorRow] /\ k \in Seq(News) /\ p \in Pages
  BY DEF DisplayInv, DisplayTypeOK
<1>3. /\ server' = v /\ socket' = k /\ display' = q /\ sky' = sky
      /\ s \in p.selected /\ "delete" \in sky
      /\ "restless" \in sky \/ p.ajax = <<>>
  BY <1>1 DEF Delete, UserMoves
<1>4. s \in Sectors
  BY <1>2 DEF Pages
<1>5. /\ q \in Pages /\ SameSpin(p, q) /\ q.known = p.known /\ q.last = p.last
      /\ q.drawn = p.drawn \ {s} /\ q.selected = p.selected \ {s}
      /\ Wanted(q) = Wanted(p) \cup {<<"delete", s>>}
      /\ InTime(p) => InTime(q)
      /\ \A x : OneSave(x, p) => OneSave(x, q)
  BY <1>1, <1>2, <1>4, DeletionChanges
<1>6. Grounded(v, p)
         /\ (CoversAt => Covers(v, k, p)) /\ (OverliesAt => Overlies(v, k, p))
  BY DEF DisplayInv
<1> HIDE DEF v, k, p
<1>7. Grounded(v, q)
  <2>1. DrawnAreThere(v, q)
    BY <1>5, <1>6 DEF Grounded, DrawnAreThere
  <2>2. QED
    BY <1>5, <1>6, <2>1 DEF Grounded
<1>8. ASSUME NEW x \in Sectors PROVE ~ SoleOf(q, x)
  <2>1. p.selected \subseteq p.last
    BY <1>6 DEF Grounded, DrawnAreThere
  <2>2. QED
    BY <1>3, <1>5, <2>1 DEF SoleOf
<1>9. ~ SpinsAt
  BY <1>3 DEF SpinsAt
<1>10. ASSUME CoversAt PROVE Covers(v, k, q)
  BY <1>5, <1>6, <1>8, <1>10 DEF Covers
<1>11. ASSUME OverliesAt PROVE Overlies(v, k, q)
  <2>1. Overlies(v, k, p)
    BY <1>6, <1>11
  <2>2. p.ajax = <<>>
    BY <1>3, <1>11 DEF OverliesAt
  <2>3. Wanted(p) = {}
    BY <2>2 DEF Wanted
  <2>4. \A op \in FormAsks \cup {"read", "overlay"} : \A x \in Sectors : <<op, x>> \notin Wanted(q)
    BY <1>5, <2>3 DEF FormAsks
  <2>5. QED
    BY <1>5, <1>8, <2>1, <2>4 DEF Overlies
<1>12. QED
  BY <1>2, <1>3, <1>5, <1>7, <1>9, <1>10, <1>11, DisplayKept

\* The tiles are there.
LEMMA TilesKeep ==
    ASSUME DisplayInv, TilesLoaded
    PROVE  DisplayInv'
<1> DEFINE v == server
           k == socket
           p == display
<1>1. PICK a : a = [p EXCEPT !.overlay.tiles = FALSE]
  OBVIOUS
<1>2. PICK q : q = SetVisible(a, TRUE)
  OBVIOUS
<1>3. v \in [Sectors -> SectorRow] /\ k \in Seq(News) /\ p \in Pages
  BY DEF DisplayInv, DisplayTypeOK
<1>4. server' = v /\ socket' = k /\ display' = q /\ sky' = sky
  BY <1>1, <1>2 DEF TilesLoaded
<1>5. Grounded(v, p) /\ (SpinsAt => Spins(v, k, p))
         /\ (CoversAt => Covers(v, k, p)) /\ (OverliesAt => Overlies(v, k, p))
  BY DEF DisplayInv
<1> HIDE DEF v, k, p
<1>6. /\ a \in Pages /\ SameMap(p, a) /\ SameSpin(p, a) /\ SameDraw(p, a) /\ SameAsks(p, a)
      /\ a.overlay.of = p.overlay.of /\ a.overlay.version = p.overlay.version
      /\ a.overlay.visible = p.overlay.visible
  <2> DEFINE o == [p.overlay EXCEPT !.tiles = FALSE]
  <2>1. a = [p EXCEPT !.overlay = o]
    BY <1>1
  <2>2. p.overlay \in Overlays
    BY <1>3 DEF Pages
  <2>3. /\ o \in Overlays /\ o.of = p.overlay.of /\ o.version = p.overlay.version
        /\ o.visible = p.overlay.visible
    BY <2>2 DEF Overlays
  <2> HIDE DEF o
  <2>4. /\ a \in Pages /\ SameMap(p, a) /\ SameSpin(p, a) /\ SameDraw(p, a) /\ SameAsks(p, a)
        /\ a.overlay = o
    BY <1>3, <2>1, <2>3 DEF Pages, SameMap, SameSpin, SameDraw, SameAsks
  <2>5. QED
    BY <2>3, <2>4
<1>7. /\ q \in Pages /\ SameMap(a, q) /\ SameSpin(a, q) /\ SameDraw(a, q) /\ SameAsks(a, q)
      /\ q.overlay.of = a.overlay.of /\ q.overlay.version = a.overlay.version
      /\ a.overlay.visible => q.overlay.visible
  BY <1>2, <1>6, SetVisibleChanges
<1>8. SameMap(p, q) /\ SameSpin(p, q) /\ SameDraw(p, q) /\ SameAsks(p, q)
  BY <1>6, <1>7 DEF SameMap, SameSpin, SameDraw, SameAsks
<1>9. /\ Wanted(q) = Wanted(p) /\ (InTime(p) => InTime(q))
      /\ \A x : OneSave(x, p) => OneSave(x, q)
  BY <1>8, SameAsksAreSame
<1>10. Grounded(v, q)
  BY <1>5, <1>8, <1>9 DEF Grounded, DrawnAreThere, SameMap
<1>11. ASSUME SpinsAt PROVE Spins(v, k, q)
  BY <1>5, <1>8, <1>9, <1>11 DEF Spins, SameSpin, SameMap
<1>12. ASSUME CoversAt PROVE Covers(v, k, q)
  BY <1>5, <1>8, <1>9, <1>12
     DEF Covers, SoleOf, CoverageDue, CoverageShown, HeldAndShown, SameMap, SameDraw
<1>13. ASSUME OverliesAt PROVE Overlies(v, k, q)
  BY <1>5, <1>6, <1>7, <1>8, <1>9, <1>13
     DEF Overlies, SoleOf, OverlayDue, OverlayShown, SameMap
<1>14. QED
  BY <1>3, <1>4, <1>7, <1>10, <1>11, <1>12, <1>13, DisplayKept

\* The first message is taken off, the others move up.
MovesUp(k, l, m) ==
    /\ l \in Seq(News) /\ m \in News /\ 1 \in 1 .. Len(k) /\ k[1] = m
    /\ \A i \in 1 .. Len(l) : i + 1 \in 1 .. Len(k) /\ l[i] = k[i + 1]
    /\ \A type, s : \A n \in Nat : Says(k, type, s, n + 1) => Says(l, type, s, n)
    /\ \A type, s : Says(k, type, s, 0) =>
          Says(l, type, s, 0) \/ (m.type = type /\ m.sector = s)

\* Tail and Head do so.
LEMMA HeadTaken ==
    ASSUME NEW k \in Seq(News), k # <<>>, NEW l, l = Tail(k), NEW m, m = Head(k)
    PROVE  MovesUp(k, l, m)
<1>1. /\ l \in Seq(News) /\ m \in News /\ Len(l) = Len(k) - 1 /\ Len(k) \in Nat \ {0}
      /\ \A i \in 1 .. Len(l) : l[i] = k[i + 1]
  BY HeadTailProperties, EmptySeq
<1>2. k[1] = m
  BY <1>1
<1>3. \A i \in 1 .. Len(l) : i + 1 \in 1 .. Len(k) /\ l[i] = k[i + 1]
  BY <1>1
<1>4. \A i \in 1 .. Len(k) : i = 1 \/ (i - 1 \in 1 .. Len(l) /\ l[i - 1] = k[i])
  BY <1>1
<1>5. ASSUME NEW type, NEW s, NEW n \in Nat, Says(k, type, s, n + 1)
      PROVE  Says(l, type, s, n)
  <2>1. PICK i \in 1 .. Len(k) : i > n + 1 /\ k[i].type = type /\ k[i].sector = s
    BY <1>5 DEF Says
  <2>2. i - 1 \in 1 .. Len(l) /\ l[i - 1] = k[i] /\ i - 1 > n
    BY <1>4, <2>1
  <2>3. QED
    BY <2>1, <2>2 DEF Says
<1>6. ASSUME NEW type, NEW s, Says(k, type, s, 0), ~ Says(l, type, s, 0)
      PROVE  m.type = type /\ m.sector = s
  <2>1. PICK i \in 1 .. Len(k) : i > 0 /\ k[i].type = type /\ k[i].sector = s
    BY <1>6 DEF Says
  <2>2. CASE i = 1
    BY <1>2, <2>1, <2>2
  <2>3. CASE i # 1
    <3>1. i - 1 \in 1 .. Len(l) /\ l[i - 1] = k[i] /\ i - 1 > 0
      BY <1>4, <2>3
    <3>2. QED
      BY <1>6, <2>1, <3>1 DEF Says
  <2>4. QED
    BY <2>2, <2>3
<1>7. QED
  BY <1>1, <1>2, <1>3, <1>5, <1>6 DEF MovesUp

\* The page hears a message, or is not listening.
LEMMA HearKeeps ==
    ASSUME DisplayInv, Hear
    PROVE  DisplayInv'
<1> DEFINE v == server
           k == socket
           p == display
<1>1. PICK l : l = Tail(k)
  OBVIOUS
<1>2. PICK m : m = Head(k)
  OBVIOUS
<1>3. v \in [Sectors -> SectorRow] /\ k \in Seq(News) /\ p \in Pages
  BY DEF DisplayInv, DisplayTypeOK
<1>4. /\ server' = v /\ socket' = l /\ sky' = sky /\ k # <<>>
      /\ display' = Told(p, m) \/ ("disconnect" \in sky /\ display' = p)
  BY <1>1, <1>2 DEF Hear
<1>5. Grounded(v, p) /\ (SpinsAt => Spins(v, k, p))
         /\ (CoversAt => Covers(v, k, p)) /\ (OverliesAt => Overlies(v, k, p))
  BY DEF DisplayInv
<1> HIDE DEF v, k, p
<1>6. /\ l \in Seq(News) /\ m \in News /\ 1 \in 1 .. Len(k) /\ k[1] = m
      /\ \A i \in 1 .. Len(l) : i + 1 \in 1 .. Len(k) /\ l[i] = k[i + 1]
      /\ \A type, s : \A n \in Nat : Says(k, type, s, n + 1) => Says(l, type, s, n)
      /\ \A type, s : Says(k, type, s, 0) =>
            Says(l, type, s, 0) \/ (m.type = type /\ m.sector = s)
  <2>1. MovesUp(k, l, m)
    BY <1>1, <1>2, <1>3, <1>4, HeadTaken
  <2>2. QED
    BY <2>1 DEF MovesUp
<1>7. CASE "disconnect" \in sky /\ display' = p
  <2>1. ~ SpinsAt /\ ~ CoversAt /\ ~ OverliesAt
    BY <1>7 DEF SpinsAt, CoversAt, OverliesAt
  <2>2. QED
    BY <1>3, <1>4, <1>5, <1>6, <1>7, <2>1, DisplayKept
<1>8. CASE display' = Told(p, m)
  <2>1. PICK q : q = Told(p, m)
    OBVIOUS
  <2>2. /\ q \in Pages /\ SameMap(p, q) /\ SameDraw(p, q)
        /\ Wanted(p) \subseteq Wanted(q)
        /\ Wanted(q) \subseteq Wanted(p) \cup {<<"coverage", m.sector>>}
        /\ m.type = "complete" => <<"coverage", m.sector>> \in Wanted(q)
        /\ InTime(p) => InTime(q)
        /\ \A x : OneSave(x, p) => OneSave(x, q)
        /\ m.type # "viewshed" \/ m.sector \notin p.selected => q.overlay = p.overlay
        /\ m.type = "viewshed" /\ m.sector \in p.selected =>
              /\ q.overlay.of = {m.sector} /\ q.overlay.version = m.version
              /\ q.overlay.visible
        /\ q.loading = CASE m.type = "progress" -> p.loading \cup {m.sector}
                         [] m.type = "complete" -> p.loading \ {m.sector}
                         [] OTHER -> p.loading
        /\ p.spinning = p.loading /\ p.known = Sectors => q.spinning = q.loading
    <3>1. Heard(p, q, m)
      BY <1>3, <1>6, <2>1, ToldChanges
    <3>2. QED
      BY <3>1 DEF Heard
  <2>3. m.sector \in Sectors /\ m.type \in {"progress", "viewshed", "status", "complete"}
    BY <1>6 DEF News
  <2>4. \A op \in {"save", "rename", "read", "delete", "overlay"} : \A s \in Sectors :
            <<op, s>> \in Wanted(q) => <<op, s>> \in Wanted(p)
    BY <2>2
  <2>5. Grounded(v, q)
    <3>1. p.drawn \subseteq Sectors
      BY <1>3 DEF Pages
    <3>2. DrawnAreThere(v, q)
      BY <1>5, <2>2, <2>4, <3>1 DEF Grounded, DrawnAreThere, SameMap
    <3>3. QED
      BY <1>5, <2>2, <3>2 DEF Grounded
  <2>6. ASSUME SpinsAt PROVE Spins(v, l, q)
    <3>1. Spins(v, k, p)
      BY <1>5, <2>6
    <3>2. q.known = Sectors /\ q.spinning = q.loading
      BY <2>2, <3>1 DEF Spins, SameMap
    <3>3. \A s \in Sectors : <<"delete", s>> \notin Wanted(q)
      BY <2>4, <3>1 DEF Spins
    <3>4. ASSUME NEW i \in 1 .. Len(l), l[i].type = "progress"
          PROVE  Ends(v, l, l[i].sector, i)
      <4>1. k[i + 1].type = "progress" /\ i + 1 \in 1 .. Len(k) /\ l[i].sector = k[i + 1].sector
        BY <1>6, <3>4
      <4>2. Ends(v, k, l[i].sector, i + 1) /\ i \in Nat
        BY <3>1, <4>1 DEF Spins
      <4>3. QED
        BY <1>6, <4>2 DEF Ends
    <3>5. ASSUME NEW s \in q.loading PROVE Ends(v, l, s, 0)
      <4>1. CASE m.type = "progress" /\ s = m.sector
        <5>1. Ends(v, k, s, 0 + 1)
          BY <1>6, <3>1, <4>1 DEF Spins
        <5>2. QED
          BY <1>6, <5>1 DEF Ends
      <4>2. CASE ~ (m.type = "progress" /\ s = m.sector)
        <5>1. s \in p.loading /\ ~ (m.type = "complete" /\ m.sector = s)
          BY <2>2, <2>3, <3>5, <4>2
        <5>2. Ends(v, k, s, 0)
          BY <3>1, <5>1 DEF Spins
        <5>3. QED
          BY <1>6, <5>1, <5>2 DEF Ends
      <4>3. QED
        BY <4>1, <4>2
    <3>6. QED
      BY <3>2, <3>3, <3>4, <3>5 DEF Spins
  <2>7. ASSUME CoversAt PROVE Covers(v, l, q)
    <3>1. Covers(v, k, p)
      BY <1>5, <2>7
    <3>2. ASSUME NEW s \in Sectors, SoleOf(q, s)
          PROVE  CoverageDue(v, l, q, s) \/ CoverageShown(v, q, s)
      <4>1. SoleOf(p, s)
        BY <2>2, <3>2 DEF SoleOf, SameMap
      <4>2. CoverageDue(v, k, p, s) \/ CoverageShown(v, p, s)
        BY <3>1, <4>1 DEF Covers
      <4>3. CASE CoverageDue(v, k, p, s)
        BY <1>6, <2>2, <4>3 DEF CoverageDue
      <4>4. CASE CoverageShown(v, p, s)
        BY <2>2, <4>4 DEF CoverageShown, HeldAndShown, SameDraw
      <4>5. QED
        BY <4>2, <4>3, <4>4
    <3>3. QED
      BY <2>4, <3>1, <3>2 DEF Covers
  <2>8. ASSUME OverliesAt PROVE Overlies(v, l, q)
    <3>1. Overlies(v, k, p)
      BY <1>5, <2>8
    <3>2. q.last \cap q.drawn = q.selected
      BY <2>2, <3>1 DEF Overlies, SameMap
    <3>3. \A op \in FormAsks \cup {"read", "overlay"} : \A s \in Sectors :
              <<op, s>> \in Wanted(q) => s \in q.selected
      BY <2>2, <2>4, <3>1 DEF Overlies, SameMap, FormAsks
    <3>4. ASSUME NEW i \in 1 .. Len(l), l[i].type = "viewshed"
          PROVE  \/ l[i].version = v[l[i].sector].viewshed \/ v[l[i].sector].version = 0
                 \/ Remaking(v[l[i].sector]) \/ Says(l, "viewshed", l[i].sector, i)
      <4>1. i + 1 \in 1 .. Len(k) /\ l[i] = k[i + 1] /\ i \in Nat
        BY <1>6
      <4>2. \/ l[i].version = v[l[i].sector].viewshed \/ v[l[i].sector].version = 0
            \/ Remaking(v[l[i].sector]) \/ Says(k, "viewshed", l[i].sector, i + 1)
        BY <3>1, <3>4, <4>1 DEF Overlies
      <4>3. QED
        BY <1>6, <4>1, <4>2
    <3>5. ASSUME NEW s \in Sectors, SoleOf(q, s)
          PROVE  OverlayDue(v, l, q, s) \/ OverlayShown(v, q, s)
      <4>1. SoleOf(p, s)
        BY <2>2, <3>5 DEF SoleOf, SameMap
      <4>2. OverlayDue(v, k, p, s) \/ OverlayShown(v, p, s)
        BY <3>1, <4>1 DEF Overlies
      <4>3. CASE m.type = "viewshed" /\ m.sector = s
        <5>1. q.overlay.of = {s} /\ q.overlay.version = m.version /\ q.overlay.visible
          BY <2>2, <4>1, <4>3 DEF SoleOf
        <5>2. v[s].version > 0
          BY <1>5, <3>1, <4>1 DEF Grounded, DrawnAreThere, Overlies, SoleOf
        <5>3. \/ m.version = v[s].viewshed \/ v[s].version = 0
              \/ Remaking(v[s]) \/ Says(k, "viewshed", s, 0 + 1)
          BY <1>6, <3>1, <4>3 DEF Overlies
        <5>4. v[s].version # 0
          BY <1>3, <5>2 DEF SectorRow
        <5>5. QED
          BY <1>6, <5>1, <5>3, <5>4 DEF OverlayDue, OverlayShown
      <4>4. CASE ~ (m.type = "viewshed" /\ m.sector = s)
        <5>1. q.overlay = p.overlay
          BY <2>2, <4>1, <4>4 DEF SoleOf
        <5>2. Says(k, "viewshed", s, 0) => Says(l, "viewshed", s, 0)
          BY <1>6, <4>4
        <5>3. QED
          BY <2>2, <4>2, <5>1, <5>2 DEF OverlayDue, OverlayShown
      <4>5. QED
        BY <4>3, <4>4
    <3>6. QED
      BY <3>2, <3>3, <3>4, <3>5 DEF Overlies
  <2>9. QED
    BY <1>3, <1>4, <1>6, <1>8, <2>1, <2>2, <2>5, <2>6, <2>7, <2>8, DisplayKept
<1>9. QED
  BY <1>4, <1>7, <1>8

\* A message of a kind about s, or none, comes last.
SaysLast(k, l, s, type, version) ==
    \/ type = "none" /\ l = k
    \/ \E m \in News : /\ m.type = type /\ m.sector = s /\ m.version = version
                       /\ l = Append(k, m)

ComesLast(k, l, s, type, version) ==
    /\ l \in Seq(News) /\ Len(k) \in Nat
    /\ \A kind, x, n : Says(k, kind, x, n) => Says(l, kind, x, n)
    /\ type # "none" => \A n \in 0 .. Len(k) : Says(l, type, s, n)
    /\ \A i \in 1 .. Len(l) :
          \/ i \in 1 .. Len(k) /\ l[i] = k[i]
          \/ i = Len(k) + 1 /\ l[i].type = type /\ l[i].sector = s /\ l[i].version = version

\* What was said before stays as it was.
LEMMA LastComesLast ==
    ASSUME NEW k \in Seq(News), NEW l, NEW s, NEW type, NEW version,
           SaysLast(k, l, s, type, version)
    PROVE  ComesLast(k, l, s, type, version)
<1>0. Len(k) \in Nat
  BY LenProperties
<1>1. CASE type = "none" /\ l = k
  BY <1>0, <1>1 DEF ComesLast
<1>2. CASE \E m \in News : /\ m.type = type /\ m.sector = s /\ m.version = version
                           /\ l = Append(k, m)
  <2>1. PICK m \in News : /\ m.type = type /\ m.sector = s /\ m.version = version
                          /\ l = Append(k, m)
    BY <1>2
  <2>2. /\ l \in Seq(News) /\ Len(l) = Len(k) + 1
        /\ \A i \in 1 .. Len(k) : l[i] = k[i]
        /\ l[Len(k) + 1] = m
    BY <2>1, AppendProperties
  <2>3. \A i \in 1 .. Len(k) : i \in 1 .. Len(l)
    BY <1>0, <2>2
  <2>4. \A kind, x, n : Says(k, kind, x, n) => Says(l, kind, x, n)
    BY <2>2, <2>3 DEF Says
  <2>5. ASSUME NEW n \in 0 .. Len(k) PROVE Says(l, type, s, n)
    <3>1. Len(k) + 1 \in 1 .. Len(l) /\ Len(k) + 1 > n
      BY <1>0, <2>2
    <3>2. QED
      BY <2>1, <2>2, <3>1 DEF Says
  <2>6. \A i \in 1 .. Len(l) : i \in 1 .. Len(k) \/ i = Len(k) + 1
    BY <1>0, <2>2
  <2>7. QED
    BY <1>0, <2>1, <2>2, <2>4, <2>5, <2>6 DEF ComesLast
<1>3. QED
  BY <1>1, <1>2 DEF SaysLast

\* A form is on its way only while no task is.
LEMMA OneSaveOver ==
    ASSUME NEW p \in Pages, NEW v \in [Sectors -> SectorRow], NEW s \in Sectors,
           NEW r \in SectorRow, NEW w, w = [v EXCEPT ![s] = r], OneSave(v, p),
           \/ v[s].task # "none" \/ r.task = "none"
           \/ \A op \in FormAsks : <<op, s>> \notin Wanted(p)
    PROVE  OneSave(w, p)
<1>1. \A x \in Sectors \ {s} : w[x] = v[x]
  OBVIOUS
<1>2. w[s] = r
  OBVIOUS
<1>3. ASSUME NEW i \in 1 .. Len(p.ajax), p.ajax[i].op \in FormAsks, ~ p.ajax[i].done
      PROVE  w[p.ajax[i].sector].task = "none"
  <2>1. p.ajax[i].sector \in Sectors
    <3>1. p.ajax \in Seq(PageAsk)
      BY DEF Pages
    <3>2. p.ajax[i] \in PageAsk
      BY <3>1, ElementOfSeq
    <3>3. QED
      BY <3>2 DEF PageAsk
  <2>2. v[p.ajax[i].sector].task = "none"
    BY <1>3 DEF OneSave
  <2>3. <<p.ajax[i].op, p.ajax[i].sector>> \in Wanted(p)
    BY DEF Wanted
  <2>4. CASE p.ajax[i].sector = s
    BY <1>2, <1>3, <2>2, <2>3, <2>4
  <2>5. CASE p.ajax[i].sector # s
    BY <1>1, <2>1, <2>2, <2>5
  <2>6. QED
    BY <2>4, <2>5
<1>4. QED
  BY <1>3 DEF OneSave

\* A step of a worker.
LEMMA WorkKeeps ==
    ASSUME DisplayInv, NEW s \in Sectors, NEW r \in SectorRow, NEW l, NEW type,
           server' = [server EXCEPT ![s] = r], socket' = l, display' = display, sky' = sky,
           SaysLast(socket, l, s, type, server[s].version),
           server[s].task # "none", r.version = server[s].version, RowFollows(r),
           SpinsAt =>
              /\ server[s].task \in AtWork => r.task \in AtWork \/ type = "complete"
              /\ type = "progress" => r.task \in AtWork,
           CoversAt =>
              /\ r.task # "queued" /\ <<"read", s>> \notin Wanted(display)
              /\ r.task = "none" => type = "complete" /\ r.coverage = <<r.version, Judged>>,
           OverliesAt =>
              /\ Remaking(server[s]) => Remaking(r) \/ type = "viewshed"
              /\ Remaking(r) \/ r.viewshed = server[s].viewshed
              /\ type = "viewshed" => server[s].version = r.viewshed
    PROVE  DisplayInv'
<1> DEFINE v == server
           k == socket
           p == display
<1>1. PICK w : w = [v EXCEPT ![s] = r]
  OBVIOUS
<1>2. v \in [Sectors -> SectorRow] /\ k \in Seq(News) /\ p \in Pages
  BY DEF DisplayInv, DisplayTypeOK
<1>3. server' = w /\ socket' = l /\ display' = p /\ sky' = sky
  BY <1>1
<1>4. Grounded(v, p) /\ (SpinsAt => Spins(v, k, p))
         /\ (CoversAt => Covers(v, k, p)) /\ (OverliesAt => Overlies(v, k, p))
  BY DEF DisplayInv
<1>5. ComesLast(k, l, s, type, v[s].version)
  BY <1>2, LastComesLast
<1>6. /\ v[s].task # "none" /\ r.version = v[s].version
      /\ SpinsAt => /\ v[s].task \in AtWork => r.task \in AtWork \/ type = "complete"
                    /\ type = "progress" => r.task \in AtWork
      /\ CoversAt => /\ r.task # "queued" /\ <<"read", s>> \notin Wanted(p)
                     /\ r.task = "none" => type = "complete" /\ r.coverage = <<r.version, Judged>>
      /\ OverliesAt => /\ Remaking(v[s]) => Remaking(r) \/ type = "viewshed"
                       /\ Remaking(r) \/ r.viewshed = v[s].viewshed
                       /\ type = "viewshed" => v[s].version = r.viewshed
  OBVIOUS
<1> HIDE DEF v, k, p
<1>7. w \in [Sectors -> SectorRow] /\ w[s] = r /\ \A x \in Sectors \ {s} : w[x] = v[x]
  BY <1>1, <1>2
<1>8. \A x \in Sectors : w[x].version = v[x].version
  BY <1>6, <1>7
<1>9. Grounded(w, p)
  <2>1. OneSave(w, p)
    BY <1>1, <1>2, <1>4, <1>6, OneSaveOver DEF Grounded
  <2>2. p.drawn \subseteq Sectors
    BY <1>2 DEF Pages
  <2>3. DrawnAreThere(w, p)
    BY <1>4, <1>8, <2>2 DEF Grounded, DrawnAreThere
  <2>4. \A x \in Sectors : RowFollows(w[x])
    BY <1>4, <1>7 DEF Grounded
  <2>5. QED
    BY <1>4, <2>1, <2>3, <2>4 DEF Grounded
<1>10. ASSUME SpinsAt PROVE Spins(w, l, p)
  <2>1. Spins(v, k, p)
    BY <1>4, <1>10
  <2>2. ASSUME NEW x \in Sectors, NEW n \in 0 .. Len(k), Ends(v, k, x, n)
        PROVE  Ends(w, l, x, n)
    <3>1. CASE Says(k, "complete", x, n)
      BY <1>5, <3>1 DEF Ends, ComesLast
    <3>2. CASE v[x].task \in AtWork /\ x # s
      BY <1>7, <3>2 DEF Ends
    <3>3. CASE v[x].task \in AtWork /\ x = s
      <4>1. r.task \in AtWork \/ type = "complete"
        BY <1>6, <1>10, <3>3
      <4>2. QED
        BY <1>5, <1>7, <3>3, <4>1 DEF Ends, ComesLast
    <3>4. QED
      BY <2>2, <3>1, <3>2, <3>3 DEF Ends
  <2>3. ASSUME NEW i \in 1 .. Len(l), l[i].type = "progress" PROVE Ends(w, l, l[i].sector, i)
    <3>1. CASE i \in 1 .. Len(k) /\ l[i] = k[i]
      <4>1. k[i] \in News
        BY <1>2, <3>1, ElementOfSeq
      <4>2. i \in 0 .. Len(k) /\ k[i].sector \in Sectors
        BY <1>5, <3>1, <4>1 DEF ComesLast, News
      <4>3. Ends(v, k, k[i].sector, i)
        BY <2>1, <2>3, <3>1 DEF Spins
      <4>4. QED
        BY <2>2, <3>1, <4>2, <4>3
    <3>2. CASE l[i].type = type /\ l[i].sector = s
      BY <1>6, <1>7, <1>10, <2>3, <3>2 DEF Ends
    <3>3. QED
      BY <1>5, <3>1, <3>2 DEF ComesLast
  <2>4. \A x \in p.loading : Ends(w, l, x, 0)
    <3>1. p.loading \subseteq Sectors /\ 0 \in 0 .. Len(k)
      BY <1>2, <1>5 DEF Pages, ComesLast
    <3>2. QED
      BY <2>1, <2>2, <3>1 DEF Spins
  <2>5. QED
    BY <2>1, <2>3, <2>4 DEF Spins
<1>11. ASSUME CoversAt PROVE Covers(w, l, p)
  <2>1. Covers(v, k, p)
    BY <1>4, <1>11
  <2>2. ASSUME NEW x \in Sectors, SoleOf(p, x)
        PROVE  CoverageDue(w, l, p, x) \/ CoverageShown(w, p, x)
    <3>1. CASE x # s
      <4>1. CoverageDue(v, k, p, x) \/ CoverageShown(v, p, x)
        BY <2>1, <2>2 DEF Covers
      <4>2. QED
        BY <1>5, <1>7, <3>1, <4>1 DEF CoverageDue, CoverageShown, ComesLast
    <3>2. CASE x = s
      <4>1. r.task # "none" \/ type = "complete"
        BY <1>6, <1>11
      <4>2. 0 \in 0 .. Len(k)
        BY <1>5 DEF ComesLast
      <4>3. type = "complete" => Says(l, "complete", s, 0)
        BY <1>5, <4>2 DEF ComesLast
      <4>4. QED
        BY <1>7, <3>2, <4>1, <4>3 DEF CoverageDue
    <3>3. QED
      BY <3>1, <3>2
  <2>3. ASSUME NEW x \in Sectors
        PROVE  /\ w[x].task = "none" /\ w[x].version > 0
                     => w[x].coverage = <<w[x].version, Judged>>
               /\ w[x].task = "queued" => w[x].viewshed # w[x].version
               /\ <<"rename", x>> \notin Wanted(p)
               /\ <<"read", x>> \in Wanted(p) => w[x].task = "queued" \/ w[x].version = 0
    <3>1. CASE x # s
      BY <1>7, <2>1, <3>1 DEF Covers
    <3>2. CASE x = s
      BY <1>6, <1>7, <1>11, <2>1, <3>2 DEF Covers
    <3>3. QED
      BY <3>1, <3>2
  <2>4. QED
    BY <2>2, <2>3 DEF Covers
<1>12. ASSUME OverliesAt PROVE Overlies(w, l, p)
  <2>1. Overlies(v, k, p)
    BY <1>4, <1>12
  <2>2. /\ Remaking(v[s]) => Remaking(r) \/ type = "viewshed"
        /\ Remaking(r) \/ r.viewshed = v[s].viewshed
        /\ type = "viewshed" => v[s].version = r.viewshed
    BY <1>6, <1>12
  <2>3. ASSUME NEW x \in Sectors, NEW n \in 0 .. Len(k),
               Remaking(v[x]) \/ Says(k, "viewshed", x, n)
        PROVE  Remaking(w[x]) \/ Says(l, "viewshed", x, n)
    BY <1>5, <1>7, <2>2, <2>3 DEF ComesLast
  <2>4. ASSUME NEW i \in 1 .. Len(l), l[i].type = "viewshed"
        PROVE  \/ l[i].version = w[l[i].sector].viewshed \/ w[l[i].sector].version = 0
               \/ Remaking(w[l[i].sector]) \/ Says(l, "viewshed", l[i].sector, i)
    <3>1. CASE i \in 1 .. Len(k) /\ l[i] = k[i]
      <4>1. k[i] \in News
        BY <1>2, <3>1, ElementOfSeq
      <4>2. i \in 0 .. Len(k) /\ k[i].sector \in Sectors
        BY <1>5, <3>1, <4>1 DEF ComesLast, News
      <4>3. \/ k[i].version = v[k[i].sector].viewshed \/ v[k[i].sector].version = 0
            \/ Remaking(v[k[i].sector]) \/ Says(k, "viewshed", k[i].sector, i)
        BY <2>1, <2>4, <3>1 DEF Overlies
      <4>4. CASE k[i].version = v[k[i].sector].viewshed
        BY <1>7, <2>2, <3>1, <4>2, <4>4
      <4>5. QED
        BY <1>8, <2>3, <3>1, <4>2, <4>3, <4>4
    <3>2. CASE l[i].type = type /\ l[i].sector = s /\ l[i].version = v[s].version
      BY <1>7, <2>2, <2>4, <3>2
    <3>3. QED
      BY <1>5, <3>1, <3>2 DEF ComesLast
  <2>5. ASSUME NEW x \in Sectors, SoleOf(p, x)
        PROVE  OverlayDue(w, l, p, x) \/ OverlayShown(w, p, x)
    <3>1. OverlayDue(v, k, p, x) \/ OverlayShown(v, p, x)
      BY <2>1, <2>5 DEF Overlies
    <3>2. 0 \in 0 .. Len(k)
      BY <1>5 DEF ComesLast
    <3>3. CASE OverlayDue(v, k, p, x)
      BY <2>3, <3>2, <3>3 DEF OverlayDue
    <3>4. CASE OverlayShown(v, p, x)
      BY <1>7, <2>2, <3>4 DEF OverlayDue, OverlayShown
    <3>5. QED
      BY <3>1, <3>3, <3>4
  <2>6. QED
    BY <2>1, <2>4, <2>5 DEF Overlies
<1>13. l \in Seq(News)
  BY <1>5 DEF ComesLast
<1>14. QED
  BY <1>2, <1>3, <1>7, <1>9, <1>10, <1>11, <1>12, <1>13, DisplayKept

\* A task takes its next step.
LEMMA TaskKeeps ==
    ASSUME DisplayInv, NEW s \in Sectors, Task(s)
    PROVE  DisplayInv'
<1> DEFINE o == server[s]
           With(level) == [o EXCEPT !.coverage = <<o.version, level>>]
<1>1. o \in SectorRow /\ RowFollows(o)
  BY DEF DisplayInv, DisplayTypeOK, Grounded
<1>2. /\ o.version \in Nat /\ o.viewshed \in Nat /\ o.coverage \in Coverages
      /\ NoCoverage \in Coverages
      /\ \A level \in {Listed, Begun, Judged} : <<o.version, level>> \in Coverages
  BY <1>1 DEF SectorRow, Coverages, NoCoverage, Listed, Begun, Judged
<1>3. CoversAt => Covers(server, socket, display)
  BY DEF DisplayInv
\* What is common to the steps.
<1>4. ASSUME NEW from \in Stages \ {"none"}, NEW to \in Stages, NEW type, NEW row \in SectorRow,
             Work(s, from, to, type, row),
             type \in {"none", "progress", "viewshed", "status", "complete"}
      PROVE  /\ [row EXCEPT !.task = to] \in SectorRow
             /\ [row EXCEPT !.task = to].task = to
             /\ [row EXCEPT !.task = to].version = row.version
             /\ [row EXCEPT !.task = to].viewshed = row.viewshed
             /\ [row EXCEPT !.task = to].coverage = row.coverage
             /\ o.task = from
             /\ server' = [server EXCEPT ![s] = [row EXCEPT !.task = to]]
             /\ display' = display /\ sky' = sky
             /\ SaysLast(socket, socket', s, type, o.version)
  <2>1. SaysLast(socket, socket', s, type, o.version)
    <3>1. CASE type = "none"
      BY <1>4, <3>1 DEF Work, SaysLast
    <3>2. CASE type # "none"
      <4>1. PICK m : m = [type |-> type, sector |-> s, version |-> o.version]
        OBVIOUS
      <4>2. m \in News /\ m.type = type /\ m.sector = s /\ m.version = o.version
        BY <1>2, <1>4, <3>2, <4>1 DEF News
      <4>3. socket' = Append(socket, m)
        BY <1>4, <3>2, <4>1 DEF Work
      <4>4. QED
        BY <4>2, <4>3 DEF SaysLast
    <3>3. QED
      BY <3>1, <3>2
  <2>2. QED
    BY <1>4, <2>1 DEF Work, SectorRow
\* While the page is sound, a task under way is not waited for by a reader.
<1>5. ASSUME CoversAt, o.task # "none", "swift" \in sky \/ ~ Saving(s) \/ o.task # "queued"
      PROVE  <<"read", s>> \notin Wanted(display)
  <2>1. "swift" \notin sky
    BY <1>5 DEF CoversAt
  <2>2. CASE ~ Saving(s)
    BY <2>2 DEF Wanted, Saving
  <2>3. CASE o.task # "queued"
    <3>1. o.version # 0
      BY <1>1, <1>5 DEF RowFollows
    <3>2. QED
      BY <1>3, <1>5, <2>3, <3>1 DEF Covers
  <2>4. QED
    BY <1>5, <2>1, <2>2, <2>3
<1>6. CASE /\ "swift" \in sky \/ ~ Saving(s)
           /\ o.viewshed = o.version /\ Work(s, "queued", "none", "none", o)
  <2>1. PICK r : r = [o EXCEPT !.task = "none"]
    OBVIOUS
  <2>2. /\ r \in SectorRow /\ r.task = "none" /\ r.version = o.version
        /\ r.viewshed = o.viewshed /\ r.coverage = o.coverage
        /\ o.task = "queued" /\ server' = [server EXCEPT ![s] = r]
        /\ display' = display /\ sky' = sky
        /\ SaysLast(socket, socket', s, "none", o.version)
    <3>1. "queued" \in Stages \ {"none"} /\ "none" \in Stages
      BY DEF Stages
    <3>2. QED
      BY <1>1, <1>4, <1>6, <2>1, <3>1
  <2>3. RowFollows(r)
    BY <1>1, <1>6, <2>2 DEF RowFollows
  <2>4. ~ CoversAt
    BY <1>3, <1>6, <2>2 DEF Covers
  <2>5. o.task \notin AtWork
    BY <2>2 DEF AtWork
  <2>6. OverliesAt => ~ Remaking(o) /\ r.viewshed = o.viewshed
    BY <1>6, <2>2 DEF Remaking
  <2>7. o.task # "none"
    BY <2>2
  <2> HIDE DEF o
  <2>8. QED
    BY <2>2, <2>3, <2>4, <2>5, <2>6, <2>7, WorkKeeps DEF o
<1>7. CASE /\ "swift" \in sky \/ ~ Saving(s)
           /\ o.viewshed # o.version
           /\ Work(s, "queued", "remade", "none",
                   [o EXCEPT !.viewshed = 0, !.coverage = NoCoverage])
  <2>1. PICK w : w = [o EXCEPT !.viewshed = 0, !.coverage = NoCoverage]
    OBVIOUS
  <2>2. PICK r : r = [w EXCEPT !.task = "remade"]
    OBVIOUS
  <2>3. w \in SectorRow /\ w.version = o.version /\ w.viewshed = 0
    BY <1>1, <1>2, <2>1 DEF SectorRow
  <2>4. /\ r \in SectorRow /\ r.task = "remade" /\ r.version = o.version /\ r.viewshed = 0
        /\ o.task = "queued" /\ server' = [server EXCEPT ![s] = r]
        /\ display' = display /\ sky' = sky
        /\ SaysLast(socket, socket', s, "none", o.version)
    <3>1. "queued" \in Stages \ {"none"} /\ "remade" \in Stages
      BY DEF Stages
    <3>2. Work(s, "queued", "remade", "none", w)
      BY <1>7, <2>1
    <3>3. QED
      BY <1>4, <2>2, <2>3, <3>1, <3>2
  <2>5. o.version > 0
    BY <1>1, <1>2, <2>4 DEF RowFollows
  <2>6. RowFollows(r) /\ Remaking(r)
    BY <1>2, <2>4, <2>5 DEF RowFollows, Remaking
  <2>7. CoversAt => <<"read", s>> \notin Wanted(display)
    BY <1>5, <1>7, <2>4
  <2>8. o.task # "none" /\ o.task \notin AtWork
    BY <2>4 DEF AtWork
  <2> HIDE DEF o
  <2>9. QED
    BY <2>4, <2>6, <2>7, <2>8, WorkKeeps DEF o
<1>8. CASE Work(s, "remade", "viewshed", "progress", [o EXCEPT !.viewshed = o.version])
  <2>1. PICK w : w = [o EXCEPT !.viewshed = o.version]
    OBVIOUS
  <2>2. PICK r : r = [w EXCEPT !.task = "viewshed"]
    OBVIOUS
  <2>3. w \in SectorRow /\ w.version = o.version /\ w.viewshed = o.version
    BY <1>1, <1>2, <2>1 DEF SectorRow
  <2>4. /\ r \in SectorRow /\ r.task = "viewshed" /\ r.version = o.version
        /\ r.viewshed = o.version
        /\ o.task = "remade" /\ server' = [server EXCEPT ![s] = r]
        /\ display' = display /\ sky' = sky
        /\ SaysLast(socket, socket', s, "progress", o.version)
    <3>1. "remade" \in Stages \ {"none"} /\ "viewshed" \in Stages
      BY DEF Stages
    <3>2. Work(s, "remade", "viewshed", "progress", w)
      BY <1>8, <2>1
    <3>3. QED
      BY <1>4, <2>2, <2>3, <3>1, <3>2
  <2>5. o.version # 0
    BY <1>1, <2>4 DEF RowFollows
  <2>6. RowFollows(r) /\ Remaking(r) /\ r.task \in AtWork
    BY <1>2, <2>4, <2>5 DEF RowFollows, Remaking, AtWork
  <2>7. CoversAt => <<"read", s>> \notin Wanted(display)
    BY <1>5, <2>4
  <2>8. o.task # "none"
    BY <2>4
  <2> HIDE DEF o
  <2>9. QED
    BY <2>4, <2>6, <2>7, <2>8, WorkKeeps DEF o
<1>9. CASE Work(s, "viewshed", "nearby", "viewshed", o)
  <2>1. PICK r : r = [o EXCEPT !.task = "nearby"]
    OBVIOUS
  <2>2. /\ r \in SectorRow /\ r.task = "nearby" /\ r.version = o.version
        /\ r.viewshed = o.viewshed
        /\ o.task = "viewshed" /\ server' = [server EXCEPT ![s] = r]
        /\ display' = display /\ sky' = sky
        /\ SaysLast(socket, socket', s, "viewshed", o.version)
    <3>1. "viewshed" \in Stages \ {"none"} /\ "nearby" \in Stages
      BY DEF Stages
    <3>2. QED
      BY <1>1, <1>4, <1>9, <2>1, <3>1
  <2>3. o.version # 0 /\ o.viewshed = o.version
    BY <1>1, <2>2 DEF RowFollows
  <2>4. RowFollows(r) /\ r.task \in AtWork
    BY <1>2, <2>2, <2>3 DEF RowFollows, AtWork
  <2>5. CoversAt => <<"read", s>> \notin Wanted(display)
    BY <1>5, <2>2
  <2>6. o.task # "none"
    BY <2>2
  <2> HIDE DEF o
  <2>7. QED
    BY <2>2, <2>3, <2>4, <2>5, <2>6, WorkKeeps DEF o
\* The buildings' steps differ in where they are and how far they judge.
<1>10. ASSUME NEW from \in {"nearby", "coverage", "judging"},
              NEW to \in {"coverage", "judging", "none"}, NEW level \in {Listed, Begun, Judged},
              NEW type \in {"status", "complete"},
              to = "none" <=> type = "complete", to = "none" => level = Judged,
              Work(s, from, to, type, With(level))
       PROVE  DisplayInv'
  <2>1. PICK w : w = [o EXCEPT !.coverage = <<o.version, level>>]
    OBVIOUS
  <2>2. PICK r : r = [w EXCEPT !.task = to]
    OBVIOUS
  <2>3. /\ w \in SectorRow /\ w.version = o.version /\ w.viewshed = o.viewshed
        /\ w.coverage = <<o.version, level>>
    BY <1>1, <1>2, <2>1 DEF SectorRow
  <2>4. /\ r \in SectorRow /\ r.task = to /\ r.version = o.version
        /\ r.viewshed = o.viewshed /\ r.coverage = <<o.version, level>>
        /\ o.task = from /\ server' = [server EXCEPT ![s] = r]
        /\ display' = display /\ sky' = sky
        /\ SaysLast(socket, socket', s, type, o.version)
    <3>1. from \in Stages \ {"none"} /\ to \in Stages
      BY DEF Stages
    <3>2. Work(s, from, to, type, w)
      BY <1>10, <2>1
    <3>3. QED
      BY <1>4, <1>10, <2>2, <2>3, <3>1, <3>2
  <2>5. o.version # 0 /\ o.viewshed = o.version
    BY <1>1, <2>4 DEF RowFollows
  <2>6. RowFollows(r)
    BY <1>2, <2>4, <2>5 DEF RowFollows
  <2>7. CoversAt => <<"read", s>> \notin Wanted(display)
    BY <1>5, <2>4
  <2>8. o.task # "none" /\ ~ Remaking(o)
    BY <2>4, <2>5 DEF Remaking
  <2>9. r.task \in AtWork \/ type = "complete"
    BY <1>10, <2>4 DEF AtWork
  <2>10. CoversAt => /\ r.task # "queued" /\ <<"read", s>> \notin Wanted(display)
                     /\ r.task = "none" => type = "complete" /\ r.coverage = <<r.version, Judged>>
    BY <1>10, <2>4, <2>7
  <2>11. r.viewshed = o.viewshed /\ type # "viewshed" /\ type # "progress"
    BY <1>10, <2>4
  <2> HIDE DEF o
  <2>12. QED
    BY <2>4, <2>6, <2>8, <2>9, <2>10, <2>11, WorkKeeps DEF o
<1>11. CASE \/ Work(s, "nearby", "coverage", "status", With(Listed))
            \/ Work(s, "coverage", "judging", "status", With(Begun))
            \/ Work(s, "judging", "none", "complete", With(Judged))
  BY <1>10, <1>11
<1>12. ASSUME "fail" \in sky, NEW task \in {"viewshed", "nearby", "coverage", "judging"},
              Work(s, task, "none", "progress", o)
       PROVE  DisplayInv'
  <2>1. PICK r : r = [o EXCEPT !.task = "none"]
    OBVIOUS
  <2>2. /\ r \in SectorRow /\ r.task = "none" /\ r.version = o.version
        /\ r.viewshed = o.viewshed
        /\ o.task = task /\ server' = [server EXCEPT ![s] = r]
        /\ display' = display /\ sky' = sky
        /\ SaysLast(socket, socket', s, "progress", o.version)
    <3>1. task \in Stages \ {"none"} /\ "none" \in Stages
      BY DEF Stages
    <3>2. QED
      BY <1>1, <1>4, <1>12, <2>1, <3>1
  <2>3. o.version # 0 /\ o.viewshed = o.version /\ o.task # "none"
    BY <1>1, <2>2 DEF RowFollows
  <2>4. RowFollows(r)
    BY <1>2, <2>2, <2>3 DEF RowFollows
  <2>5. ~ SpinsAt /\ ~ CoversAt /\ ~ OverliesAt
    BY <1>12 DEF SpinsAt, CoversAt, OverliesAt
  <2> HIDE DEF o
  <2>6. QED
    BY <2>2, <2>3, <2>4, <2>5, WorkKeeps DEF o
<1>13. QED
  <2>1. \/ /\ "swift" \in sky \/ ~ Saving(s)
           /\ o.viewshed = o.version /\ Work(s, "queued", "none", "none", o)
        \/ /\ "swift" \in sky \/ ~ Saving(s)
           /\ o.viewshed # o.version
           /\ Work(s, "queued", "remade", "none",
                   [o EXCEPT !.viewshed = 0, !.coverage = NoCoverage])
        \/ Work(s, "remade", "viewshed", "progress", [o EXCEPT !.viewshed = o.version])
        \/ Work(s, "viewshed", "nearby", "viewshed", o)
        \/ Work(s, "nearby", "coverage", "status", With(Listed))
        \/ Work(s, "coverage", "judging", "status", With(Begun))
        \/ Work(s, "judging", "none", "complete", With(Judged))
        \/ /\ "fail" \in sky
           /\ \E task \in {"viewshed", "nearby", "coverage", "judging"} :
                 Work(s, task, "none", "progress", o)
    BY DEF Task
  <2>2. QED
    BY <1>6, <1>7, <1>8, <1>9, <1>11, <1>12, <2>1

\* What the server does about a request, and how it replies.
ServerAnswers(v, w, op, s, reply) ==
    /\ reply \in Replies
    /\ \/ /\ op \in FormAsks /\ v[s].version > 0 /\ reply = "ok"
          /\ \E r \in SectorRow :
                /\ w = [v EXCEPT ![s] = r]
                /\ r.task = "queued" /\ r.viewshed = v[s].viewshed
                /\ r.version = IF op = "save" THEN v[s].version + 1 ELSE v[s].version
       \/ /\ op = "delete" /\ v[s].version > 0
          /\ \E r \in SectorRow :
                /\ w = [v EXCEPT ![s] = r]
                /\ r.task = "none" /\ r.version = 0 /\ r.viewshed = 0 /\ r.coverage = NoCoverage
       \/ op = "read" /\ w = v
       \/ op \in FormAsks \cup {"delete"} /\ v[s].version = 0 /\ w = v
       \/ /\ op = "coverage" /\ w = v
          /\ reply = IF v[s].coverage[1] = v[s].version THEN v[s].coverage ELSE NoCoverage
       \/ /\ op = "overlay" /\ w = v
          /\ reply = IF v[s].viewshed = v[s].version THEN v[s].version ELSE 0

\* How the rows may be after a request.
RowsMove(v, w, op, s) ==
    /\ w \in [Sectors -> SectorRow]
    /\ \A x \in Sectors : RowFollows(w[x])
    /\ \A x \in Sectors \ {s} : w[x] = v[x]
    /\ op # "delete" => (w[s].version = 0 => v[s].version = 0)
    /\ op # "delete" => (v[s].task \in AtWork => w[s].task \in AtWork)
    /\ op \in FormAsks \/ w[s].task = "none" \/ w[s] = v[s]

\* A request that no reply waits for, as the page has it.
LEMMA AskIsTyped ==
    ASSUME NEW p \in Pages, NEW i \in 1 .. Len(p.ajax)
    PROVE  /\ p.ajax[i] \in PageAsk /\ p.ajax[i].sector \in Sectors
           /\ p.ajax[i].op \in {"save", "rename", "read", "overlay", "coverage", "delete"}
           /\ <<p.ajax[i].op, p.ajax[i].sector>> \in Wanted(p)
<1>1. p.ajax \in Seq(PageAsk)
  BY DEF Pages
<1>2. p.ajax[i] \in PageAsk
  BY <1>1, ElementOfSeq
<1>3. QED
  BY <1>2 DEF PageAsk, Wanted

\* The server's four ways.
LEMMA RespondAnswers ==
    ASSUME DisplayInv, NEW i \in 1 .. Len(display.ajax), Respond(i)
    PROVE  \E reply :
              /\ ServerAnswers(server, server', display.ajax[i].op, display.ajax[i].sector, reply)
              /\ Reply(i, reply)
<1> DEFINE op == display.ajax[i].op
           s == display.ajax[i].sector
           o == server[s]
<1>1. server \in [Sectors -> SectorRow] /\ display \in Pages
  BY DEF DisplayInv, DisplayTypeOK
<1>2. s \in Sectors /\ op \in {"save", "rename", "read", "overlay", "coverage", "delete"}
  BY <1>1, AskIsTyped
<1>3. o \in SectorRow
  BY <1>1, <1>2
<1>4. o.version \in Nat /\ o.viewshed \in Nat /\ o.coverage \in Coverages
  BY <1>3 DEF SectorRow
<1>5. "ok" \in Replies /\ "missing" \in Replies
         /\ NoCoverage \in Replies /\ NoCoverage \in Coverages
         /\ o.coverage \in Replies /\ o.version \in Replies /\ 0 \in Replies
  BY <1>4 DEF Replies, NoCoverage, Coverages
<1>6. \/ /\ op \in {"save", "rename"} /\ o.version > 0
         /\ server' = [server EXCEPT ![s].task = "queued",
                                     ![s].version = IF op = "save" THEN @ + 1 ELSE @]
         /\ Reply(i, "ok")
      \/ /\ op = "delete" /\ o.version > 0
         /\ server' = [server EXCEPT ![s] = [version |-> 0, viewshed |-> 0,
                                             coverage |-> NoCoverage, task |-> "none"]]
         /\ Reply(i, "ok")
      \/ /\ op \in {"save", "rename", "read", "delete"} /\ (op = "read" \/ ~ (o.version > 0))
         /\ Reply(i, IF o.version > 0 THEN "ok" ELSE "missing")
         /\ server' = server
      \/ /\ op \in {"coverage", "overlay"}
         /\ Reply(i, IF op = "coverage" THEN CoverageOf(s)
                     ELSE IF o.viewshed = o.version THEN o.version ELSE 0)
         /\ server' = server
  BY DEF Respond
<1> HIDE DEF op
<1>7. CASE /\ op \in {"save", "rename"} /\ o.version > 0
           /\ server' = [server EXCEPT ![s].task = "queued",
                                       ![s].version = IF op = "save" THEN @ + 1 ELSE @]
           /\ Reply(i, "ok")
  <2>1. PICK n : n = IF op = "save" THEN o.version + 1 ELSE o.version
    OBVIOUS
  <2>2. PICK r : r = [o EXCEPT !.task = "queued", !.version = n]
    OBVIOUS
  <2>3. n \in Nat
    BY <1>4, <2>1
  <2>4. r \in SectorRow /\ r.task = "queued" /\ r.viewshed = o.viewshed /\ r.version = n
    BY <1>3, <2>2, <2>3 DEF SectorRow, Stages
  <2>5. server' = [server EXCEPT ![s] = r]
    BY <1>1, <1>2, <1>7, <2>1, <2>2
  <2> HIDE DEF s
  <2>6. ServerAnswers(server, server', op, s, "ok")
    BY <1>5, <1>7, <2>1, <2>4, <2>5 DEF ServerAnswers, FormAsks
  <2>7. QED
    BY <1>7, <2>6 DEF op, s
<1>8. CASE /\ op = "delete" /\ o.version > 0
           /\ server' = [server EXCEPT ![s] = [version |-> 0, viewshed |-> 0,
                                               coverage |-> NoCoverage, task |-> "none"]]
           /\ Reply(i, "ok")
  <2>1. PICK r : r = [version |-> 0, viewshed |-> 0, coverage |-> NoCoverage, task |-> "none"]
    OBVIOUS
  <2>2. /\ r \in SectorRow /\ r.task = "none" /\ r.version = 0 /\ r.viewshed = 0
        /\ r.coverage = NoCoverage
    BY <1>5, <2>1 DEF SectorRow, Stages
  <2>3. server' = [server EXCEPT ![s] = r]
    BY <1>8, <2>1
  <2> HIDE DEF s
  <2>4. ServerAnswers(server, server', op, s, "ok")
    BY <1>5, <1>8, <2>2, <2>3 DEF ServerAnswers
  <2>5. QED
    BY <1>8, <2>4 DEF op, s
<1>9. CASE /\ op \in {"save", "rename", "read", "delete"} /\ (op = "read" \/ ~ (o.version > 0))
           /\ Reply(i, IF o.version > 0 THEN "ok" ELSE "missing")
           /\ server' = server
  <2>1. PICK reply \in {"ok", "missing"} : Reply(i, reply)
    BY <1>9
  <2>2. op = "read" \/ (op \in FormAsks \cup {"delete"} /\ o.version = 0)
    BY <1>4, <1>9 DEF FormAsks
  <2>3. ServerAnswers(server, server', op, s, reply)
    BY <1>5, <1>9, <2>2 DEF ServerAnswers
  <2>4. QED
    BY <2>1, <2>3 DEF op, s
<1>10. CASE op = "coverage" /\ Reply(i, CoverageOf(s)) /\ server' = server
  <2>1. ServerAnswers(server, server', op, s, CoverageOf(s))
    BY <1>5, <1>10 DEF ServerAnswers, CoverageOf
  <2>2. QED
    BY <1>10, <2>1 DEF op, s
<1>11. CASE /\ op = "overlay" /\ server' = server
            /\ Reply(i, IF o.viewshed = o.version THEN o.version ELSE 0)
  <2>1. ServerAnswers(server, server', op, s, IF o.viewshed = o.version THEN o.version ELSE 0)
    BY <1>5, <1>11 DEF ServerAnswers
  <2>2. QED
    BY <1>11, <2>1 DEF op, s
<1>12. QED
  BY <1>6, <1>7, <1>8, <1>9, <1>10, <1>11

\* The rows after a request that had no reply yet.
LEMMA AnswersMoveRows ==
    ASSUME NEW v \in [Sectors -> SectorRow], NEW p \in Pages, Grounded(v, p),
           NEW i \in 1 .. Len(p.ajax), ~ p.ajax[i].done, NEW w, NEW reply,
           ServerAnswers(v, w, p.ajax[i].op, p.ajax[i].sector, reply)
    PROVE  RowsMove(v, w, p.ajax[i].op, p.ajax[i].sector)
<1> DEFINE op == p.ajax[i].op
           s == p.ajax[i].sector
<1>1. s \in Sectors
  BY AskIsTyped
<1>2. op \in FormAsks => v[s].task = "none"
  BY DEF Grounded, OneSave
<1>3. \A x \in Sectors : RowFollows(v[x])
  BY DEF Grounded
<1>4. ServerAnswers(v, w, op, s, reply)
  OBVIOUS
<1>5. v[s].version \in Nat /\ v[s].viewshed \in Nat /\ RowFollows(v[s])
  BY <1>1, <1>3 DEF SectorRow
<1> HIDE DEF op, s
<1>6. CASE \E r \in SectorRow :
              /\ op \in FormAsks /\ v[s].version > 0 /\ w = [v EXCEPT ![s] = r]
              /\ r.task = "queued" /\ r.viewshed = v[s].viewshed
              /\ r.version = IF op = "save" THEN v[s].version + 1 ELSE v[s].version
  <2>1. PICK r \in SectorRow :
              /\ op \in FormAsks /\ v[s].version > 0 /\ w = [v EXCEPT ![s] = r]
              /\ r.task = "queued" /\ r.viewshed = v[s].viewshed
              /\ r.version = IF op = "save" THEN v[s].version + 1 ELSE v[s].version
    BY <1>6
  <2>2. w \in [Sectors -> SectorRow] /\ w[s] = r /\ \A x \in Sectors \ {s} : w[x] = v[x]
    BY <1>1, <2>1
  <2>3. RowFollows(r) /\ r.version > 0 /\ r.version # 0
    BY <1>5, <2>1 DEF RowFollows
  <2>4. v[s].task \notin AtWork
    BY <1>2, <2>1 DEF AtWork
  <2>5. QED
    BY <1>3, <2>1, <2>2, <2>3, <2>4 DEF RowsMove, op, s
<1>7. CASE \E r \in SectorRow :
              /\ op = "delete" /\ w = [v EXCEPT ![s] = r]
              /\ r.task = "none" /\ r.version = 0 /\ r.viewshed = 0 /\ r.coverage = NoCoverage
  <2>1. PICK r \in SectorRow :
              /\ op = "delete" /\ w = [v EXCEPT ![s] = r]
              /\ r.task = "none" /\ r.version = 0 /\ r.viewshed = 0 /\ r.coverage = NoCoverage
    BY <1>7
  <2>2. w \in [Sectors -> SectorRow] /\ w[s] = r /\ \A x \in Sectors \ {s} : w[x] = v[x]
    BY <1>1, <2>1
  <2>3. RowFollows(r)
    BY <2>1 DEF RowFollows
  <2>4. QED
    BY <1>3, <2>1, <2>2, <2>3 DEF RowsMove, op, s
<1>8. CASE w = v
  BY <1>3, <1>8 DEF RowsMove
<1>9. QED
  BY <1>4, <1>6, <1>7, <1>8 DEF ServerAnswers

\* The same said of the page's requests.
LEMMA OneSaveOf ==
    ASSUME NEW w, NEW q, NEW a, q.ajax = a,
           \A x \in 1 .. Len(a) : a[x].op \in FormAsks =>
              /\ ~ a[x].done => w[a[x].sector].task = "none"
              /\ \A y \in 1 .. Len(a) :
                    a[y].op \in FormAsks /\ a[y].sector = a[x].sector => x = y
    PROVE  OneSave(w, q)
  BY DEF OneSave

\* The page with a reply that waits.
Waits(p, i, reply, q) == q = [p EXCEPT !.ajax[i].done = TRUE, !.ajax[i].reply = reply]

\* It is no less sound.
LEMMA WaitingIsSound ==
    ASSUME NEW v \in [Sectors -> SectorRow], NEW p \in Pages, NEW k \in Seq(News),
           Grounded(v, p),
           NEW i \in 1 .. Len(p.ajax), NEW reply \in Replies, NEW w, NEW q,
           RowsMove(v, w, p.ajax[i].op, p.ajax[i].sector), "overtake" \in sky,
           Waits(p, i, reply, q)
    PROVE  /\ q \in Pages /\ Grounded(w, q)
           /\ Spins(v, k, p) => Spins(w, k, q)
<1> DEFINE op == p.ajax[i].op
           s == p.ajax[i].sector
<1>1. /\ p.ajax[i] \in PageAsk /\ s \in Sectors /\ <<op, s>> \in Wanted(p)
  BY AskIsTyped
<1>2. p.ajax \in Seq(PageAsk)
  BY DEF Pages
<1>3. PICK r : r = [p.ajax[i] EXCEPT !.done = TRUE, !.reply = reply]
  OBVIOUS
<1>4. r \in PageAsk /\ r.op = op /\ r.sector = s /\ r.done = TRUE
  BY <1>1, <1>3 DEF PageAsk
<1>5. PICK a : a = [p.ajax EXCEPT ![i] = r]
  OBVIOUS
<1>6. a \in Seq(PageAsk) /\ Len(a) = Len(p.ajax) /\ a[i] = r
         /\ \A j \in 1 .. Len(p.ajax) : j # i => a[j] = p.ajax[j]
  BY <1>2, <1>4, <1>5, ExceptSeq
<1>7. q = [p EXCEPT !.ajax = a]
  BY <1>2, <1>3, <1>5 DEF Pages, Waits
<1>8. q \in Pages /\ SameMap(p, q) /\ SameSpin(p, q) /\ q.ajax = a
  BY <1>6, <1>7 DEF Pages, SameMap, SameSpin
<1>9. \A j \in 1 .. Len(a) : a[j].op = p.ajax[j].op /\ a[j].sector = p.ajax[j].sector
  BY <1>4, <1>6
<1>10. Wanted(q) = Wanted(p)
  BY <1>6, <1>8, <1>9 DEF Wanted
<1>11. RowsMove(v, w, op, s)
  OBVIOUS
<1>12. OneSave(v, p) /\ DrawnAreThere(v, p)
  BY DEF Grounded
<1>13. OneSave(w, q)
  <2>1. ASSUME NEW x \in 1 .. Len(a), a[x].op \in FormAsks,
               NEW y \in 1 .. Len(a), a[y].op \in FormAsks, a[y].sector = a[x].sector
        PROVE  x = y
    BY <1>6, <1>9, <1>12, <2>1 DEF OneSave
  <2>2. ASSUME NEW x \in 1 .. Len(a), a[x].op \in FormAsks, ~ a[x].done
        PROVE  w[a[x].sector].task = "none"
    <3>1. x # i /\ a[x] = p.ajax[x]
      BY <1>4, <1>6, <2>2
    <3>2. v[a[x].sector].task = "none" /\ a[x].sector \in Sectors
      BY <1>6, <1>12, <2>2, <3>1, AskIsTyped DEF OneSave
    <3>3. CASE a[x].sector # s
      BY <1>11, <3>2, <3>3 DEF RowsMove
    <3>4. CASE a[x].sector = s
      <4>1. op \notin FormAsks
        BY <1>4, <1>6, <2>1, <2>2, <3>1, <3>4
      <4>2. QED
        BY <1>11, <3>2, <3>4, <4>1 DEF RowsMove
    <3>5. QED
      BY <3>3, <3>4
  <2> HIDE DEF op, s
  <2>3. \A x \in 1 .. Len(a) : a[x].op \in FormAsks =>
            /\ ~ a[x].done => w[a[x].sector].task = "none"
            /\ \A y \in 1 .. Len(a) :
                  a[y].op \in FormAsks /\ a[y].sector = a[x].sector => x = y
    BY <2>1, <2>2
  <2>4. QED
    BY <1>8, <2>3, OneSaveOf
<1> HIDE DEF op, s
<1>14. DrawnAreThere(w, q)
  <2>1. ASSUME NEW x \in p.drawn PROVE w[x].version > 0
    <3>1. x \in Sectors /\ v[x].version > 0 /\ <<"delete", x>> \notin Wanted(p)
      BY <1>12 DEF DrawnAreThere, Pages
    <3>2. v[x].version \in Nat /\ w[x].version \in Nat
      BY <1>11, <3>1 DEF RowsMove, SectorRow
    <3>3. x = s => op # "delete"
      BY <1>1, <3>1
    <3>4. QED
      BY <1>11, <3>1, <3>2, <3>3 DEF RowsMove
  <2>2. QED
    BY <1>8, <1>10, <1>12, <2>1 DEF DrawnAreThere, SameMap
<1>15. Grounded(w, q)
  BY <1>11, <1>13, <1>14 DEF Grounded, RowsMove
<1>16. ASSUME Spins(v, k, p) PROVE Spins(w, k, q)
  <2>1. op # "delete"
    BY <1>1, <1>16 DEF Spins
  <2>2. ASSUME NEW x, NEW n, Ends(v, k, x, n), x \in Sectors PROVE Ends(w, k, x, n)
    BY <1>11, <2>1, <2>2 DEF Ends, RowsMove
  <2>3. p.loading \subseteq Sectors
    BY DEF Pages
  <2>4. ASSUME NEW j \in 1 .. Len(k), k[j].type = "progress" PROVE Ends(w, k, k[j].sector, j)
    <3>1. k[j] \in News
      BY ElementOfSeq
    <3>2. k[j].sector \in Sectors
      BY <3>1 DEF News
    <3>3. QED
      BY <1>16, <2>2, <2>4, <3>2 DEF Spins
  <2>5. \A x \in p.loading : Ends(w, k, x, 0)
    BY <1>16, <2>2, <2>3 DEF Spins
  <2>6. QED
    BY <1>8, <1>10, <1>16, <2>4, <2>5 DEF Spins, SameMap, SameSpin
<1>17. QED
  BY <1>8, <1>15, <1>16

\* The page once a reply has been handled.
Handled(p, i, r, q) ==
    /\ r \in PageAsk /\ r.op = p.ajax[i].op /\ r.sector = p.ajax[i].sector
    /\ q = Answered([p EXCEPT !.ajax = RemoveAt(p.ajax, i)], r)

\* What is left of the requests and of the map, and what is drawn of the one sector
\* selected.
Follows(p, q, r) ==
    /\ q \in Pages /\ SameSpin(p, q)
    /\ q.drawn = p.drawn /\ q.selected = p.selected /\ q.last = p.last
    /\ q.known = IF r.op = "delete" THEN p.known \ {r.sector} ELSE p.known
    /\ Wanted(p) \ {<<r.op, r.sector>>} \subseteq Wanted(q)
    /\ Wanted(q) \subseteq Wanted(p)
                               \cup (IF r.op \in FormAsks THEN {<<"read", r.sector>>} ELSE {})
                               \cup (IF r.op = "read" THEN {<<"overlay", r.sector>>} ELSE {})
    /\ InTime(p) => InTime(q)
    /\ AnswerDraws(p, q, r)

\* A reply is handled.
LEMMA ReplyFollows ==
    ASSUME NEW p \in Pages, NEW i \in 1 .. Len(p.ajax), NEW r, NEW q, Handled(p, i, r, q)
    PROVE  Follows(p, q, r)
<1>1. PICK a : a = [p EXCEPT !.ajax = RemoveAt(p.ajax, i)]
  OBVIOUS
<1>2. /\ a \in Pages /\ SameMap(p, a) /\ SameSpin(p, a) /\ SameDraw(p, a)
      /\ a.overlay = p.overlay
      /\ AsksAlso(a, p, p.ajax[i].op, p.ajax[i].sector)
      /\ InTime(p) => InTime(a)
  BY <1>1, WithoutAsk
<1>3. r \in PageAsk /\ r.op = p.ajax[i].op /\ r.sector = p.ajax[i].sector /\ q = Answered(a, r)
  BY <1>1 DEF Handled
<1>4. AnswerFrame(a, q, r) /\ AnswerDraws(a, q, r)
  BY <1>2, <1>3, AnswerChanges
<1>5. AnswerDraws(p, q, r)
  BY <1>2, <1>4 DEF AnswerDraws, SameMap, SameDraw, HeldAndShown
<1>6. Wanted(p) = Wanted(a) \cup {<<r.op, r.sector>>}
  BY <1>2, <1>3 DEF AsksAlso
<1>7. /\ Wanted(a) \subseteq Wanted(q)
      /\ Wanted(q) \subseteq Wanted(a)
                               \cup (IF r.op \in FormAsks THEN {<<"read", r.sector>>} ELSE {})
                               \cup (IF r.op = "read" THEN {<<"overlay", r.sector>>} ELSE {})
  BY <1>4 DEF AnswerFrame
<1>8. /\ Wanted(p) \ {<<r.op, r.sector>>} \subseteq Wanted(q)
      /\ Wanted(q) \subseteq Wanted(p)
                               \cup (IF r.op \in FormAsks THEN {<<"read", r.sector>>} ELSE {})
                               \cup (IF r.op = "read" THEN {<<"overlay", r.sector>>} ELSE {})
  BY <1>6, <1>7
<1>9. /\ q \in Pages /\ SameSpin(p, q)
      /\ q.drawn = p.drawn /\ q.selected = p.selected /\ q.last = p.last
      /\ q.known = IF r.op = "delete" THEN p.known \ {r.sector} ELSE p.known
      /\ InTime(p) => InTime(q)
  BY <1>2, <1>4 DEF AnswerFrame, SameMap, SameSpin
<1>10. QED
  BY <1>5, <1>8, <1>9 DEF Follows

\* The page with a reply that is handled.
LEMMA HandledIsSound ==
    ASSUME NEW v \in [Sectors -> SectorRow], NEW p \in Pages, NEW k \in Seq(News),
           Grounded(v, p), NEW i \in 1 .. Len(p.ajax), NEW w, NEW q, NEW r,
           RowsMove(v, w, r.op, r.sector), Handled(p, i, r, q)
    PROVE  /\ Grounded(w, q)
           /\ Spins(v, k, p) => Spins(w, k, q)
<1> DEFINE op == r.op
           s == r.sector
<1>1. /\ s \in Sectors /\ <<op, s>> \in Wanted(p)
      /\ op \in {"save", "rename", "read", "overlay", "coverage", "delete"}
  BY AskIsTyped DEF Handled
<1>2. RowsMove(v, w, op, s)
  OBVIOUS
<1>3. Follows(p, q, r)
  BY ReplyFollows
<1>4. /\ q \in Pages /\ SameSpin(p, q)
      /\ q.drawn = p.drawn /\ q.selected = p.selected /\ q.last = p.last
      /\ q.known = IF op = "delete" THEN p.known \ {s} ELSE p.known
      /\ InTime(p) => InTime(q)
      /\ \A x : <<"delete", x>> \in Wanted(q) => <<"delete", x>> \in Wanted(p)
  BY <1>3 DEF Follows
<1>5. OneSave(v, p) /\ DrawnAreThere(v, p)
  BY DEF Grounded
<1>6. OneSave(w, q)
  <2>1. PICK a : a = [p EXCEPT !.ajax = RemoveAt(p.ajax, i)]
    OBVIOUS
  <2>2. /\ a \in Pages /\ OneSave(v, a)
        /\ op \in FormAsks => \A form \in FormAsks : <<form, s>> \notin Wanted(a)
    BY <1>5, <2>1, WithoutAsk DEF Handled
  <2>3. AnswerFrame(a, q, r)
    BY <2>1, <2>2, AnswerChanges DEF Handled
  <2>4. OneSave(w, a)
    <3>1. CASE w[s] = v[s]
      <4>1. w = v
        BY <1>2, <3>1 DEF RowsMove
      <4>2. QED
        BY <2>2, <4>1
    <3>2. CASE op \in FormAsks \/ w[s].task = "none"
      <4>1. w = [v EXCEPT ![s] = w[s]] /\ w[s] \in SectorRow
        BY <1>1, <1>2 DEF RowsMove
      <4>2. PICK row \in SectorRow : row = w[s] /\ w = [v EXCEPT ![s] = row]
        BY <4>1
      <4>3. \/ v[s].task # "none" \/ row.task = "none"
            \/ \A form \in FormAsks : <<form, s>> \notin Wanted(a)
        BY <2>2, <3>2, <4>2
      <4>4. QED
        BY <1>1, <2>2, <4>2, <4>3, OneSaveOver
    <3>3. QED
      BY <1>2, <3>1, <3>2 DEF RowsMove
  <2>5. QED
    BY <2>3, <2>4 DEF AnswerFrame
<1> HIDE DEF op, s
<1>7. DrawnAreThere(w, q)
  <2>1. ASSUME NEW x \in p.drawn PROVE w[x].version > 0 /\ x \in q.known
    <3>1. x \in Sectors /\ v[x].version > 0 /\ <<"delete", x>> \notin Wanted(p) /\ x \in p.known
      BY <1>5 DEF DrawnAreThere, Pages
    <3>2. v[x].version \in Nat /\ w[x].version \in Nat
      BY <1>2, <3>1 DEF RowsMove, SectorRow
    <3>3. x = s => op # "delete"
      BY <1>1, <3>1
    <3>4. QED
      BY <1>2, <1>4, <3>1, <3>2, <3>3 DEF RowsMove
  <2>2. QED
    BY <1>4, <1>5, <2>1 DEF DrawnAreThere
<1>8. Grounded(w, q)
  BY <1>2, <1>4, <1>6, <1>7 DEF Grounded, RowsMove
<1>9. ASSUME Spins(v, k, p) PROVE Spins(w, k, q)
  <2>1. op # "delete"
    BY <1>1, <1>9 DEF Spins
  <2>2. ASSUME NEW x, NEW n, Ends(v, k, x, n), x \in Sectors PROVE Ends(w, k, x, n)
    BY <1>2, <2>1, <2>2 DEF Ends, RowsMove
  <2>3. p.loading \subseteq Sectors
    BY DEF Pages
  <2>4. ASSUME NEW j \in 1 .. Len(k), k[j].type = "progress" PROVE Ends(w, k, k[j].sector, j)
    <3>1. k[j] \in News
      BY ElementOfSeq
    <3>2. k[j].sector \in Sectors
      BY <3>1 DEF News
    <3>3. QED
      BY <1>9, <2>2, <2>4, <3>2 DEF Spins
  <2>5. \A x \in p.loading : Ends(w, k, x, 0)
    BY <1>9, <2>2, <2>3 DEF Spins
  <2>6. q.known = Sectors /\ q.spinning = q.loading /\ q.loading = p.loading
    BY <1>4, <1>9, <2>1 DEF Spins, SameSpin
  <2>7. QED
    BY <1>4, <1>9, <2>4, <2>5, <2>6 DEF Spins
<1>10. QED
  BY <1>8, <1>9

\* The one sector selected is there.
LEMMA SoleIsThere ==
    ASSUME NEW v \in [Sectors -> SectorRow], NEW p \in Pages, Grounded(v, p),
           NEW x \in Sectors, SoleOf(p, x)
    PROVE  /\ x \in p.known /\ v[x].version \in Nat /\ v[x].version # 0
           /\ <<"delete", x>> \notin Wanted(p)
<1>1. x \in p.drawn
  BY SectorsAssumption DEF SoleOf, Grounded, DrawnAreThere
<1>2. x \in p.known /\ v[x].version > 0 /\ <<"delete", x>> \notin Wanted(p)
  BY <1>1 DEF Grounded, DrawnAreThere
<1>3. QED
  BY <1>2 DEF SectorRow

\* A reply that is handled at once keeps the buildings current.
LEMMA RepliesCover ==
    ASSUME NEW v \in [Sectors -> SectorRow], NEW p \in Pages, NEW k \in Seq(News),
           Grounded(v, p), Covers(v, k, p), NEW i \in 1 .. Len(p.ajax), ~ p.ajax[i].done,
           NEW w, NEW q, NEW r, Handled(p, i, r, q),
           ServerAnswers(v, w, r.op, r.sector, r.reply)
    PROVE  Covers(w, k, q)
<1> DEFINE op == r.op
           s == r.sector
<1>1. /\ s \in Sectors /\ <<op, s>> \in Wanted(p)
      /\ op \in {"save", "rename", "read", "overlay", "coverage", "delete"}
  BY AskIsTyped DEF Handled
<1>2. Follows(p, q, r)
  BY ReplyFollows
<1>3. /\ q.selected = p.selected /\ q.last = p.last
      /\ q.known = IF op = "delete" THEN p.known \ {s} ELSE p.known
      /\ \A x : \A kind : <<kind, x>> \in Wanted(p) =>
            <<kind, x>> \in Wanted(q) \/ (kind = op /\ x = s)
      /\ \A x : \A kind : <<kind, x>> \in Wanted(q) =>
            \/ <<kind, x>> \in Wanted(p)
            \/ kind = "read" /\ x = s /\ op \in FormAsks
            \/ kind = "overlay" /\ x = s /\ op = "read"
      /\ AnswerDraws(p, q, r)
  BY <1>2 DEF Follows
<1>4. ServerAnswers(v, w, op, s, r.reply) /\ RowsMove(v, w, op, s)
  BY AnswersMoveRows DEF Handled
<1>5. v[s].version \in Nat /\ v[s].viewshed \in Nat /\ RowFollows(v[s])
  BY <1>1 DEF SectorRow, Grounded
<1>6. op # "rename"
  BY <1>1 DEF Covers
<1> HIDE DEF op, s
\* A form of a sector that is there has a task queued.
<1>7. ASSUME op \in FormAsks
      PROVE  \/ w[s].task = "queued" /\ w[s].viewshed # w[s].version
             \/ v[s].version = 0 /\ w = v
  <2>1. CASE \E row \in SectorRow :
                /\ w = [v EXCEPT ![s] = row]
                /\ row.task = "queued" /\ row.viewshed = v[s].viewshed
                /\ row.version = IF op = "save" THEN v[s].version + 1 ELSE v[s].version
    <3>1. PICK row \in SectorRow :
                /\ w = [v EXCEPT ![s] = row]
                /\ row.task = "queued" /\ row.viewshed = v[s].viewshed
                /\ row.version = IF op = "save" THEN v[s].version + 1 ELSE v[s].version
      BY <2>1
    <3>2. op = "save"
      BY <1>6, <1>7 DEF FormAsks
    <3>3. w[s] = row
      BY <1>1, <3>1
    <3>4. row.viewshed # row.version
      BY <1>5, <3>1, <3>2 DEF RowFollows
    <3>5. QED
      BY <3>1, <3>3, <3>4
  <2>2. CASE v[s].version = 0 /\ w = v
    BY <2>2
  <2>3. QED
    BY <1>4, <1>7, <2>1, <2>2 DEF ServerAnswers, FormAsks
<1>8. ASSUME op = "delete" PROVE w[s].version = 0 /\ w[s].task = "none"
  <2>1. CASE \E row \in SectorRow :
                /\ w = [v EXCEPT ![s] = row] /\ row.task = "none" /\ row.version = 0
    BY <1>1, <2>1
  <2>2. CASE v[s].version = 0 /\ w = v
    BY <1>5, <2>2 DEF RowFollows
  <2>3. QED
    BY <1>4, <1>8, <2>1, <2>2 DEF ServerAnswers, FormAsks
<1>9. op \notin FormAsks \cup {"delete"} => w = v
  BY <1>4 DEF ServerAnswers
<1>10. \A x \in Sectors \ {s} : w[x] = v[x]
  BY <1>4 DEF RowsMove
<1>11. ASSUME NEW x \in Sectors
       PROVE  /\ w[x].task = "none" /\ w[x].version > 0
                    => w[x].coverage = <<w[x].version, Judged>>
              /\ w[x].task = "queued" => w[x].viewshed # w[x].version
              /\ <<"rename", x>> \notin Wanted(q)
              /\ <<"read", x>> \in Wanted(q) => w[x].task = "queued" \/ w[x].version = 0
  <2>1. <<"rename", x>> \notin Wanted(q)
    <3>1. <<"rename", x>> \notin Wanted(p)
      BY DEF Covers
    <3>2. <<"rename", x>> \in Wanted(q) => <<"rename", x>> \in Wanted(p)
      BY <1>3
    <3>3. QED
      BY <3>1, <3>2
  <2>2. CASE w[x] = v[x] /\ ~ (x = s /\ op \in FormAsks)
    BY <1>3, <2>1, <2>2 DEF Covers
  <2>3. CASE x = s /\ op \in FormAsks
    BY <1>3, <1>7, <2>1, <2>3 DEF Covers
  <2>4. CASE x = s /\ op = "delete"
    BY <1>8, <2>1, <2>4
  <2>5. QED
    BY <1>9, <1>10, <2>2, <2>3, <2>4
<1>12. ASSUME NEW x \in Sectors, SoleOf(q, x)
       PROVE  CoverageDue(w, k, q, x) \/ CoverageShown(w, q, x)
  <2>1. SoleOf(p, x)
    BY <1>3, <1>12 DEF SoleOf
  <2>2. /\ x \in p.known /\ v[x].version \in Nat /\ v[x].version # 0
        /\ <<"delete", x>> \notin Wanted(p)
    BY <2>1, SoleIsThere
  <2>3. CoverageDue(v, k, p, x) \/ CoverageShown(v, p, x)
    BY <2>1 DEF Covers
  <2>4. x \in q.known /\ p.selected = {x} /\ (x = s => op # "delete")
    BY <1>1, <1>3, <2>1, <2>2 DEF SoleOf
  <2>5. ASSUME w[x] = v[x], ~ (x = s /\ op \in {"read", "coverage"})
        PROVE  CoverageDue(w, k, q, x) \/ CoverageShown(w, q, x)
    <3>1. CASE CoverageDue(v, k, p, x)
      BY <1>3, <2>5, <3>1 DEF CoverageDue
    <3>2. CASE CoverageShown(v, p, x)
      <4>1. HeldAndShown(p, x, <<v[x].version, Judged>>)
        BY <3>2 DEF CoverageShown
      <4>2. HeldAndShown(q, x, <<v[x].version, Judged>>)
        BY <1>3, <2>4, <2>5, <4>1 DEF AnswerDraws, op, s
      <4>3. QED
        BY <2>5, <4>2 DEF CoverageShown
    <3>3. QED
      BY <2>3, <3>1, <3>2
  <2>6. CASE x = s /\ op \in FormAsks
    BY <1>7, <2>2, <2>6 DEF CoverageDue
  <2>7. CASE x = s /\ op = "read"
    <3>1. v[s].task = "queued" /\ w = v
      BY <1>1, <1>9, <2>2, <2>7 DEF Covers, FormAsks
    <3>2. QED
      BY <2>7, <3>1 DEF CoverageDue
  <2>8. CASE x = s /\ op = "coverage"
    <3>1. w = v
      BY <1>9, <2>8 DEF FormAsks
    <3>2. CASE v[s].task # "none"
      BY <2>8, <3>1, <3>2 DEF CoverageDue
    <3>3. CASE v[s].task = "none"
      <4>1. v[s].coverage = <<v[s].version, Judged>>
        <5>1. v[s].version > 0
          BY <2>2, <2>8
        <5>2. QED
          BY <1>1, <3>3, <5>1 DEF Covers
      <4>2. PICK c : c = <<v[s].version, Judged>>
        OBVIOUS
      <4>3. c[1] = v[s].version /\ c # NoCoverage
        BY <2>2, <2>8, <4>2 DEF NoCoverage
      <4>4. r.reply = c
        BY <1>4, <2>8, <4>1, <4>2, <4>3 DEF ServerAnswers, FormAsks
      <4>5. HeldAndShown(q, s, c)
        BY <1>3, <2>2, <2>4, <2>8, <4>3, <4>4 DEF AnswerDraws, op, s
      <4>6. QED
        BY <2>8, <3>1, <4>2, <4>5 DEF CoverageShown
    <3>4. QED
      BY <3>2, <3>3
  <2>9. CASE w[x] = v[x] /\ ~ (x = s /\ op \in {"read", "coverage"})
    BY <2>5, <2>9
  <2>10. QED
    BY <1>9, <1>10, <2>4, <2>6, <2>7, <2>8, <2>9
<1>13. QED
  BY <1>11, <1>12 DEF Covers

\* A reply that is handled at once keeps the tiles current.
LEMMA RepliesOverlie ==
    ASSUME NEW v \in [Sectors -> SectorRow], NEW p \in Pages, NEW k \in Seq(News),
           Grounded(v, p), Overlies(v, k, p), NEW i \in 1 .. Len(p.ajax), ~ p.ajax[i].done,
           NEW w, NEW q, NEW r, Handled(p, i, r, q),
           ServerAnswers(v, w, r.op, r.sector, r.reply)
    PROVE  Overlies(w, k, q)
<1> DEFINE op == r.op
           s == r.sector
<1>1. /\ s \in Sectors /\ <<op, s>> \in Wanted(p)
      /\ op \in {"save", "rename", "read", "overlay", "coverage", "delete"}
  BY AskIsTyped DEF Handled
<1>2. Follows(p, q, r)
  BY ReplyFollows
<1>3. /\ q.drawn = p.drawn /\ q.selected = p.selected /\ q.last = p.last
      /\ \A x : \A kind : <<kind, x>> \in Wanted(p) =>
            <<kind, x>> \in Wanted(q) \/ (kind = op /\ x = s)
      /\ \A x : \A kind : <<kind, x>> \in Wanted(q) =>
            \/ <<kind, x>> \in Wanted(p)
            \/ kind = "read" /\ x = s /\ op \in FormAsks
            \/ kind = "overlay" /\ x = s /\ op = "read"
      /\ AnswerDraws(p, q, r)
  BY <1>2 DEF Follows
<1>4. ServerAnswers(v, w, op, s, r.reply) /\ RowsMove(v, w, op, s)
  BY AnswersMoveRows DEF Handled
<1>5. v[s].version \in Nat /\ v[s].viewshed \in Nat /\ RowFollows(v[s])
  BY <1>1 DEF SectorRow, Grounded
<1>6. op \in FormAsks => v[s].task = "none"
  BY DEF Handled, Grounded, OneSave
<1> HIDE DEF op, s
\* What a form leaves of the row: the viewshed is to be made, or is the one there was.
<1>7. ASSUME op \in FormAsks
      PROVE  Remaking(w[s]) \/ (w[s].viewshed = v[s].viewshed /\ ~ Remaking(v[s]))
  <2>1. CASE \E row \in SectorRow :
                /\ w = [v EXCEPT ![s] = row]
                /\ row.task = "queued" /\ row.viewshed = v[s].viewshed
                /\ row.version = IF op = "save" THEN v[s].version + 1 ELSE v[s].version
    <3>1. PICK row \in SectorRow :
                /\ w = [v EXCEPT ![s] = row]
                /\ row.task = "queued" /\ row.viewshed = v[s].viewshed
                /\ row.version = IF op = "save" THEN v[s].version + 1 ELSE v[s].version
      BY <2>1
    <3>2. w[s] = row
      BY <1>1, <3>1
    <3>3. CASE op = "save"
      <4>1. row.viewshed # row.version
        BY <1>5, <3>1, <3>3 DEF RowFollows
      <4>2. QED
        BY <3>2, <4>1 DEF Remaking
    <3>4. CASE op # "save"
      <4>1. v[s].viewshed = v[s].version /\ v[s].task # "viewshed"
        BY <1>5, <1>6, <1>7 DEF RowFollows
      <4>2. QED
        BY <3>1, <3>2, <4>1 DEF Remaking
    <3>5. QED
      BY <3>3, <3>4
  <2>2. CASE v[s].version = 0 /\ w = v
    BY <1>5, <2>2 DEF RowFollows, Remaking
  <2>3. QED
    BY <1>4, <1>7, <2>1, <2>2 DEF ServerAnswers, FormAsks
<1>8. ASSUME op = "delete" PROVE w[s].version = 0
  <2>1. CASE \E row \in SectorRow : w = [v EXCEPT ![s] = row] /\ row.version = 0
    BY <1>1, <2>1
  <2>2. CASE v[s].version = 0 /\ w = v
    BY <2>2
  <2>3. QED
    BY <1>4, <1>8, <2>1, <2>2 DEF ServerAnswers, FormAsks
<1>9. op \notin FormAsks \cup {"delete"} => w = v
  BY <1>4 DEF ServerAnswers
<1>10. \A x \in Sectors \ {s} : w[x] = v[x]
  BY <1>4 DEF RowsMove
<1>11. ASSUME NEW x \in Sectors
       PROVE  \/ w[x] = v[x]
              \/ x = s /\ op \in FormAsks /\
                   (Remaking(w[s]) \/ (w[s].viewshed = v[s].viewshed /\ ~ Remaking(v[s])))
              \/ x = s /\ op = "delete" /\ w[s].version = 0
  BY <1>7, <1>8, <1>9, <1>10
<1>12. q.last \cap q.drawn = q.selected
  BY <1>3 DEF Overlies
<1>13. ASSUME NEW kind \in FormAsks \cup {"read", "overlay"}, NEW x \in Sectors,
              <<kind, x>> \in Wanted(q)
       PROVE  x \in q.selected
  <2>1. CASE <<kind, x>> \in Wanted(p)
    BY <1>3, <2>1 DEF Overlies
  <2>2. CASE x = s /\ op \in FormAsks \cup {"read"}
    BY <1>1, <1>3, <2>2 DEF Overlies
  <2>3. QED
    BY <1>3, <1>13, <2>1, <2>2
<1>14. ASSUME NEW j \in 1 .. Len(k), k[j].type = "viewshed"
       PROVE  \/ k[j].version = w[k[j].sector].viewshed \/ w[k[j].sector].version = 0
              \/ Remaking(w[k[j].sector]) \/ Says(k, "viewshed", k[j].sector, j)
  <2>1. k[j] \in News
    BY ElementOfSeq
  <2>2. PICK x \in Sectors : x = k[j].sector
    BY <2>1 DEF News
  <2>3. \/ k[j].version = v[x].viewshed \/ v[x].version = 0
        \/ Remaking(v[x]) \/ Says(k, "viewshed", x, j)
    BY <1>14, <2>2 DEF Overlies
  <2>4. \/ k[j].version = w[x].viewshed \/ w[x].version = 0
        \/ Remaking(w[x]) \/ Says(k, "viewshed", x, j)
    <3>1. CASE w[x] = v[x]
      BY <2>3, <3>1
    <3>2. CASE x = s /\ op \in FormAsks
      <4>1. CASE w = v
        BY <2>3, <4>1
      <4>2. CASE v[s].version # 0
        BY <1>7, <2>3, <3>2, <4>2
      <4>3. QED
        BY <1>4, <3>2, <4>1, <4>2 DEF ServerAnswers, FormAsks
    <3>3. QED
      BY <1>11, <3>1, <3>2
  <2>5. QED
    BY <2>2, <2>4
<1>15. ASSUME NEW x \in Sectors, SoleOf(q, x)
       PROVE  OverlayDue(w, k, q, x) \/ OverlayShown(w, q, x)
  <2>1. SoleOf(p, x)
    BY <1>3, <1>15 DEF SoleOf
  <2>2. /\ x \in p.known /\ v[x].version \in Nat /\ v[x].version # 0
        /\ <<"delete", x>> \notin Wanted(p)
    BY <2>1, SoleIsThere
  <2>3. OverlayDue(v, k, p, x) \/ OverlayShown(v, p, x)
    BY <2>1 DEF Overlies
  <2>4. p.selected = {x} /\ (x = s => op # "delete") /\ (op = "overlay" => x = s)
    BY <1>1, <2>1, <2>2 DEF SoleOf, Overlies
  <2>5. CASE op = "overlay"
    <3>1. x = s /\ w = v
      BY <1>9, <2>4, <2>5 DEF FormAsks
    <3>2. CASE Remaking(v[s])
      BY <3>1, <3>2 DEF OverlayDue
    <3>3. CASE ~ Remaking(v[s])
      <4>1. v[s].viewshed = v[s].version /\ v[s].version # 0
        BY <2>2, <3>1, <3>3 DEF Remaking
      <4>2. r.reply = v[s].version
        BY <1>4, <2>5, <4>1 DEF ServerAnswers, FormAsks
      <4>3. q.overlay.of = {s} /\ q.overlay.version = r.reply /\ q.overlay.visible
        BY <1>3, <2>4, <2>5, <3>1, <4>1, <4>2 DEF AnswerDraws, op, s
      <4>4. QED
        BY <3>1, <4>1, <4>2, <4>3 DEF OverlayShown
    <3>4. QED
      BY <3>2, <3>3
  <2>6. CASE op # "overlay"
    <3>1. q.overlay = p.overlay
      BY <1>3, <2>6 DEF AnswerDraws, op
    <3>2. <<"overlay", x>> \in Wanted(p) => <<"overlay", x>> \in Wanted(q)
      BY <1>3, <2>6
    <3>3. CASE Says(k, "viewshed", x, 0) \/ <<"overlay", x>> \in Wanted(p)
      BY <3>2, <3>3 DEF OverlayDue
    <3>4. CASE Remaking(v[x])
      BY <1>11, <2>4, <3>4 DEF OverlayDue
    <3>5. CASE OverlayShown(v, p, x)
      BY <1>11, <2>4, <3>1, <3>5 DEF OverlayDue, OverlayShown
    <3>6. QED
      BY <2>3, <3>3, <3>4, <3>5 DEF OverlayDue
  <2>7. QED
    BY <2>5, <2>6
<1>16. QED
  BY <1>12, <1>13, <1>14, <1>15 DEF Overlies

\* The server answers.
LEMMA RespondKeeps ==
    ASSUME DisplayInv, NEW i \in 1 .. Len(display.ajax), Respond(i)
    PROVE  DisplayInv'
<1> DEFINE v == server
           k == socket
           p == display
<1>1. PICK reply :
         /\ ServerAnswers(server, server', display.ajax[i].op, display.ajax[i].sector, reply)
         /\ Reply(i, reply)
  BY RespondAnswers
<1>2. PICK w : w = server'
  OBVIOUS
<1>3. v \in [Sectors -> SectorRow] /\ k \in Seq(News) /\ p \in Pages
  BY DEF DisplayInv, DisplayTypeOK
<1>4. socket' = k /\ sky' = sky /\ ~ p.ajax[i].done
  BY DEF Respond
<1>5. Grounded(v, p) /\ (SpinsAt => Spins(v, k, p))
         /\ (CoversAt => Covers(v, k, p)) /\ (OverliesAt => Overlies(v, k, p))
  BY DEF DisplayInv
<1>6. ServerAnswers(v, w, p.ajax[i].op, p.ajax[i].sector, reply)
  BY <1>1, <1>2
<1>7. display' = IF "overtake" \notin sky
                 THEN Answered([p EXCEPT !.ajax = RemoveAt(p.ajax, i)],
                               [p.ajax[i] EXCEPT !.reply = reply])
                 ELSE [p EXCEPT !.ajax[i].done = TRUE, !.ajax[i].reply = reply]
  BY <1>1 DEF Reply, Arrive
<1> HIDE DEF v, k, p
<1>8. RowsMove(v, w, p.ajax[i].op, p.ajax[i].sector) /\ reply \in Replies
  BY <1>3, <1>4, <1>5, <1>6, AnswersMoveRows DEF ServerAnswers, p
<1>9. w \in [Sectors -> SectorRow]
  BY <1>8 DEF RowsMove
<1>10. i \in 1 .. Len(p.ajax)
  BY DEF p
<1>11. CASE "overtake" \in sky
  <2>1. PICK q : Waits(p, i, reply, q)
    BY DEF Waits
  <2>2. display' = q
    BY <1>7, <1>11, <2>1 DEF Waits
  <2>3. q \in Pages /\ Grounded(w, q) /\ (Spins(v, k, p) => Spins(w, k, q))
    BY <1>3, <1>5, <1>8, <1>10, <1>11, <2>1, WaitingIsSound
  <2>4. ~ CoversAt /\ ~ OverliesAt
    BY <1>11 DEF CoversAt, OverliesAt
  <2>5. QED
    BY <1>2, <1>3, <1>4, <1>5, <1>9, <2>2, <2>3, <2>4, DisplayKept
<1>12. CASE "overtake" \notin sky
  <2>1. PICK r : r = [p.ajax[i] EXCEPT !.reply = reply]
    OBVIOUS
  <2>2. PICK q : q = Answered([p EXCEPT !.ajax = RemoveAt(p.ajax, i)], r)
    OBVIOUS
  <2>3. display' = q
    BY <1>7, <1>12, <2>1, <2>2
  <2>4. p.ajax[i] \in PageAsk
    BY <1>3, <1>10, AskIsTyped
  <2>5. r \in PageAsk /\ r.op = p.ajax[i].op /\ r.sector = p.ajax[i].sector /\ r.reply = reply
    BY <1>8, <2>1, <2>4 DEF PageAsk
  <2>6. Handled(p, i, r, q)
    BY <2>2, <2>5 DEF Handled
  <2>7. RowsMove(v, w, r.op, r.sector) /\ ServerAnswers(v, w, r.op, r.sector, r.reply)
    BY <1>6, <1>8, <2>5
  <2>8. q \in Pages
    BY <1>3, <1>10, <2>6, ReplyFollows DEF Follows
  <2>9. Grounded(w, q) /\ (Spins(v, k, p) => Spins(w, k, q))
    BY <1>3, <1>5, <1>10, <2>6, <2>7, HandledIsSound
  <2>10. ASSUME CoversAt PROVE Covers(w, k, q)
    BY <1>3, <1>4, <1>5, <1>10, <2>6, <2>7, <2>10, RepliesCover
  <2>11. ASSUME OverliesAt PROVE Overlies(w, k, q)
    BY <1>3, <1>4, <1>5, <1>10, <2>6, <2>7, <2>11, RepliesOverlie
  <2>12. QED
    BY <1>2, <1>3, <1>4, <1>5, <1>9, <2>3, <2>8, <2>9, <2>10, <2>11, DisplayKept
<1>13. QED
  BY <1>11, <1>12

\* A reply that has waited is handled.
LEMMA ReceiveKeeps ==
    ASSUME DisplayInv, NEW i \in 1 .. Len(display.ajax), Receive(i)
    PROVE  DisplayInv'
<1> DEFINE v == server
           k == socket
           p == display
<1>1. PICK r : r = [p.ajax[i] EXCEPT !.reply = p.ajax[i].reply]
  OBVIOUS
<1>2. PICK q : q = Answered([p EXCEPT !.ajax = RemoveAt(p.ajax, i)], r)
  OBVIOUS
<1>3. v \in [Sectors -> SectorRow] /\ k \in Seq(News) /\ p \in Pages
  BY DEF DisplayInv, DisplayTypeOK
<1>4. server' = v /\ socket' = k /\ sky' = sky /\ display' = q /\ p.ajax[i].done
  BY <1>1, <1>2 DEF Receive, Arrive
<1>5. Grounded(v, p) /\ (SpinsAt => Spins(v, k, p))
  BY DEF DisplayInv
<1>6. i \in 1 .. Len(p.ajax)
  OBVIOUS
<1> HIDE DEF v, k, p
<1>7. p.ajax[i] \in PageAsk
  BY <1>3, <1>6, AskIsTyped
<1>8. r \in PageAsk /\ r.op = p.ajax[i].op /\ r.sector = p.ajax[i].sector
  BY <1>1, <1>7 DEF PageAsk
<1>9. Handled(p, i, r, q)
  BY <1>2, <1>8 DEF Handled
<1>10. RowsMove(v, v, r.op, r.sector)
  BY <1>3, <1>5 DEF RowsMove, Grounded
<1>11. q \in Pages
  BY <1>3, <1>6, <1>9, ReplyFollows DEF Follows
<1>12. Grounded(v, q) /\ (Spins(v, k, p) => Spins(v, k, q))
  BY <1>3, <1>5, <1>6, <1>9, <1>10, HandledIsSound
<1>13. "overtake" \in sky
  BY <1>4, <1>5, <1>6 DEF Grounded, InTime
<1>14. ~ CoversAt /\ ~ OverliesAt
  BY <1>13 DEF CoversAt, OverliesAt
<1>15. QED
  BY <1>3, <1>4, <1>5, <1>11, <1>12, <1>14, DisplayKept

------------------------------------------------------------------------------
(* The coverage: the theorems *)

\* The page as it is loaded.
LEMMA DisplayInvInit == DisplayInit => DisplayInv
<1> SUFFICES ASSUME DisplayInit PROVE DisplayInv
  OBVIOUS
<1>1. PageLoaded
  BY DEF DisplayInit
<1>2. PICK row : row = [version |-> 1, viewshed |-> 1, coverage |-> <<1, Judged>>, task |-> "none"]
  OBVIOUS
<1>3. /\ row \in SectorRow /\ row.version = 1 /\ row.viewshed = 1
      /\ row.coverage = <<1, Judged>> /\ row.task = "none"
  BY <1>2 DEF SectorRow, Coverages, Stages, Judged
<1>4. server \in [Sectors -> SectorRow] /\ \A s \in Sectors : server[s] = row
  BY <1>1, <1>2, <1>3 DEF PageLoaded
<1>5. socket = <<>> /\ socket \in Seq(News)
  BY <1>1 DEF PageLoaded
<1>6. PICK none : none = [s \in Sectors |-> NoCoverage]
  OBVIOUS
<1>7. PICK tiles : tiles = [of |-> {}, version |-> 0, visible |-> FALSE, tiles |-> FALSE]
  OBVIOUS
<1>8. none \in [Sectors -> Replies] /\ tiles \in Overlays
  <2>1. NoCoverage \in Replies /\ 0 \in Replies
    BY DEF NoCoverage, Replies, Coverages
  <2>2. QED
    BY <1>6, <1>7, <2>1 DEF Overlays
<1>9. none \in UNION {[D -> Replies] : D \in SUBSET Sectors}
  BY <1>8
<1>10. display = [known |-> Sectors, drawn |-> Sectors, selected |-> {}, held |-> none,
                  shown |-> none, loading |-> {}, spinning |-> {}, overlay |-> tiles,
                  last |-> {}, ajax |-> <<>>]
  BY <1>1, <1>6, <1>7 DEF PageLoaded
<1>11. /\ display \in Pages /\ display.ajax = <<>> /\ display.known = Sectors
       /\ display.drawn = Sectors /\ display.selected = {} /\ display.last = {}
       /\ display.loading = {} /\ display.spinning = {}
  BY <1>8, <1>9, <1>10 DEF Pages, Chosen
<1>12. Wanted(display) = {}
  BY <1>11 DEF Wanted
<1>13. \A s \in Sectors : RowFollows(server[s])
  BY <1>3, <1>4 DEF RowFollows
<1>14. DrawnAreThere(server, display)
  BY <1>3, <1>4, <1>11, <1>12 DEF DrawnAreThere
<1>15. Grounded(server, display)
  BY <1>11, <1>13, <1>14 DEF Grounded, OneSave, InTime
<1>16. Spins(server, socket, display)
  BY <1>5, <1>11, <1>12 DEF Spins
<1>17. \A s \in Sectors : ~ SoleOf(display, s)
  BY <1>11 DEF SoleOf
<1>18. Covers(server, socket, display)
  BY <1>3, <1>4, <1>12, <1>17 DEF Covers
<1>19. Overlies(server, socket, display)
  BY <1>5, <1>11, <1>12, <1>17 DEF Overlies
<1>20. QED
  BY <1>4, <1>5, <1>11, <1>15, <1>16, <1>18, <1>19 DEF DisplayInv, DisplayTypeOK

\* Every step keeps it.
LEMMA DisplayInvStep == DisplayInv /\ [DisplayNext]_displayVars => DisplayInv'
<1> SUFFICES ASSUME DisplayInv, [DisplayNext]_displayVars PROVE DisplayInv'
  OBVIOUS
<1>1. CASE DisplayUser
  <2>1. CASE \E S \in SUBSET (display.drawn \cup {Mast}) : Select(S)
    BY <2>1, SelectKeeps
  <2>2. CASE \E s \in display.drawn : \E form \in {"save", "rename"} : Submit(s, form)
    BY <2>2, SubmitKeeps
  <2>3. CASE \E s \in display.drawn : Delete(s)
    BY <2>3, DeleteKeeps
  <2>4. QED
    BY <1>1, <2>1, <2>2, <2>3 DEF DisplayUser
<1>2. CASE DisplaySystem
  <2>1. CASE \E i \in 1 .. Len(display.ajax) : Respond(i)
    BY <2>1, RespondKeeps
  <2>2. CASE \E i \in 1 .. Len(display.ajax) : Receive(i)
    BY <2>2, ReceiveKeeps
  <2>3. CASE \E s \in Sectors : Task(s)
    BY <2>3, TaskKeeps
  <2>4. CASE Hear
    BY <2>4, HearKeeps
  <2>5. CASE TilesLoaded
    BY <2>5, TilesKeep
  <2>6. QED
    BY <1>2, <2>1, <2>2, <2>3, <2>4, <2>5 DEF DisplaySystem
<1>3. CASE UNCHANGED displayVars
  <2>1. server' = server /\ socket' = socket /\ display' = display /\ sky' = sky
    BY <1>3 DEF displayVars
  <2>2. QED
    BY <2>1, DisplayKept DEF DisplayInv, DisplayTypeOK
<1>4. QED
  BY <1>1, <1>2, <1>3 DEF DisplayNext

\* In every behaviour.
LEMMA DisplayInvAlways == DisplaySpec => []DisplayInv
  BY DisplayInvInit, DisplayInvStep, PTL DEF DisplaySpec

\* Once everything has settled nothing spins, in whatever order the replies came, while
\* tasks do not fail, the socket stays open and no sector is deleted: a tower that is
\* loading has a task at work or its completion on the socket.
THEOREM SpinnersStop == DisplaySpec => []SpinnersEnd
<1>1. ASSUME DisplayInv PROVE SpinnersEnd
  <2> SUFFICES ASSUME Settled, SpinsAt
               PROVE  display.loading = {} /\ display.spinning = {}
    BY DEF SpinnersEnd, SpinsAt
  <2>1. Spins(server, socket, display)
    BY <1>1 DEF DisplayInv
  <2>2. display.loading \subseteq Sectors
    BY <1>1 DEF DisplayInv, DisplayTypeOK, Pages
  <2>3. ASSUME NEW s \in display.loading PROVE FALSE
    <3>1. server[s].task \in AtWork \/ Says(socket, "complete", s, 0)
      BY <2>1 DEF Spins, Ends
    <3>2. server[s].task = "none" /\ socket = <<>>
      BY <2>2 DEF Settled
    <3>3. QED
      BY <3>1, <3>2 DEF AtWork, Says
  <2>4. QED
    BY <2>1, <2>3 DEF Spins
<1>2. QED
  BY <1>1, DisplayInvAlways, PTL

\* The buildings shown of the one selected sector are, once everything has settled,
\* those of its present parameters judged to the last: whoever has not been shown them
\* has a task to come, its completion on the socket, or the request on its way.
THEOREM CoverageShownIsCurrent == DisplaySpec => []SelectedCoverageIsCurrent
<1>1. ASSUME DisplayInv PROVE SelectedCoverageIsCurrent
  <2> SUFFICES ASSUME Settled, CoversAt, NEW s \in Sectors, Sole(s)
               PROVE  display.shown[s] = CoverageOf(s)
    BY DEF SelectedCoverageIsCurrent, CoversAt
  <2>1. /\ server \in [Sectors -> SectorRow] /\ display \in Pages
        /\ Grounded(server, display) /\ Covers(server, socket, display)
    BY <1>1 DEF DisplayInv, DisplayTypeOK
  <2>2. SoleOf(display, s)
    BY DEF Sole, SoleOf
  <2>3. server[s].version \in Nat /\ server[s].version # 0
    BY <2>1, <2>2, SoleIsThere
  <2>4. server[s].version > 0
    BY <2>3
  <2>5. server[s].task = "none" /\ display.ajax = <<>> /\ socket = <<>>
    BY DEF Settled
  <2>6. server[s].coverage = <<server[s].version, Judged>>
    BY <2>1, <2>4, <2>5 DEF Covers
  <2>7. PICK c : c = <<server[s].version, Judged>>
    OBVIOUS
  <2>8. c[1] = server[s].version
    BY <2>7
  <2>9. CoverageOf(s) = c
    BY <2>6, <2>7, <2>8 DEF CoverageOf
  <2>10. ~ CoverageDue(server, socket, display, s)
    BY <2>5 DEF CoverageDue, Says, Wanted
  <2>11. CoverageShown(server, display, s)
    BY <2>1, <2>2, <2>10 DEF Covers
  <2>12. QED
    BY <2>7, <2>9, <2>11 DEF CoverageShown, HeldAndShown
<1>2. QED
  BY <1>1, DisplayInvAlways, PTL

\* The tiles over the map are, once everything has settled, those of the last viewshed of
\* the one selected sector: whichever others have been laid, its own are to be made, told
\* of or asked for.
THEOREM TilesAreOfTheSelected == DisplaySpec => []OverlayIsOfTheSelected
<1>1. ASSUME DisplayInv PROVE OverlayIsOfTheSelected
  <2> SUFFICES ASSUME Settled, OverliesAt, NEW s \in Sectors, Sole(s)
               PROVE  display.overlay = [of |-> {s}, version |-> server[s].viewshed,
                                         visible |-> TRUE, tiles |-> FALSE]
    BY DEF OverlayIsOfTheSelected, OverliesAt
  <2>1. /\ server \in [Sectors -> SectorRow] /\ display \in Pages
        /\ Grounded(server, display) /\ Overlies(server, socket, display)
    BY <1>1 DEF DisplayInv, DisplayTypeOK
  <2>2. SoleOf(display, s)
    BY DEF Sole, SoleOf
  <2>3. /\ server[s].task = "none" /\ display.ajax = <<>> /\ socket = <<>>
        /\ ~ display.overlay.tiles
    BY DEF Settled
  <2>4. ~ Remaking(server[s])
    BY <2>1, <2>3 DEF Grounded, RowFollows, Remaking
  <2>5. ~ OverlayDue(server, socket, display, s)
    BY <2>3, <2>4 DEF OverlayDue, Says, Wanted
  <2>6. OverlayShown(server, display, s)
    BY <2>1, <2>2, <2>5 DEF Overlies
  <2>7. display.overlay \in Overlays
    BY <2>1 DEF Pages
  <2>8. QED
    BY <2>3, <2>6, <2>7 DEF OverlayShown, Overlays
<1>2. QED
  BY <1>1, DisplayInvAlways, PTL
=============================================================================
