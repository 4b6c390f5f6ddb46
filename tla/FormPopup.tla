------------------------------ MODULE FormPopup ------------------------------
(***************************************************************************)
(* The popups over the map (of the beta page): one for towers, one for     *)
(* sectors, one for customers, each a singleton that is set to a feature   *)
(* and asks the server for that feature's form.  A form posts its fields,  *)
(* adds a sector, or asks through one shared dialog whether to delete.     *)
(*                                                                         *)
(* A popup's feature may change while it waits for a form, an answer or    *)
(* the dialog; callbacks look at the feature it has then.  (The test that  *)
(* a response belongs to the feature compares the current one to itself.)  *)
(***************************************************************************)
EXTENDS Integers, Sequences, FiniteSets, SequencesExt

CONSTANTS APs, APSectors, NewSectors, CPEs,  \* towers, sectors and those to be made, customers
          Nobody,
          Tempers    \* what the user is like, see Temper, and a bound on what he does

Kinds == {"tower", "sector", "cpe"}
KindOf(f) == IF f \in APs THEN "tower" ELSE IF f \in CPEs THEN "cpe" ELSE "sector"
Existing  == APs \cup APSectors \cup CPEs

\* The user does not wait for answers; deletes sectors after having asked to delete
\* a tower or a customer.
Temper == {"hasty", "mixed"}

ASSUME TempersAssumption == Tempers \subseteq (SUBSET Temper) \X Nat

\* Features are told apart by their UUIDs.
ASSUME UuidsAssumption ==
    /\ APs \cap CPEs = {} /\ (APSectors \cup NewSectors) \cap (APs \cup CPEs) = {}
    /\ {Nobody, "loading", "error"} \cap (Existing \cup NewSectors) = {}

VARIABLES
    temper,
    clicks,   \* that are left to the user
    popup,    \* the three popups, the dialog and what is on its way, see NothingOpen
    stored,   \* the rows: feature -> feature whose fields were saved there last
    homes,    \* towers of the sectors
    acts      \* <<form, feature>>: whose form was acted upon, and on what

popupVars == <<temper, clicks, popup, stored, homes, acts>>

NothingOpen ==
    /\ acts = {}
    /\ stored = [f \in Existing |-> f]
    /\ popup = [drawn |-> Existing,
                of    |-> [k \in Kinds |-> Nobody],
                form  |-> [k \in Kinds |-> "loading"], \* or "error", or whose it is
                open  |-> {},
                shown |-> <<>>,         \* COMPONENT_SHOWN, published asynchronously
                asks  |-> <<>>,         \* AJAX requests
                button |-> "sector",    \* whose handler the dialog's button has
                doomed |-> Nobody,      \* the dialog's feature
                question |-> Nobody]    \* whose deletion the user was asked to confirm

PopupInit ==
    /\ \E user \in Tempers : temper = user[1] /\ clicks = user[2]
    /\ homes \in [APSectors -> APs]
    /\ NothingOpen

------------------------------------------------------------------------------
(* The popups *)

Ajax(p, op, k, f, form) ==
    [p EXCEPT !.asks = Append(@, [op |-> op, kind |-> k, feature |-> f, form |-> form])]

Hide(p, k) == [p EXCEPT !.open = @ \ {k}]

\* A popup that is open already is left as it is.
Show(p, k) ==
    LET q == [p EXCEPT !.shown = Append(@, k)]
    IN  IF k \in p.open THEN q
        ELSE Ajax([q EXCEPT !.open = @ \cup {k}, !.form[k] = "loading"], "form", k, p.of[k], Nobody)

SwitchTo_StillOpen(p, f) == Show([p EXCEPT !.of[KindOf(f)] = f], KindOf(f))

\* Hides, is set to the feature and is shown.
SwitchTo(p, f) == Show([Hide(p, KindOf(f)) EXCEPT !.of[KindOf(f)] = f], KindOf(f))

\* draw.delete: the popups of what goes are hidden (not the customers'), and the
\* sectors of a tower go at once.
DrawDeleted(p, f) ==
    LET gone == {f} \cup {s \in DOMAIN homes : homes[s] = f}
        Closed == {k \in {"tower", "sector"} : p.of[k] \in gone}
    IN  Ajax([p EXCEPT !.open = @ \ Closed, !.drawn = @ \ (gone \ {f})], "delete", KindOf(f), f, Nobody)

\* CRUDCallback: the popup turns to a tower that was read.
TowerRead(p, f) == IF f \in APs /\ p.of["tower"] # f THEN SwitchTo(p, f) ELSE p

------------------------------------------------------------------------------
(* The user *)

ClickSomething ==
    /\ clicks > 0 /\ clicks' = clicks - 1
    /\ "hasty" \in temper \/ (popup.asks = <<>> /\ popup.shown = <<>>)
    /\ UNCHANGED <<temper, stored, homes>>

OpenForm(k) == k \in popup.open /\ popup.form[k] \in Existing \cup NewSectors

\* A click on the map, or on another sector in the list of the popup's.
OpenPopup(f) ==
    /\ ClickSomething /\ popup.question = Nobody
    /\ popup' = SwitchTo(popup, f)
    /\ UNCHANGED acts

\* Closed, or hidden as the feature is dragged or hidden.
ClosePopup(k) ==
    /\ ClickSomething /\ popup.question = Nobody
    /\ k \in popup.open
    /\ popup' = Hide(popup, k)
    /\ UNCHANGED acts

BackToTower ==
    /\ ClickSomething /\ popup.question = Nobody
    /\ OpenForm("sector")
    /\ popup' = Show([popup EXCEPT !.of["tower"] = homes[popup.of["sector"]]], "tower")
    /\ UNCHANGED acts

SubmitForm(k) ==
    /\ ClickSomething /\ popup.question = Nobody
    /\ OpenForm(k) /\ k # "cpe"
    /\ popup' = Ajax(popup, "submit", k, popup.of[k], popup.form[k])
    /\ acts' = acts \cup {<<popup.form[k], popup.of[k]>>}

\* From the tower's popup the tower is read first; from a sector's not.
PlaceSector(k) ==
    /\ ClickSomething /\ popup.question = Nobody
    /\ OpenForm(k) /\ k # "cpe"
    /\ popup' = IF k = "tower" THEN Ajax(popup, "place", k, popup.of[k], popup.form[k])
                ELSE Ajax(popup, "create", k, homes[popup.of[k]], popup.form[k])
    /\ acts' = IF k = "tower" THEN acts ELSE acts \cup {<<popup.form[k], popup.of[k]>>}

\* The sector's button tells the dialog which feature; the tower's and the customer's
\* replace the handlers of its button.
AskDelete_Once(k) ==
    /\ ClickSomething /\ popup.question = Nobody
    /\ OpenForm(k)
    /\ k = "sector" => popup.button = "sector" \/ "mixed" \in temper
    /\ popup' = IF k = "sector"
                THEN [popup EXCEPT !.question = popup.form[k],
                                   !.doomed = IF @ = Nobody THEN popup.of[k] ELSE @]
                ELSE [popup EXCEPT !.question = popup.form[k], !.button = k]
    /\ UNCHANGED acts

AskDelete(k) ==
    /\ ClickSomething /\ popup.question = Nobody
    /\ OpenForm(k)
    /\ k = "sector" => popup.button = "sector" \/ "mixed" \in temper
    /\ popup' = IF k = "sector"
                THEN [popup EXCEPT !.question = popup.form[k], !.doomed = popup.of[k]]
                ELSE [popup EXCEPT !.question = popup.form[k], !.button = k]
    /\ UNCHANGED acts

Cancel ==
    /\ ClickSomething /\ popup.question # Nobody
    /\ popup' = [popup EXCEPT !.question = Nobody]
    /\ UNCHANGED acts

Confirm ==
    /\ ClickSomething /\ popup.question # Nobody
    /\ LET p == [popup EXCEPT !.question = Nobody]
           b == popup.button
           f == IF b = "sector" THEN p.doomed ELSE p.of[b]
       IN  /\ popup' = IF f = Nobody THEN p
                       ELSE CASE b = "sector" ->
                                   Hide(DrawDeleted([p EXCEPT !.drawn = @ \ {f}, !.doomed = Nobody], f), b)
                              [] b = "tower" -> DrawDeleted(p, f)
                              [] b = "cpe"   -> Ajax(Hide(p, b), "delete", b, f, Nobody)
           /\ acts' = acts \cup {<<popup.question, f>>}

------------------------------------------------------------------------------
(* The server's answers, and what the popups do with them *)

FormArrives(p, r) ==   \* the popup opens again if it was closed
    [p EXCEPT !.form[r.kind] = IF r.feature \in DOMAIN stored THEN r.feature ELSE "error",
              !.open = @ \cup {r.kind}]

\* The answer of a form is the form again, and the popup's feature is read.
Submitted(p, r) == Ajax([p EXCEPT !.form[r.kind] = r.feature], "read", r.kind, p.of[r.kind], Nobody)

\* Nothing comes of a request for a row that is gone but an error in place of the form:
\* a read then asks to delete it, in vain.
Missing(p, r) == IF r.op = "form" THEN FormArrives(p, r) ELSE p

Answer(i) ==
    LET r == popup.asks[i]
        p == [popup EXCEPT !.asks = RemoveAt(@, i)]
        Same == UNCHANGED <<stored, homes>>
    IN  /\ \/ /\ r.feature \notin DOMAIN stored
              /\ popup' = Missing(p, r) /\ Same /\ UNCHANGED acts
           \/ /\ r.feature \in DOMAIN stored
              /\ \/ r.op = "form" /\ popup' = FormArrives(p, r) /\ Same /\ UNCHANGED acts
                 \/ r.op = "read" /\ popup' = TowerRead(p, r.feature) /\ Same /\ UNCHANGED acts
                 \/ /\ r.op = "submit"
                    /\ stored' = [stored EXCEPT ![r.feature] = r.form]
                    /\ popup' = Submitted(p, r)
                    /\ UNCHANGED <<homes, acts>>
                 \/ /\ r.op = "place"   \* for the tower the popup has now
                    /\ LET q == TowerRead(p, r.feature)
                       IN  /\ popup' = Ajax(q, "create", "tower", q.of["tower"], r.form)
                           /\ acts' = acts \cup {<<r.form, q.of["tower"]>>}
                    /\ Same
                 \/ /\ r.op = "create"
                    /\ \E s \in NewSectors \ DOMAIN stored :
                          /\ stored' = [f \in DOMAIN stored \cup {s} |-> IF f = s THEN s ELSE stored[f]]
                          /\ homes' = [f \in DOMAIN homes \cup {s} |->
                                         IF f = s THEN r.feature ELSE homes[f]]
                          /\ popup' = SwitchTo([p EXCEPT !.drawn = @ \cup {s}], s)
                    /\ UNCHANGED acts
                 \/ /\ r.op = "delete"
                    /\ stored' = [f \in {g \in DOMAIN stored : g # r.feature
                                          /\ ~(g \in DOMAIN homes /\ homes[g] = r.feature)} |-> stored[f]]
                    /\ popup' = [p EXCEPT !.drawn = @ \ {r.feature}]
                    /\ UNCHANGED <<homes, acts>>
        /\ UNCHANGED <<temper, clicks>>

\* The other popups hide when one is shown.
HearShown ==
    /\ popup.shown # <<>>
    /\ popup' = [popup EXCEPT !.shown = Tail(@), !.open = @ \cap {Head(popup.shown)}]
    /\ UNCHANGED <<temper, clicks, stored, homes, acts>>

PopupNext ==
    \/ \E f \in popup.drawn : OpenPopup(f)
    \/ \E k \in Kinds : ClosePopup(k) \/ SubmitForm(k) \/ PlaceSector(k) \/ AskDelete(k)
    \/ BackToTower \/ Cancel \/ Confirm
    \/ \E i \in 1 .. Len(popup.asks) : Answer(i)
    \/ HearShown

PopupSpec == PopupInit /\ [][PopupNext]_popupVars

------------------------------------------------------------------------------
(* Properties *)

\* To a user who waits for answers an open popup shows the form of the feature it is
\* set to, and no other popup is open with it.
PopupShowsItsFeature ==
    "hasty" \notin temper =>
        /\ \A k \in popup.open : popup.form[k] \in {"loading", "error", popup.of[k]}
        /\ popup.shown = <<>> => Cardinality(popup.open) <= 1

\* Fields are saved in the row of the feature they were shown for, new sectors get
\* the tower they were added to, and only what the dialog was opened for is deleted.
FormsActOnTheirFeature ==
    temper = {} => \A a \in acts : a[1] = a[2]
=============================================================================
