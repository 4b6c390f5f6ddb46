---------------------------- MODULE MapOverlays -----------------------------
(***************************************************************************)
(* The overlays of the market evaluator.  Switches of which one is on at a *)
(* time lay public data over the map: areas (auctioned blocks, counties,   *)
(* zip codes, tribal lands) that tell about themselves under the mouse and *)
(* become areas of the workspace when clicked, and registered masts that   *)
(* can be plotted as towers.                                               *)
(*                                                                         *)
(* A click on an area asks for its outline over the websocket; a task per  *)
(* request answers.  Only the last request of each overlay counts, and an  *)
(* answer is dropped whose name a stored area has already.  What is drawn  *)
(* is stored by a POST of its own.                                         *)
(***************************************************************************)
EXTENDS Integers, FiniteSets

CONSTANTS Shapes,    \* areas of the overlays: <<overlay, name, number>>
          Masts,
          Nothing,
          Manners    \* what may happen together, see Manner, and a bound on the clicks

\* The user clicks before the overlays are there, or before what he added is stored;
\* draws a tower while an answer is under way; clicks a plot button that stays; deletes
\* areas; names are the same for several areas; an area's tile id is 0; requests fail.
Manner == {"early", "hasty", "drawing", "again", "delete", "twins", "zero", "fail"}

ASSUME MannersAssumption == Manners \subseteq (SUBSET Manner) \X Nat
ASSUME ShapesAssumption  ==
    /\ Nothing \notin Shapes \cup Masts \cup {s[1] : s \in Shapes} \cup {"tower"}
    /\ Shapes \cap Masts = {}

VARIABLES
    manner,
    toClick,  \* clicks left to the user
    panel,    \* switches and overlays, see NothingClicked
    hover,    \* the mouse, and the popup that follows it
    geog,     \* requests for outlines
    drawn,    \* workspace features added here: [of, n, state]
    mast      \* the popup of a mast

overlayVars == <<manner, toClick, panel, hover, geog, drawn, mast>>

Overlays == {s[1] : s \in Shapes} \cup {"tower"}
NameOf(s) == IF "twins" \in manner THEN <<s[1], s[2]>> ELSE s

NothingClicked ==
    /\ panel = [awaited |-> Overlays, active |-> Nothing, checked |-> {}, shown |-> {},
                mode |-> "simple_select"]
    /\ hover = [mouse |-> Nothing, open |-> FALSE, html |-> Nothing]
    /\ geog = [current |-> [o \in Overlays |-> 0], asked |-> {}, replies |-> {},
               clicked |-> [o \in Overlays |-> Nothing], count |-> 0]
    /\ drawn = {}
    /\ mast = [of |-> Nothing, button |-> "plot", saves |-> {}]

OverlaysInit ==
    /\ \E m \in Manners : manner = m[1] /\ toClick = m[2]
    /\ NothingClicked

Ready == panel.awaited = {}

Click ==
    /\ toClick > 0 /\ toClick' = toClick - 1
    /\ UNCHANGED manner

------------------------------------------------------------------------------
(* The switches *)

SourceArrives(o) ==
    /\ o \in panel.awaited
    /\ panel' = [panel EXCEPT !.awaited = @ \ {o}]
    /\ UNCHANGED <<manner, toClick, hover, geog, drawn, mast>>

Toggle(S, x) == IF x \in S THEN S \ {x} ELSE S \cup {x}

\* The layers and handlers of an overlay, on the map or gone.
Put(p, o) == [p EXCEPT !.shown = @ \cup {o}]

Remove(p, o) == [p EXCEPT !.shown = @ \ {o}]

\* The browser toggles the checkbox, whatever the handler then does.
Switched_KeepOther(p, o) ==
    LET q == [p EXCEPT !.checked = Toggle(@, o)]
    IN  IF p.active = o THEN [Remove(q, o) EXCEPT !.active = Nothing]
        ELSE [Put(Remove(q, p.active), o) EXCEPT !.active = o]

Switched(p, o) ==
    LET q == [p EXCEPT !.checked = Toggle(@, o)]
    IN  IF p.active = o THEN [Remove(q, o) EXCEPT !.active = Nothing]
        ELSE [Put(Remove(q, p.active), o) EXCEPT !.active = o,
                                                 !.checked = @ \ {p.active}]

\* To remove the overlay of masts hides their popup.
ClickSwitch(o) ==
    /\ Click
    /\ hover.mouse = Nothing
    /\ panel' = IF Ready THEN Switched(panel, o) ELSE [panel EXCEPT !.checked = Toggle(@, o)]
    /\ Ready \/ "early" \in manner
    /\ mast' = IF panel.active = "tower" THEN [mast EXCEPT !.of = Nothing] ELSE mast
    /\ UNCHANGED <<hover, geog, drawn>>

------------------------------------------------------------------------------
(* The popup under the mouse *)

HasIdZero(s) == "zero" \in manner /\ s[3] = 1

HidePopup(h) == [h EXCEPT !.open = FALSE]

\* An open popup keeps its contents.
ShowPopup(h, s) == [mouse |-> s, open |-> TRUE, html |-> IF h.open THEN h.html ELSE s]

Pointed(h, s) == ShowPopup(HidePopup(h), s)

MouseMove(s) ==
    /\ s[1] \in panel.shown
    /\ hover.mouse # s
    /\ hover' = Pointed(hover, s)
    /\ UNCHANGED <<manner, toClick, panel, geog, drawn, mast>>

\* A feature whose id is 0 is taken for none.
MouseLeave ==
    /\ hover.mouse # Nothing
    /\ hover' = [hover EXCEPT !.mouse = Nothing, !.open = @ /\ HasIdZero(hover.mouse)]
    /\ UNCHANGED <<manner, toClick, panel, geog, drawn, mast>>

------------------------------------------------------------------------------
(* Areas of an overlay become areas of the workspace *)

Busy == \/ geog.asked # {} \/ geog.replies # {} \/ mast.saves # {}
        \/ \E f \in drawn : f.state # "stored"

\* Mutant: the request that counts stays the first one.
ClickShape_KeepFirst(s) ==
    /\ Click
    /\ hover.mouse = s
    /\ "hasty" \in manner \/ ~Busy
    /\ hover' = [hover EXCEPT !.open = FALSE]
    /\ geog' = [geog EXCEPT !.count = @ + 1,
                            !.current[s[1]] = IF @ = 0 THEN geog.count + 1 ELSE @,
                            !.asked = @ \cup {<<s, geog.count + 1>>},
                            !.clicked[s[1]] = s]
    /\ UNCHANGED <<panel, drawn, mast>>

\* The map closes its popups when it is clicked.
ClickShape(s) ==
    /\ Click
    /\ hover.mouse = s
    /\ "hasty" \in manner \/ ~Busy
    /\ hover' = [hover EXCEPT !.open = FALSE]
    /\ geog' = [geog EXCEPT !.count = @ + 1,
                            !.current[s[1]] = geog.count + 1,
                            !.asked = @ \cup {<<s, geog.count + 1>>},
                            !.clicked[s[1]] = s]
    /\ UNCHANGED <<panel, drawn, mast>>

\* The outline; an error, or a failure of the query or of the task, which comes to
\* nothing in the page.
GeogTask(s, n) ==
    /\ <<s, n>> \in geog.asked
    /\ \/ geog' = [geog EXCEPT !.asked = @ \ {<<s, n>>}, !.replies = @ \cup {<<s, n>>}]
       \/ "fail" \in manner /\ geog' = [geog EXCEPT !.asked = @ \ {<<s, n>>}]
    /\ UNCHANGED <<manner, toClick, panel, hover, drawn, mast>>

\* Mutant: what is drawn already is not looked at.
KnownNames_None == {}

KnownNames == {NameOf(f.of) : f \in {g \in drawn : g.of \in Shapes /\ g.state \in {"stored", "deleting"}}}

\* The area is drawn and selected; what is created while a tower is being drawn is not
\* stored unless it is a point.
ReceiveGeog(s, n) ==
    /\ <<s, n>> \in geog.replies
    /\ geog' = [geog EXCEPT !.replies = @ \ {<<s, n>>}]
    /\ IF geog.current[s[1]] = n /\ NameOf(s) \notin KnownNames
       THEN /\ drawn' = drawn \cup {[of |-> s, n |-> n,
                                     state |-> IF panel.mode = "draw_ap" THEN "unsaved" ELSE "posting"]}
            /\ panel' = [panel EXCEPT !.mode = "simple_select"]
       ELSE UNCHANGED <<drawn, panel>>
    /\ UNCHANGED <<manner, toClick, hover, mast>>

StartDrawing ==
    /\ Click
    /\ "drawing" \in manner /\ panel.mode # "draw_ap"
    /\ panel' = [panel EXCEPT !.mode = "draw_ap"]
    /\ UNCHANGED <<hover, geog, drawn, mast>>

Posted(f) ==
    /\ f \in drawn /\ f.state = "posting"
    /\ \/ drawn' = (drawn \ {f}) \cup {[f EXCEPT !.state = "stored"]}
       \/ "fail" \in manner /\ drawn' = drawn \ {f}
    /\ UNCHANGED <<manner, toClick, panel, hover, geog, mast>>

DeleteArea(f) ==
    /\ Click
    /\ "delete" \in manner
    /\ f \in drawn /\ f.of \in Shapes /\ f.state = "stored"
    /\ drawn' = (drawn \ {f}) \cup {[f EXCEPT !.state = "deleting"]}
    /\ UNCHANGED <<panel, hover, geog, mast>>

Deleted(f) ==
    /\ f \in drawn /\ f.state = "deleting"
    /\ drawn' = drawn \ {f}
    /\ UNCHANGED <<manner, toClick, panel, hover, geog, mast>>

------------------------------------------------------------------------------
(* Masts become towers *)

PlottedAt(m) == \E f \in drawn : f.of = m

ButtonRow(m) == IF PlottedAt(m) THEN "plotted" ELSE "plot"

ClickMast(m) ==
    /\ Click
    /\ "tower" \in panel.shown
    /\ mast.saves = {}
    /\ mast' = [mast EXCEPT !.of = m, !.button = ButtonRow(m)]
    /\ UNCHANGED <<panel, hover, geog, drawn>>

\* The button row is refreshed before the tower is there.
PlotAsTower ==
    /\ Click
    /\ mast.of # Nothing /\ mast.button # "plotted"
    /\ mast.button = "again" => "again" \in manner
    /\ geog' = [geog EXCEPT !.count = @ + 1]
    /\ mast' = [mast EXCEPT !.saves = @ \cup {<<mast.of, geog.count + 1>>},
                            !.button = IF PlottedAt(mast.of) THEN "plotted" ELSE "again"]
    /\ UNCHANGED <<panel, hover, drawn>>

SaveMast(m, n) ==
    /\ <<m, n>> \in mast.saves
    /\ mast' = [mast EXCEPT !.saves = @ \ {<<m, n>>}]
    /\ drawn' = drawn \cup {[of |-> m, n |-> n, state |-> "posting"]}
    /\ UNCHANGED <<manner, toClick, panel, hover, geog>>

OverlaysNext ==
    \/ \E o \in Overlays : SourceArrives(o) \/ ClickSwitch(o)
    \/ \E s \in Shapes : MouseMove(s) \/ ClickShape(s)
    \/ MouseLeave \/ StartDrawing \/ PlotAsTower
    \/ \E r \in geog.asked : GeogTask(r[1], r[2])
    \/ \E r \in geog.replies : ReceiveGeog(r[1], r[2])
    \/ \E f \in drawn : Posted(f) \/ DeleteArea(f) \/ Deleted(f)
    \/ \E m \in Masts : ClickMast(m)
    \/ \E r \in mast.saves : SaveMast(r[1], r[2])

OverlaysSpec == OverlaysInit /\ [][OverlaysNext]_overlayVars

------------------------------------------------------------------------------
(* Properties *)

\* The switches tell what lies over the map, never two overlays at once, and an open
\* popup tells about the area under the mouse, which is one of that overlay.
SwitchesAndPopupTellTheMap ==
    /\ "early" \notin manner =>
         /\ panel.checked = {panel.active} \ {Nothing}
         /\ panel.shown = panel.checked
    /\ "zero" \notin manner /\ hover.open =>
         hover.html = hover.mouse /\ hover.mouse[1] \in panel.shown

\* An area or a mast is added once, however often it is clicked, by a user who waits
\* until what he added is stored.
NothingIsAddedTwice ==
    manner \cap {"hasty", "again", "drawing"} = {} =>
        \A f, g \in drawn : f.of = g.of => f = g

\* What was clicked last of an overlay ends up in the workspace, stored, whatever
\* answers were still under way when it was clicked.
LastClickIsStored ==
    ~Busy /\ manner \cap {"fail", "drawing", "twins", "delete"} = {} =>
        \A o \in Overlays : geog.clicked[o] # Nothing =>
            \E f \in drawn : f.of = geog.clicked[o] /\ f.state = "stored"
=============================================================================
