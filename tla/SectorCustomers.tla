--------------------------- MODULE SectorCustomers ---------------------------
(***************************************************************************)
(* Which sector a customer (CPE) is connected to, on the beta page and on  *)
(* the server.  The server offers the sectors that reach a place; the page *)
(* connects a customer there to one of them and draws the link, or moves a *)
(* customer's link to another sector.                                      *)
(*                                                                         *)
(* The same choice is held six times: in the rows of the customer and the  *)
(* link, in a property of either feature, in the objects' own fields, and  *)
(* in the sector's map of links.  Every reply of the server overwrites the *)
(* property that the next request will send.                               *)
(***************************************************************************)
EXTENDS Integers, Sequences, FiniteSets, SequencesExt

CONSTANTS Customers, NetSectors, Nowhere,
          Circle,      \* the number of bearings; a full turn
          Settings     \* what may happen together, see Setting

ClearStatuses == {"serviceable", "unserviceable", "unknown"}

\* The user acts before the replies are in, even those to what was created; drags
\* customers; deletes.
Setting == {"swift", "early", "drag", "delete"}

\* A sector as it lies to each of the customers' places, and what its coverage
\* says of the building there.  Bearings are floats: here a turn has so many that
\* half an azimuth is one too.
Views == [heading : 0 .. Circle - 1, azimuth : {2 * half : half \in 1 .. Circle \div 2},
          radius : Nat,
          at : [Customers -> [bearing : 0 .. Circle - 1, distance : Nat, status : ClearStatuses]]]

ASSUME SettingsAssumption ==
    /\ Circle \in Nat \ {0} /\ Nowhere \notin NetSectors
    /\ IsFiniteSet(Customers) /\ IsFiniteSet(NetSectors)
    /\ \A t \in Settings : /\ t.may \subseteq Setting /\ t.moves \in Nat
                           /\ t.air \in [NetSectors -> Views]

VARIABLES
    setting, \* one of Settings
    records, \* the rows: the sectors, and the sector of each customer and link
    shown,   \* the page, see OnPage
    asked,   \* requests and replies on their way
    offer,   \* the form of the popup that is open
    steps    \* number of steps of the user

customerVars == <<setting, records, shown, asked, offer, steps>>

NoSector == [c \in Customers |-> Nowhere]

NoOffer == [kind |-> "none"]

\* BaseWorkspaceManager.addFeatures: a customer's property comes from its row, its
\* sector from the row of its link.
OnPage(db) ==
    LET Feature(of, prop) == [drawn |-> of # Nowhere, saved |-> of # Nowhere,
                              of |-> of, prop |-> prop]
        cpe  == [c \in Customers |-> Feature(db.link[c], db.cpe[c])]
        link == [c \in Customers |-> Feature(db.link[c], db.link[c])]
    IN  [sectors |-> db.sectors,
         cpe  |-> cpe,     \* of: CPE.sector;  prop: the feature's property
         link |-> link,    \* of: APToCPELink.tower
         links |-> [s \in NetSectors |-> {c \in Customers : db.link[c] = s}],
         previous |-> [cpe |-> cpe, link |-> link]]

CustomersInit ==
    /\ setting \in Settings
    /\ records = [sectors |-> NetSectors, cpe |-> NoSector, link |-> NoSector]
    /\ shown = OnPage(records)
    /\ asked = <<>> /\ offer = NoOffer /\ steps = 0

------------------------------------------------------------------------------
(* The server's forms *)

\* A sector that goes through north has its edges outside, any other inside.
Intersects(s, c) ==
    LET v == setting.air[s]
        from == (v.heading - v.azimuth \div 2) % Circle
        to   == (v.heading + v.azimuth \div 2) % Circle
        b    == v.at[c].bearing
    IN  /\ IF to <= from THEN ~(b >= to /\ b <= from) ELSE b >= from /\ b <= to
        /\ v.at[c].distance <= v.radius

InRange(c) == {s \in records.sectors : Intersects(s, c)}

StatusOf(s, c) == setting.air[s].at[c].status

Distance(s, c) == setting.air[s].at[c].distance

UpdateOverallStatus_Last(overall, new) ==
    IF overall = "serviceable" THEN overall ELSE new

UpdateOverallStatus(overall, new) ==
    CASE overall = "serviceable"   -> "serviceable"
      [] overall = "unserviceable" -> new
      [] OTHER -> IF new = "serviceable" THEN new ELSE "unknown"

OverallStatus(order, c) ==
    FoldLeft(LAMBDA overall, s : UpdateOverallStatus(overall, StatusOf(s, c)),
             "unserviceable", order)

\* With nothing serviceable, the first of the list before it is sorted.
Highlighted(order, c) ==
    LET serviceable == {s \in ToSet(order) : StatusOf(s, c) = "serviceable"}
    IN  IF OverallStatus(order, c) = "serviceable"
        THEN CHOOSE s \in serviceable : \A t \in serviceable : Distance(s, c) <= Distance(t, c)
        ELSE Head(order)

------------------------------------------------------------------------------
(* The page *)

Message(op, x, to) == [op |-> op, of |-> x, to |-> to, reply |-> "none"]

\* The page and what it has asked for, as a handler goes on.
Send(p, r) == [p EXCEPT !.asked = Append(@, r)]

Now == [page |-> shown, asked |-> asked]

Handled(p) == shown' = p.page /\ asked' = p.asked

AcceptNewState(p) ==
    [p EXCEPT !.page.previous = [cpe |-> p.page.cpe, link |-> p.page.link]]

\* A request whose feature is gone from the map was made for nothing: the
\* handler throws.
IfDrawn(p, feature, q) == IF feature.drawn THEN q ELSE p

\* drawUpdateCallback of a link that is saved.
UpdateLink(p, c) ==
    IF p.page.link[c].saved
    THEN Send(p, Message("patchLink", c, p.page.link[c].prop)) ELSE p

\* CPE.moveLink moves the link that the customer's sector has of it.
HasLink(p, c) == p.page.cpe[c].of # Nowhere /\ c \in p.page.links[p.page.cpe[c].of]

\* CPE.linkAP and AccessPointSector.linkCPE, then the request for the link.
LinkAP(p, c, s) ==
    Send(Send([p EXCEPT !.page.cpe[c].of = s, !.page.cpe[c].prop = s,
                        !.page.link[c] = [drawn |-> TRUE, saved |-> FALSE, of |-> s, prop |-> s],
                        !.page.links[s] = @ \cup {c}],
              Message("geocode", c, Nowhere)),
         Message("createLink", c, s))

SwitchAP_LinkKeepsProperty(p, c, s) ==
    LET old == p.page.link[c].of
        q == [p EXCEPT !.page.links = [p.page.links EXCEPT ![old] = @ \ {c}, ![s] = @ \cup {c}],
                       !.page.cpe[c].of = s, !.page.cpe[c].prop = s,
                       !.page.link[c].of = s]
    IN  UpdateLink(UpdateLink(q, c), c)

\* APToCPELink.switchAP: draw.update is fired here and again by moveVertex.
SwitchAP(p, c, s) ==
    LET old == p.page.link[c].of
        q == [p EXCEPT !.page.links = [p.page.links EXCEPT ![old] = @ \ {c}, ![s] = @ \cup {c}],
                       !.page.cpe[c].of = s, !.page.cpe[c].prop = s,
                       !.page.link[c].of = s, !.page.link[c].prop = s]
    IN  IF s = old THEN p ELSE UpdateLink(UpdateLink(q, c), c)

\* draw.delete of a link: not asked of the server when its customer is off the map.
DrawDeleteLink(p, c) ==
    IF p.page.link[c].saved /\ p.page.cpe[c].drawn
    THEN Send(p, Message("deleteLink", c, Nowhere)) ELSE p

\* draw.delete of a customer.
DrawDeleteCpe(p, c) ==
    IF p.page.cpe[c].saved THEN Send(p, Message("deleteCpe", c, "managed")) ELSE p

\* A customer whose sector goes, goes with it.
Strand(p, c) ==
    LET off == [p EXCEPT !.page.cpe[c].of = Nowhere, !.page.cpe[c].drawn = FALSE,
                         !.page.link[c].drawn = FALSE]
    IN  IF p.page.link[c].drawn THEN DrawDeleteCpe(DrawDeleteLink(off, c), c) ELSE off

\* AccessPointSector.delete
DeleteWithCustomers(p, s) ==
    LET q == FoldLeft(Strand, p, SetToSeq(p.page.links[s]))
    IN  Send([q EXCEPT !.page.links[s] = {}], Message("deleteSector", s, Nowhere))

\* CPE.delete, once the row is gone.
DeletedCpe(p, c) ==
    LET s == p.page.cpe[c].of
        q == [p EXCEPT !.page.cpe[c].drawn = FALSE]
    IN  IF s = Nowhere \/ c \notin p.page.links[s] THEN q   \* nothing more, or it throws
        ELSE DrawDeleteLink([q EXCEPT !.page.links[s] = @ \ {c}, !.page.cpe[c].of = Nowhere,
                                      !.page.link[c].drawn = FALSE], c)

\* APToCPELink.delete, once the row is gone: the customer goes too.
DeletedLink(p, c) ==
    LET s == p.page.link[c].of
        q == [p EXCEPT !.page.link[c].drawn = FALSE, !.page.links[s] = @ \ {c}]
    IN  IfDrawn(q, q.page.cpe[c],
            AcceptNewState(DrawDeleteCpe([q EXCEPT !.page.cpe[c].drawn = FALSE], c)))

\* updateFeatureProperties: the property is what the server says.
Saved(p, kind, r) ==
    LET f == p.page[kind][r.of]
    IN  IfDrawn(p, f, AcceptNewState(
            [p EXCEPT !.page[kind][r.of] = [f EXCEPT !.saved = TRUE, !.prop = r.to]]))

Revert(p, kind, c) ==
    LET f == p.page.previous[kind][c]
    IN  IfDrawn(p, f, [p EXCEPT !.page[kind][c].drawn = TRUE, !.page[kind][c].prop = f.prop])

\* A stored customer is linked to the sector it is stored with.
CustomerStored(p, r) ==
    LET q == Saved(p, "cpe", r)
    IN  IF p.page.cpe[r.of].drawn /\ r.to \in q.page.sectors
        THEN LinkAP(q, r.of, r.to) ELSE q

\* The address of where a customer was dragged to.
Geocoded(p, c) ==
    IfDrawn(p, p.page.cpe[c],
        IF HasLink(p, c) /\ ~p.page.link[c].drawn THEN p
        ELSE Send(IF HasLink(p, c) THEN UpdateLink(p, c) ELSE p,
                  Message("patchCpe", c, p.page.cpe[c].prop)))

\* The handlers of done and fail.
Replied(p, r) ==
    LET c == r.of
        Reply(done, fail) == IF r.reply = "ok" THEN done ELSE fail
    IN  CASE r.op = "geocode"    -> Geocoded(p, c)
          [] r.op = "createCpe"  -> Reply(CustomerStored(p, r), [p EXCEPT !.page.cpe[c].drawn = FALSE])
          [] r.op = "patchCpe"   -> Reply(Saved(p, "cpe", r), Revert(p, "cpe", c))
          [] r.op = "deleteCpe"  ->
               IF r.to = "managed" THEN Reply(AcceptNewState(DeletedCpe(p, c)), Revert(p, "cpe", c))
                                   ELSE Reply(DeletedCpe(p, c), p)
          [] r.op = "createLink" -> Reply(Saved(p, "link", r), [p EXCEPT !.page.link[c].drawn = FALSE])
          [] r.op = "patchLink"  -> Reply(Saved(p, "link", r), Revert(p, "link", c))
          [] r.op = "deleteLink" -> Reply(DeletedLink(p, c), Revert(p, "link", c))
          [] r.op = "deleteSector" -> AcceptNewState([p EXCEPT !.page.sectors = @ \ {c}])

------------------------------------------------------------------------------
(* The user *)

Leave == UNCHANGED <<setting, records>>

Moves(what) == what \subseteq setting.may /\ steps < setting.moves /\ steps' = steps + 1

NothingAsked == asked = <<>>

MayAct ==
    \/ NothingAsked
    \/ /\ "swift" \in setting.may
       /\ \/ "early" \in setting.may
          \/ \A i \in 1 .. Len(asked) : asked[i].op \notin {"createCpe", "createLink", "geocode"}

\* A form is asked for when no sector is about to go.
Form(kind, c, list, best) == \E order \in SetToSeqs(InRange(c)) :
    /\ order # <<>> \/ kind = "customer"
    /\ \A i \in 1 .. Len(asked) : asked[i].op # "deleteSector"
    /\ offer' = [kind |-> kind, at |-> c, list |-> list, sectors |-> ToSet(order),
                 status |-> IF best = Nowhere THEN OverallStatus(order, c) ELSE StatusOf(best, c),
                 best |-> IF best = Nowhere THEN Highlighted(order, c) ELSE best]
    /\ UNCHANGED <<shown, asked>>

\* A place on the map where no customer is.
OpenLocation(c) ==
    /\ MayAct /\ Moves({}) /\ Leave
    /\ ~shown.cpe[c].drawn /\ records.cpe[c] = Nowhere
    /\ \A i \in 1 .. Len(asked) : asked[i].of # c
    /\ Form("location", c, FALSE, Nowhere)

\* The form of a customer is that of the sector in its row.
OpenCustomer(c) ==
    /\ MayAct /\ Moves({}) /\ Leave
    /\ shown.cpe[c].drawn /\ records.cpe[c] # Nowhere
    /\ Form("customer", c, FALSE, records.cpe[c])

\* The link "Switch AP".
OpenList ==
    /\ offer # NoOffer /\ ~offer.list /\ Cardinality(offer.sectors) > 1
    /\ Leave /\ UNCHANGED steps
    /\ Form(offer.kind, offer.at, TRUE, offer.best)

\* "View Line of Sight", or a choice from the list.
Connect(s) ==
    /\ offer # NoOffer /\ offer.kind = "location"
    /\ s \in IF offer.list THEN offer.sectors ELSE {offer.best}
    /\ Leave /\ UNCHANGED steps
    /\ Handled(Send([Now EXCEPT !.page.cpe[offer.at] =
                        [drawn |-> TRUE, saved |-> FALSE, of |-> Nowhere, prop |-> s]],
                    Message("createCpe", offer.at, s)))
    /\ offer' = NoOffer

\* cpeSwitchSector
SwitchSector(s) ==
    /\ offer # NoOffer /\ offer.kind = "customer" /\ offer.list /\ s \in offer.sectors
    /\ Leave /\ UNCHANGED steps
    /\ LET c == offer.at
           old == shown.cpe[c].of
       IN  Handled(IF old \notin {s, Nowhere} /\ c \in shown.links[old]
                   THEN SwitchAP(Now, c, s) ELSE Now)
    /\ offer' = NoOffer

DeleteCustomer ==
    /\ offer # NoOffer /\ offer.kind = "customer" /\ ~offer.list
    /\ "delete" \in setting.may
    /\ Leave /\ UNCHANGED steps
    /\ Handled(Send(Now, Message("deleteCpe", offer.at, "popup")))
    /\ offer' = NoOffer

\* A drag, or the delete control, closes the popup.
Drag(c) ==
    /\ Moves({"drag"}) /\ Leave /\ offer' = NoOffer
    /\ shown.cpe[c].drawn /\ shown.cpe[c].saved
    /\ Handled(Send(Now, Message("geocode", c, Nowhere)))

TrashLink(c) ==
    /\ MayAct /\ Moves({"delete"}) /\ Leave /\ offer' = NoOffer
    /\ shown.link[c].drawn
    /\ Handled(DrawDeleteLink([Now EXCEPT !.page.link[c].drawn = FALSE], c))

DropSector(s) ==
    /\ MayAct /\ Moves({"delete"}) /\ Leave /\ offer' = NoOffer
    /\ s \in shown.sectors
    /\ \A i \in 1 .. Len(asked) : asked[i].op # "deleteSector"
    /\ Handled(DeleteWithCustomers(Now, s))

Reload ==
    /\ NothingAsked /\ Moves({}) /\ Leave /\ offer' = NoOffer
    /\ shown' = OnPage(records)
    /\ UNCHANGED asked

------------------------------------------------------------------------------
(* The server's rows, and the replies' arrival *)

\* In order, but the addresses come from another server.
Turn(i, waiting) ==
    /\ i \in waiting
    /\ \/ asked[i].op = "geocode"
       \/ \A j \in waiting : asked[j].op = "geocode" \/ i <= j

\* A foreign key must name a row.
Written(r) ==
    CASE r.op = "createCpe"  -> [records EXCEPT !.cpe[r.of] = r.to]
      [] r.op = "patchCpe"   -> [records EXCEPT !.cpe[r.of] = r.to]
      [] r.op \in {"createLink", "patchLink"} -> [records EXCEPT !.link[r.of] = r.to]
      [] r.op = "deleteCpe"  -> [records EXCEPT !.cpe[r.of] = Nowhere, !.link[r.of] = Nowhere]
      [] r.op = "deleteLink" -> [records EXCEPT !.link[r.of] = Nowhere]
      [] OTHER -> \* deleteSector cascades to its customers and their links, and its links
           LET gone == {c \in Customers : records.cpe[c] = r.of}
           IN  [sectors |-> records.sectors \ {r.of},
                cpe  |-> [c \in Customers |-> IF c \in gone THEN Nowhere ELSE records.cpe[c]],
                link |-> [c \in Customers |-> IF c \in gone \/ records.link[c] = r.of
                                              THEN Nowhere ELSE records.link[c]]]

Accepted(r) ==
    CASE r.op = "createCpe"  -> r.to \in records.sectors
      [] r.op = "patchCpe"   -> records.cpe[r.of] # Nowhere /\ r.to \in records.sectors
      [] r.op = "createLink" -> records.cpe[r.of] # Nowhere /\ r.to \in records.sectors
      [] r.op = "patchLink"  -> records.link[r.of] # Nowhere /\ r.to \in records.sectors
      [] r.op = "deleteCpe"  -> records.cpe[r.of] # Nowhere
      [] r.op = "deleteLink" -> records.link[r.of] # Nowhere
      [] OTHER -> TRUE

Serve(i) ==
    /\ Turn(i, {j \in DOMAIN asked : asked[j].reply = "none"})
    /\ records' = IF asked[i].op # "geocode" /\ Accepted(asked[i]) THEN Written(asked[i]) ELSE records
    /\ asked' = [asked EXCEPT ![i].reply = IF Accepted(asked[i]) THEN "ok" ELSE "refused"]
    /\ UNCHANGED <<setting, shown, offer, steps>>

ReplyArrives(i) ==
    /\ Turn(i, DOMAIN asked)
    /\ asked[i].reply # "none"
    /\ Handled(Replied([Now EXCEPT !.asked = RemoveAt(@, i)], asked[i]))
    /\ UNCHANGED <<setting, records, offer, steps>>

CustomersNext ==
    \/ \E c \in Customers : OpenLocation(c) \/ OpenCustomer(c) \/ Drag(c) \/ TrashLink(c)
    \/ \E s \in NetSectors : Connect(s) \/ SwitchSector(s) \/ DropSector(s)
    \/ OpenList \/ DeleteCustomer \/ Reload
    \/ \E i \in 1 .. Len(asked) : Serve(i) \/ ReplyArrives(i)

CustomersSpec == CustomersInit /\ [][CustomersNext]_customerVars

------------------------------------------------------------------------------
(* Properties *)

\* How far a bearing is from the middle of a sector.
Offset(s, c) ==
    LET d == (setting.air[s].at[c].bearing - setting.air[s].heading) % Circle
    IN  IF d <= Circle - d THEN d ELSE Circle - d

\* The form of a place lists a sector when the place is well inside of it and does
\* not when it is outside; it promises a clear line of sight exactly when one of the
\* listed sectors has it, and then offers the nearest that has; it says there is none
\* only when no listed sector may have it.
OfferIsTheBest == offer # NoOffer /\ offer.kind = "location" /\ ~offer.list =>
    LET c == offer.at
        Within(s) == Distance(s, c) <= setting.air[s].radius
        clear == {s \in offer.sectors : StatusOf(s, c) = "serviceable"}
    IN  /\ \A s \in records.sectors \cap shown.sectors :
             /\ Within(s) /\ 2 * Offset(s, c) < setting.air[s].azimuth => s \in offer.sectors
             /\ ~Within(s) \/ 2 * Offset(s, c) > setting.air[s].azimuth => s \notin offer.sectors
        /\ offer.status = "serviceable" <=> clear # {}
        /\ clear # {} => /\ offer.best \in clear
                         /\ \A s \in clear : Distance(offer.best, c) <= Distance(s, c)
        /\ offer.status = "unserviceable" =>
             \A s \in offer.sectors : StatusOf(s, c) = "unserviceable"

\* Once the page has settled, a customer that has a row is drawn with its link, and
\* the six copies of its sector agree but for that of its row: the link's row is of
\* the sector that the link, its property, the customer and the sector's own map say.
\* With a second switch before the replies to the first the same holds, unless the
\* link is not yet stored (then nothing is sent, and the reply puts the old sector
\* back), an address is still looked up (what comes of it may send what an earlier
\* reply has put back), or something is deleted meanwhile.
LinksReachTheServer == NothingAsked /\ ("swift" \in setting.may => setting.may = {"swift"}) =>
    \A c \in Customers :
        LET s == shown.cpe[c].of
        IN  /\ records.cpe[c] # Nowhere => shown.cpe[c].drawn
            /\ records.cpe[c] # Nowhere /\ shown.cpe[c].drawn =>
                 /\ s # Nowhere /\ shown.link[c].drawn
                 /\ records.link[c] = s /\ shown.link[c].of = s /\ shown.link[c].prop = s
                 /\ \A t \in NetSectors : c \in shown.links[t] <=> t = s
            /\ shown.cpe[c].drawn /\ records.cpe[c] = Nowhere => "delete" \in setting.may
=============================================================================
