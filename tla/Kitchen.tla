-------------------------------- MODULE Kitchen --------------------------------
(***************************************************************************)
(* How the lines of one order reach the kitchen screens: the stations an   *)
(* owner sets up, the station each menu item is routed to, and the tickets *)
(* fireOnSend() writes when an order is sent, sent again or paid           *)
(* (kitchen/tickets, the stations of admin/floor-plan, pos/orders).        *)
(*                                                                         *)
(* A send is a slot k \in Senders and three steps: load the order, read    *)
(* what has to be fired and where (an order going from open to sent writes *)
(* its status, and so takes the row's lock, first), write the ticket rows. *)
(* No lock is held between the two reads.  Ticket lines are a sequence     *)
(* because nothing stops one order line from being on a ticket twice.      *)
(***************************************************************************)
EXTENDS Naturals, Sequences, SequencesExt, FiniteSets, FiniteSetsExt

CONSTANTS
  Lines,        \* order lines
  Parent,       \* the combo line a line is a pick of, or NoId
  Stations,     \* station ids, 1..n in order of creation
  Names,        \* names of stations
  Setup, Routes,  \* the stations and the routes the owner starts from
  Home, Away,   \* the order's outlet and another outlet of the tenant
  Senders,
  NoId,
  MaxTickets,   \* bound: tickets of the order
  MaxEdits      \* bound: changes to stations and routes, recalls and refires

ASSUME KitchenAssumption ==
  /\ Home # Away
  /\ IsFiniteSet(Lines) /\ IsFiniteSet(Senders)
  /\ Stations \subseteq Nat /\ NoId \notin Stations \cup Lines \cup Names
  /\ Parent \in [Lines -> Lines \cup {NoId}]
  /\ Setup \in [Stations -> [st : {"none", "live"}, outlet : {Home, Away}, name : Names \cup {NoId}]]
  /\ Routes \in [Lines -> {s \in Stations : Setup[s].st = "live"} \cup {NoId}]
  /\ MaxTickets \in Nat /\ MaxEdits \in Nat

VARIABLES
  station,   \* stations: status, outlet and name
  route,     \* menu_items.station_id of the item of a line
  edits,     \* counts towards MaxEdits
  state,     \* orders.status
  paid,      \* the order's bill is finalized
  line,      \* order_lines: absent, live, voided or removed
  late,      \* history: lines added once a finalize had begun
  ticket,    \* tickets in the order they were fired
  send       \* the request in each slot

kitchenVars == <<station, route, edits, state, paid, line, late, ticket, send>>

Picks(l) == {c \in Lines : Parent[c] = l}

NoSend == [op |-> "none", plan |-> {}]

KitchenInit ==
  /\ station = Setup
  /\ route = Routes
  /\ edits = 0
  /\ state = "open" /\ paid = FALSE
  /\ line = [l \in Lines |-> "absent"]
  /\ late = {}
  /\ ticket = << >>
  /\ send = [k \in Senders |-> NoSend]

-----------------------------------------------------------------------------
\* Stations and routes

LiveAt(outlet) == {s \in Stations : station[s].st = "live" /\ station[s].outlet = outlet}

Edited == edits < MaxEdits /\ edits' = edits + 1

createStation(s, outlet, name) ==
  /\ Edited
  /\ station[s].st = "none"
  /\ \A r \in Stations : r < s => station[r].st # "none"
  /\ \A r \in LiveAt(outlet) : station[r].name # name
  /\ station' = [station EXCEPT ![s] = [st |-> "live", outlet |-> outlet, name |-> name]]
  /\ UNCHANGED <<route, state, paid, line, late, ticket, send>>

updateStation(s, name) ==
  /\ Edited
  /\ station[s].st = "live"
  /\ \A r \in LiveAt(station[s].outlet) \ {s} : station[r].name # name
  /\ station' = [station EXCEPT ![s].name = name]
  /\ UNCHANGED <<route, state, paid, line, late, ticket, send>>

\* The row stays for the tickets that name it; its name is freed and the
\* items routed to it are unrouted.
deleteStation(s) ==
  /\ Edited
  /\ station[s].st = "live"
  /\ station' = [station EXCEPT ![s].st = "deleted", ![s].name = NoId]
  /\ route' = [l \in Lines |-> IF route[l] = s THEN NoId ELSE route[l]]
  /\ UNCHANGED <<state, paid, line, late, ticket, send>>

\* Any station of the tenant will do, at any outlet, deleted or not.
setStation(l, s) ==
  /\ Edited
  /\ Picks(l) = {}
  /\ s # NoId => station[s].st # "none"
  /\ route' = [route EXCEPT ![l] = s]
  /\ UNCHANGED <<station, state, paid, line, late, ticket, send>>

resolveDefaultStationId == IF LiveAt(Home) = {} THEN NoId ELSE Min(LiveAt(Home))

Mut_routeStationId(l) ==
  IF route[l] = NoId \/ station[route[l]].st = "deleted" THEN resolveDefaultStationId
  ELSE route[l]

routeStationId(l) ==
  LET s == route[l]
      sameName == {r \in LiveAt(Home) : s # NoId /\ r # s /\ station[r].name = station[s].name}
  IN  CASE s = NoId -> resolveDefaultStationId
        [] s # NoId /\ s \in LiveAt(Home) -> s
        [] OTHER -> IF sameName = {} THEN resolveDefaultStationId
                    ELSE CHOOSE r \in sameName : TRUE

-----------------------------------------------------------------------------
\* Sending

\* The rows of ticket_lines, by ticket and place on it.
Rows == UNION {{i} \X DOMAIN ticket[i].lines : i \in DOMAIN ticket}
TicketLines(l) == {p \in Rows : ticket[p[1]].lines[p[2]].line = l}
isSentToKitchen(ls) == \E l \in ls : TicketLines(l) # {}

Mut_Unfired == {l \in Lines : line[l] = "live" /\ Picks(l) = {}}

\* A combo's own line has no item and nothing to cook.
Unfired == {l \in Lines : line[l] = "live" /\ Picks(l) = {} /\ TicketLines(l) = {}}

\* The latest ticket of the order at a station, if it is still queued.
AddOnTo(s) ==
  LET there == {i \in DOMAIN ticket : ticket[i].station = s} IN
  IF there # {} /\ ticket[Max(there)].st = "queued" THEN Max(there) ELSE 0

Batch(i) == IF i = 0 THEN 0 ELSE 1 + Max({ticket[i].lines[j].batch : j \in DOMAIN ticket[i].lines})

Mut_Plan == {}

\* fireOnSend()'s reads: one group of lines per station.
Plan ==
  {[station |-> s, to |-> AddOnTo(s), batch |-> Batch(AddOnTo(s)),
    lines |-> {l \in Unfired : routeStationId(l) = s}] :
     s \in {routeStationId(l) : l \in Unfired}}

NewLines(g, seen) ==
  [j \in 1..Cardinality(g.lines) |->
     [line |-> SetToSeq(g.lines)[j], batch |-> g.batch, voided |-> FALSE, seen |-> seen]]

\* Its writes: a group joins the ticket it was read to belong to or gets a new
\* one.  `seen' is history: the ticket has been in its station's queue since the
\* line was put on it.
Joined(t, g) == [t EXCEPT !.lines = @ \o NewLines(g, t.st = "queued")]
Opened(g) == [station |-> g.station, st |-> "queued", lines |-> NewLines(g, TRUE)]
Fresh(plan) == SetToSeq({g \in plan : g.to = 0})

Fired(plan) ==
  [i \in DOMAIN ticket |->
     IF \E g \in plan : g.to = i THEN Joined(ticket[i], CHOOSE g \in plan : g.to = i) ELSE ticket[i]]
  \o [j \in DOMAIN Fresh(plan) |-> Opened(Fresh(plan)[j])]

Finalizing == \E k \in Senders : send[k].op = "pay"
Locked == \E k \in Senders : send[k].op = "first"

SendLoad(k) ==
  /\ send[k] = NoSend
  /\ state # "closed"
  /\ send' = [send EXCEPT ![k].op = IF state = "open" THEN "load" ELSE "again"]
  /\ UNCHANGED <<station, route, edits, state, paid, line, late, ticket>>

\* open -> sent: the status was checked when the order was loaded, and the
\* update waits for another send that holds the row.
FirstFire(k) ==
  /\ send[k].op = "load"
  /\ ~ Locked
  /\ send' = [send EXCEPT ![k] = [op |-> "first", plan |-> Plan]]
  /\ UNCHANGED <<station, route, edits, state, paid, line, late, ticket>>

\* sent -> sent: nothing to fire is refused.
AgainFire(k) ==
  /\ send[k].op = "again"
  /\ Plan # {}
  /\ send' = [send EXCEPT ![k] = [op |-> "fire", plan |-> Plan]]
  /\ UNCHANGED <<station, route, edits, state, paid, line, late, ticket>>

\* A finalize holds the bill's lock and has flipped its status.
PayFire(k) ==
  /\ send[k] = NoSend
  /\ ~ paid /\ ~ Finalizing
  /\ send' = [send EXCEPT ![k] = [op |-> "pay", plan |-> Plan]]
  /\ UNCHANGED <<station, route, edits, state, paid, line, late, ticket>>

\* A line removed since the read breaks the ticket line's foreign key.
FireWrite(k) ==
  /\ send[k].op \in {"first", "fire", "pay"}
  /\ send[k].op = "pay" => ~ Locked
  /\ \A g \in send[k].plan, l \in Lines : l \in g.lines => line[l] # "removed"
  /\ Len(ticket) + Len(Fresh(send[k].plan)) <= MaxTickets
  /\ ticket' = Fired(send[k].plan)
  /\ paid' = (paid \/ send[k].op = "pay")
  /\ state' = CASE send[k].op = "pay" -> "closed"
                [] send[k].op = "first" -> "sent"
                [] send[k].op = "fire" -> state
  /\ send' = [send EXCEPT ![k] = NoSend]
  /\ UNCHANGED <<station, route, edits, line, late>>

\* A check failed or the connection broke: everything is rolled back.
SendRefused(k) ==
  /\ send[k] # NoSend
  /\ send' = [send EXCEPT ![k] = NoSend]
  /\ UNCHANGED <<station, route, edits, state, paid, line, late, ticket>>

-----------------------------------------------------------------------------
\* The order's lines and the kitchen's own actions

Whole(l) == {l} \cup Picks(l)
Added == {l \in Lines : line[l] = "absent" /\ Parent[l] = NoId}

\* addLine(), or addCombo() with every pick.
addLine(l) ==
  /\ state # "closed"
  /\ l \in Added
  /\ line' = [c \in Lines |-> IF c \in Whole(l) THEN "live" ELSE line[c]]
  /\ late' = IF Finalizing \/ paid THEN late \cup Whole(l) ELSE late
  /\ UNCHANGED <<station, route, edits, state, paid, ticket, send>>

removeLine(l) ==
  /\ state # "closed"
  /\ line[l] = "live" /\ Parent[l] = NoId
  /\ ~ isSentToKitchen(Whole(l))
  /\ line' = [c \in Lines |-> IF c \in Whole(l) THEN "removed" ELSE line[c]]
  /\ UNCHANGED <<station, route, edits, state, paid, late, ticket, send>>

Struck(row, ls) == [row EXCEPT !.voided = @ \/ row.line \in ls]

voidLine(l) ==
  /\ state # "closed"
  /\ line[l] = "live" /\ Parent[l] = NoId
  /\ isSentToKitchen(Whole(l))
  /\ line' = [c \in Lines |-> IF c \in Whole(l) THEN "voided" ELSE line[c]]
  /\ ticket' = [i \in DOMAIN ticket |-> [ticket[i] EXCEPT !.lines =
                  [j \in DOMAIN ticket[i].lines |-> Struck(ticket[i].lines[j], Whole(l))]]]
  /\ UNCHANGED <<station, route, edits, state, paid, late, send>>

bump(i) ==
  /\ ticket[i].st = "queued"
  /\ ticket' = [ticket EXCEPT ![i].st = "bumped"]
  /\ UNCHANGED <<station, route, edits, state, paid, line, late, send>>

Requeued(i) ==
  [ticket EXCEPT ![i].st = "queued",
                 ![i].lines = [j \in DOMAIN @ |-> [@[j] EXCEPT !.seen = TRUE]]]

\* recall() wants a ticket bumped within the window; refire() takes any.
recall(i) ==
  /\ Edited
  /\ ticket[i].st = "bumped"
  /\ ticket' = Requeued(i)
  /\ UNCHANGED <<station, route, state, paid, line, late, send>>

refire(i) ==
  /\ Edited
  /\ ticket' = Requeued(i)
  /\ UNCHANGED <<station, route, state, paid, line, late, send>>

KitchenNext ==
  \/ \E s \in Stations, o \in {Home, Away}, n \in Names : createStation(s, o, n)
  \/ \E s \in Stations, n \in Names : updateStation(s, n)
  \/ \E s \in Stations : deleteStation(s)
  \/ \E l \in Lines, s \in Stations \cup {NoId} : setStation(l, s)
  \/ \E k \in Senders :
       SendLoad(k) \/ FirstFire(k) \/ AgainFire(k) \/ PayFire(k) \/ FireWrite(k) \/ SendRefused(k)
  \/ \E l \in Lines : addLine(l) \/ removeLine(l) \/ voidLine(l)
  \/ \E i \in DOMAIN ticket : bump(i) \/ recall(i) \/ refire(i)

KitchenSpec == KitchenInit /\ [][KitchenNext]_kitchenVars

-----------------------------------------------------------------------------
\* What the screens show, for an order inside the 12-hour live window

listStations == LiveAt(Home)

\* resolveStationParam(): a station of the outlet, or "unrouted" (NoId).
resolveStationParam(s) == s = NoId \/ station[s].outlet = Home
stationQueue(s) ==
  {i \in DOMAIN ticket : resolveStationParam(s) /\ ticket[i].station = s /\ ticket[i].st = "queued"}

Queued == {i \in DOMAIN ticket : ticket[i].st = "queued"}
bumped == DOMAIN ticket \ Queued

\* Is the order on the expo screen: sent, or something of it still queued, or
\* paid and all of it ready.
expo == ticket # << >> /\ (state = "sent" \/ Queued # {} \/ (paid /\ Queued = {}))

LiveRow(i, j) == ~ ticket[i].lines[j].voided
waitingOn == {p \in Rows : p[1] \in Queued /\ LiveRow(p[1], p[2])}
allDaySummary == {ticket[p[1]].lines[p[2]].line : p \in waitingOn}

-----------------------------------------------------------------------------
\* Properties

\* PE-21: a dish is never put on a screen of another outlet, whatever station
\* its item is routed to and whatever is renamed or removed meanwhile.
HomeScreens == \A i \in DOMAIN ticket : ticket[i].station # NoId => station[ticket[i].station].outlet = Home

\* One line is on more ticket rows than one only through sends that overlap:
\* each slot can write it once, and a send that starts later never repeats it.
FiredOncePerSender == \A l \in Lines : Cardinality(TicketLines(l)) <= Cardinality(Senders)

\* The backstop in finalize: every dish of a paid order, but for those added
\* after the payment began, is in front of the kitchen: on the expo screen's
\* waiting list, in the day's counts and in the queue of a station a cook can
\* open, unless the station was removed since, or on the Done tab.
PaidReachesKitchen ==
  paid => \A l \in Lines : line[l] = "live" /\ Picks(l) = {} => l \in late \/ \E p \in TicketLines(l) :
    IF ticket[p[1]].st = "bumped" THEN p[1] \in bumped
    ELSE /\ expo /\ p \in waitingOn
         /\ l \in allDaySummary
         /\ \/ \E s \in listStations \cup {NoId} : p[1] \in stationQueue(s)
            \/ station[ticket[p[1]].station].st = "deleted"

\* What fireOnSend()'s comment says of add-ons: they join a ticket that is
\* still queued, so the cook sees every dish.
AddOnShown == \A i \in DOMAIN ticket : \A j \in DOMAIN ticket[i].lines : ticket[i].lines[j].seen
=============================================================================
