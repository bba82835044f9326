----------------------------- MODULE TableService -----------------------------
(***************************************************************************)
(* Who sits at a table and who may order there: the QR and kiosk sessions  *)
(* of guests, their shared cart, the order a cart becomes, and the orders  *)
(* staff open on a table or at the counter (guest/sessions, guest/cart,    *)
(* guest/orders, pos/orders, platform/live-window, platform/token-number). *)
(*                                                                         *)
(* Requests are slots t \in Txns as in BillSettlement: what a handler read *)
(* without a lock is kept in the slot and used in a later step.  Time is   *)
(* three marks that never fade: a session is idle (30 minutes without a    *)
(* join or a new line), expired (4 hours), an order stale (12 hours).  A   *)
(* transaction lives for seconds, so no order turns stale while a request  *)
(* is under way.  Tenant, outlet, capability and menu checks only refuse a *)
(* request, which Refuse stands for.                                       *)
(***************************************************************************)
EXTENDS Naturals, FiniteSets, FiniteSetsExt

CONSTANTS
  Tables, Sessions, Guests, CartLines, Orders, Txns,
  None,         \* no row, no table
  Combos,       \* the cart lines that are combos
  MaxQty,       \* bound: quantity of a cart line
  MaxPicks      \* bound: quantity of a combo's picks

ASSUME TableServiceAssumption ==
  /\ Combos \subseteq CartLines
  /\ MaxQty \in Nat \ {0} /\ MaxPicks \in Nat
  /\ None \notin Tables \cup Sessions \cup Guests \cup CartLines \cup Orders

VARIABLES
  session,   \* table_sessions; settled is "closed" too
  guest,     \* guests.session_id
  cart,      \* cart_lines; "placed" and "removed" ones are deleted rows
  order,     \* orders; a discarded one is a deleted row
  placed,    \* the cart lines an order was made of
  counter,   \* token_number_counters.last_number
  txn

serviceVars == <<session, guest, cart, order, placed, counter, txn>>

Idle == [op |-> "none", s |-> None, tb |-> None, c |-> None,
         seen |-> {}, qty |-> 0, n |-> 0]
NoSession == [st |-> "none", table |-> None, idle |-> FALSE, expired |-> FALSE]
Ended(row) == [NoSession EXCEPT !.st = "closed", !.table = row.table]
NoLine == [st |-> "absent", g |-> None, qty |-> 0, picks |-> 0]
NoOrder == [st |-> "none", table |-> None, s |-> None, token |-> 0, stale |-> FALSE]

ServiceInit ==
  /\ session = [s \in Sessions |-> NoSession]
  /\ guest = [g \in Guests |-> None]
  /\ cart = [c \in CartLines |-> NoLine]
  /\ order = [o \in Orders |-> NoOrder]
  /\ placed = [o \in Orders |-> {}]
  /\ counter = 0
  /\ txn = [t \in Txns |-> Idle]

isSessionInactive(s) == session[s].st # "open" \/ session[s].expired
Unclosed(o) == order[o].st \in {"open", "sent"}
OrdersAt(tb) == {o \in Orders : Unclosed(o) /\ order[o].table = tb}
OrdersOf(s) == {o \in Orders : order[o].st \in {"open", "sent", "closed"} /\ order[o].s = s}
OpenSessions(tb) == {s \in Sessions : session[s].st = "open" /\ session[s].table = tb}
CartOf(s) == {c \in CartLines : cart[c].st = "cart" /\ guest[cart[c].g] = s}

isAbandoned(s) == OrdersOf(s) = {} /\ session[s].idle

\* A fresh order nobody at this table owns; `closing' is a session the same
\* transaction has just closed.
isTableBusy(tb, closing) ==
  \E o \in OrdersAt(tb) :
    /\ ~ order[o].stale
    /\ \/ order[o].s = None
       \/ session[order[o].s].table # tb
       \/ order[o].s = closing
       \/ isSessionInactive(order[o].s)

Begin(t, req) == txn[t] = Idle /\ txn' = [txn EXCEPT ![t] = req]
End(t) == txn' = [txn EXCEPT ![t] = Idle]

\* A check failed, a unique index refused the row or the connection broke.
Refuse(t) ==
  /\ txn[t] # Idle
  /\ End(t)
  /\ UNCHANGED <<session, guest, cart, order, placed, counter>>

-----------------------------------------------------------------------------
\* Sessions

StartRead(t, tb) ==
  /\ \E old \in OpenSessions(tb) \cup {None} :
        /\ (old = None) = (OpenSessions(tb) = {})
        /\ old # None => isSessionInactive(old) \/ isAbandoned(old)
        /\ ~ isTableBusy(tb, old)
        /\ Begin(t, [Idle EXCEPT !.op = "start", !.tb = tb, !.s = old])
  /\ UNCHANGED <<session, guest, cart, order, placed, counter>>

Mut_Uncontested(tb, old) == TRUE

\* table_sessions_one_open_per_table refuses the loser of two starts.
Uncontested(tb, old) == OpenSessions(tb) \subseteq {old}

StartWrite(t) ==
  LET old == txn[t].s  tb == txn[t].tb IN
  /\ txn[t].op = "start"
  /\ Uncontested(tb, old)
  /\ \E s \in Sessions, g \in Guests :
        /\ session[s].st = "none" /\ guest[g] = None
        /\ session' = [x \in Sessions |->
             CASE x = s -> [NoSession EXCEPT !.st = "open", !.table = tb]
               [] x = old -> Ended(session[x])
               [] OTHER -> session[x]]
        /\ guest' = [guest EXCEPT ![g] = s]
  /\ End(t)
  /\ UNCHANGED <<cart, order, placed, counter>>

startKioskSession(s, g) ==
  /\ session[s].st = "none" /\ guest[g] = None
  /\ session' = [session EXCEPT ![s] = [NoSession EXCEPT !.st = "open"]]
  /\ guest' = [guest EXCEPT ![g] = s]
  /\ UNCHANGED <<cart, order, placed, counter, txn>>

\* A join, a new line or a close that lost a race changes nothing anybody can
\* act on (a guest or a line of an ended session, "closed" over "settled"), so
\* these are one step.
joinSession(tb) ==
  /\ \E s \in OpenSessions(tb), g \in Guests :
        /\ ~ isSessionInactive(s) /\ guest[g] = None
        /\ guest' = [guest EXCEPT ![g] = s]
        /\ session' = [session EXCEPT ![s].idle = FALSE]
  /\ UNCHANGED <<cart, order, placed, counter, txn>>

closeSessionForStaff(tb) ==
  /\ \E s \in OpenSessions(tb) : session' = [session EXCEPT ![s] = Ended(@)]
  /\ UNCHANGED <<guest, cart, order, placed, counter, txn>>

-----------------------------------------------------------------------------
\* The cart.  loadActiveSession() comes first in every handler.

Active(g) == guest[g] # None /\ ~ isSessionInactive(guest[g])

\* A combo is a parent line and one pick per combo.
addLine(g, c) ==
  /\ Active(g)
  /\ cart[c].st = "absent"
  /\ cart' = [cart EXCEPT ![c] =
       [st |-> "cart", g |-> g, qty |-> 1, picks |-> IF c \in Combos THEN 1 ELSE 0]]
  /\ session' = [session EXCEPT ![guest[g]].idle = FALSE]
  /\ UNCHANGED <<guest, order, placed, counter, txn>>

Owned(g, c) == Active(g) /\ c \in CartOf(guest[g]) /\ cart[c].g = g

UpdateRead(t, g, c) ==
  /\ Owned(g, c)
  /\ Begin(t, [Idle EXCEPT !.op = "update", !.c = c, !.qty = cart[c].qty])
  /\ UNCHANGED <<session, guest, cart, order, placed, counter>>

\* The picks are scaled by the quantity the line had when it was read; a row
\* deleted since then makes the update fail.
UpdateWrite(t) ==
  LET c == txn[t].c  seen == txn[t].qty IN
  /\ txn[t].op = "update"
  /\ cart[c].st = "cart"
  /\ \E q \in 1..MaxQty :
        /\ (cart[c].picks \div seen) * q <= MaxPicks
        /\ cart' = [cart EXCEPT ![c].qty = q, ![c].picks = (@ \div seen) * q]
  /\ End(t)
  /\ UNCHANGED <<session, guest, order, placed, counter>>

removeLine(g, c) ==
  /\ Owned(g, c)
  /\ cart' = [cart EXCEPT ![c] = [NoLine EXCEPT !.st = "removed"]]
  /\ UNCHANGED <<session, guest, order, placed, counter, txn>>

-----------------------------------------------------------------------------
\* Token numbers: the upsert holds the counter's row until the transaction ends.

TokensInUse == {order[o].token : o \in {x \in Orders : order[x].st # "discarded"}}

Mut_reserveTokenNumber == 1 + Max(TokensInUse \cup {0})

reserveTokenNumber == 1 + Max(TokensInUse \cup {counter})

ReserveToken(t) ==
  /\ txn[t].op \in {"counter", "place"} /\ txn[t].n = 0
  /\ txn[t].op = "place" => session[txn[t].s].table = None
  /\ \A u \in Txns : txn[u].n = 0
  /\ txn' = [txn EXCEPT ![t].n = reserveTokenNumber]
  /\ UNCHANGED <<session, guest, cart, order, placed, counter>>

-----------------------------------------------------------------------------
\* Orders

Stale(tb) == {o \in OrdersAt(tb) : order[o].stale}

Detach(ord, gone) == [o \in Orders |-> IF o \in gone THEN [ord[o] EXCEPT !.table = None] ELSE ord[o]]

\* A combo whose picks no longer fit its slots is refused.
PlaceRead(t, g) ==
  /\ Active(g)
  /\ CartOf(guest[g]) # {}
  /\ \A c \in CartOf(guest[g]) \cap Combos : cart[c].picks = cart[c].qty
  /\ Begin(t, [Idle EXCEPT !.op = "place", !.s = guest[g], !.seen = CartOf(guest[g])])
  /\ UNCHANGED <<session, guest, cart, order, placed, counter>>

Mut_FreeTable(tb, gone) == TRUE

\* No unclosed order is left at the table: the 409 of placeOrder, and behind
\* it orders_one_active_per_table.
FreeTable(tb, gone) == OrdersAt(tb) \subseteq gone

\* The status flip fires the kitchen's tickets (module Kitchen).
PlaceWrite(t) ==
  LET s == txn[t].s  tb == session[s].table  seen == txn[t].seen IN
  /\ txn[t].op = "place"
  /\ IF tb = None THEN txn[t].n > 0 ELSE FreeTable(tb, Stale(tb))
  /\ \E o \in Orders :
        /\ order[o].st = "none"
        /\ order' = [Detach(order, IF tb = None THEN {} ELSE Stale(tb)) EXCEPT ![o] =
             [st |-> "sent", table |-> tb, s |-> s, token |-> txn[t].n, stale |-> FALSE]]
        /\ placed' = [placed EXCEPT ![o] = seen]
  /\ cart' = [c \in CartLines |-> IF c \in CartOf(s) THEN [NoLine EXCEPT !.st = "placed"] ELSE cart[c]]
  /\ counter' = IF tb = None THEN txn[t].n ELSE counter
  /\ End(t)
  /\ UNCHANGED <<session, guest>>

\* An occupied table's order is returned as it is; nothing is written.
OpenRead(t, tb) ==
  /\ OrdersAt(tb) \subseteq Stale(tb)
  /\ Begin(t, [Idle EXCEPT !.op = "open", !.tb = tb])
  /\ UNCHANGED <<session, guest, cart, order, placed, counter>>

\* The loser of two openers rolls back to its savepoint and returns the
\* winner's order; only the detaching of a leftover stays.
OpenWrite(t) ==
  LET tb == txn[t].tb IN
  /\ txn[t].op = "open"
  /\ \/ /\ FreeTable(tb, Stale(tb))
        /\ \E o \in Orders :
             /\ order[o].st = "none"
             /\ order' = [Detach(order, Stale(tb)) EXCEPT ![o] = [NoOrder EXCEPT !.st = "open", !.table = tb]]
     \/ ~ FreeTable(tb, Stale(tb)) /\ order' = Detach(order, Stale(tb))
  /\ End(t)
  /\ UNCHANGED <<session, guest, cart, placed, counter>>

CounterBegin(t) ==
  /\ Begin(t, [Idle EXCEPT !.op = "counter"])
  /\ UNCHANGED <<session, guest, cart, order, placed, counter>>

CounterWrite(t) ==
  /\ txn[t].op = "counter" /\ txn[t].n > 0
  /\ \E o \in Orders :
        /\ order[o].st = "none"
        /\ order' = [order EXCEPT ![o] = [NoOrder EXCEPT !.st = "open", !.token = txn[t].n]]
  /\ counter' = txn[t].n
  /\ End(t)
  /\ UNCHANGED <<session, guest, cart, placed>>

\* Settlement and its guards are BillSettlement's; here the order is closed,
\* and a bill the guests paid settles their session.
CloseOrder(o) ==
  /\ Unclosed(o)
  /\ order' = [order EXCEPT ![o].st = "closed"]
  /\ \/ UNCHANGED session
     \/ /\ order[o].s # None /\ ~ isSessionInactive(order[o].s)
        /\ session' = [session EXCEPT ![order[o].s] = Ended(@)]
  /\ UNCHANGED <<guest, cart, placed, counter, txn>>

\* An order without lines is deleted; an order made of a cart has lines.
Discard(o) ==
  /\ order[o].st = "open"
  /\ order' = [order EXCEPT ![o].st = "discarded"]
  /\ UNCHANGED <<session, guest, cart, placed, counter, txn>>

-----------------------------------------------------------------------------
\* Whether an expired session is idle makes no difference to anyone.
GoIdle(s) ==
  /\ ~ isSessionInactive(s) /\ ~ session[s].idle
  /\ session' = [session EXCEPT ![s].idle = TRUE]
  /\ UNCHANGED <<guest, cart, order, placed, counter, txn>>

Expire(s) ==
  /\ ~ isSessionInactive(s)
  /\ session' = [session EXCEPT ![s].expired = TRUE, ![s].idle = FALSE]
  /\ UNCHANGED <<guest, cart, order, placed, counter, txn>>

GoStale(o) ==
  /\ Unclosed(o) /\ ~ order[o].stale
  /\ order[o].s # None => isSessionInactive(order[o].s)
  /\ \A t \in Txns : txn[t] = Idle
  /\ order' = [order EXCEPT ![o].stale = TRUE]
  /\ UNCHANGED <<session, guest, cart, placed, counter, txn>>

RequestNext(t) ==
  \/ \E tb \in Tables : StartRead(t, tb) \/ OpenRead(t, tb)
  \/ \E g \in Guests : PlaceRead(t, g) \/ \E c \in CartLines : UpdateRead(t, g, c)
  \/ StartWrite(t) \/ UpdateWrite(t) \/ PlaceWrite(t) \/ OpenWrite(t)
  \/ CounterBegin(t) \/ ReserveToken(t) \/ CounterWrite(t)
  \/ Refuse(t)

ServiceNext ==
  \/ \E t \in Txns : RequestNext(t)
  \/ \E tb \in Tables : joinSession(tb) \/ closeSessionForStaff(tb)
  \/ \E s \in Sessions, g \in Guests : startKioskSession(s, g)
  \/ \E g \in Guests, c \in CartLines : addLine(g, c) \/ removeLine(g, c)
  \/ \E s \in Sessions : GoIdle(s) \/ Expire(s)
  \/ \E o \in Orders : CloseOrder(o) \/ Discard(o) \/ GoStale(o)

ServiceSpec == ServiceInit /\ [][ServiceNext]_serviceVars

-----------------------------------------------------------------------------
(* Two taps on "place order", or two guests placing the shared cart at     *)
(* once: while an order of a table session is live, none of its dishes is  *)
(* on a second live order (placeOrder() reads the cart before it looks for *)
(* a live order, and consumes it only at the end).                         *)
LiveOrderedOnce ==
  \A o, p \in Orders :
    /\ o # p /\ Unclosed(o) /\ Unclosed(p)
    /\ order[o].s # None /\ session[order[o].s].table # None
    => placed[o] \cap placed[p] = {}

(* However waiters, guests and leftovers of an earlier service race for a  *)
(* table, it has one unclosed order (openOrClaimTable, placeOrder,         *)
(* detachStaleTableOrder) and one open session (startSession).             *)
OneServicePerTable ==
  \A tb \in Tables : Cardinality(OrdersAt(tb)) <= 1 /\ Cardinality(OpenSessions(tb)) <= 1

(* No two orders ever carry the same token, not even after the first was   *)
(* discarded (reserveTokenNumber).                                         *)
TokensNeverReused ==
  \A o, p \in Orders : o # p /\ order[o].token = order[p].token => order[o].token = 0

(* "Placement consumes the cart - the table's real order now exists": a    *)
(* line that a placement took out of the cart is on exactly one order.     *)
PlacementConsumesCart ==
  \A c \in CartLines :
    cart[c].st = "placed" => Cardinality({o \in Orders : c \in placed[o]}) = 1
=============================================================================
