---------------------------- MODULE ServiceProofs ----------------------------
(***************************************************************************)
(* Proofs about TableService, for any number of tables, sessions, guests,  *)
(* orders and requests in flight: one service per table, tokens that are   *)
(* never reused, and no dish on two live orders of a table's session.      *)
(***************************************************************************)
EXTENDS TableService, FiniteSetTheorems, TLAPS

-----------------------------------------------------------------------------
(* The inductive invariant. *)

SessionRow == [st : {"none", "open", "closed"}, table : Tables \cup {None}, idle : BOOLEAN, expired : BOOLEAN]
OrderRow == [st : {"none", "open", "sent", "closed", "discarded"}, table : Tables \cup {None},
             s : Sessions \cup {None}, token : Nat, stale : BOOLEAN]
CartRow == [st : {"absent", "cart", "placed", "removed"}, g : Guests \cup {None}, qty : Nat, picks : Nat]
RequestRow == [op : {"none", "start", "update", "place", "open", "counter"}, s : Sessions \cup {None},
               tb : Tables \cup {None}, c : CartLines \cup {None}, seen : SUBSET CartLines,
               qty : Nat, n : Nat]

\* Every row has its type.
ServiceTypeOK ==
  /\ session \in [Sessions -> SessionRow]
  /\ guest \in [Guests -> Sessions \cup {None}]
  /\ cart \in [CartLines -> CartRow]
  /\ order \in [Orders -> OrderRow]
  /\ placed \in [Orders -> SUBSET CartLines]
  /\ counter \in Nat
  /\ txn \in [Txns -> RequestRow]

\* Rows in use: a line in a cart has a guest, a guest and an order's session
\* have been started, and an order that is not there is made of nothing.
RowsUsed ==
  /\ \A c \in CartLines : cart[c].st = "cart" => cart[c].qty > 0 /\ cart[c].g \in Guests /\ guest[cart[c].g] # None
  /\ \A g \in Guests : guest[g] # None => session[guest[g]].st # "none"
  /\ \A o \in Orders : order[o].s # None => session[order[o].s].st # "none"
  /\ \A o \in Orders : order[o].st = "none" => placed[o] = {} /\ order[o].token = 0

\* What a request in a slot may rely on.
RequestInv(r) ==
  /\ r.op = "start" => r.tb \in Tables /\ (r.s # None => session[r.s].st # "none")
  /\ r.op = "update" => r.c \in CartLines /\ r.qty > 0
  /\ r.op = "place" => r.s \in Sessions /\ session[r.s].st # "none"
  /\ r.op = "open" => r.tb \in Tables
  /\ r.n # 0 => /\ r.n = counter + 1
                /\ r.op = "counter" \/ (r.op = "place" /\ session[r.s].table = None)

\* The token counter is ahead of every token, and one request at most has
\* taken the next.
TokenInv ==
  /\ \A o \in Orders : order[o].token <= counter
  /\ \A t, u \in Txns : t # u => txn[t].n = 0 \/ txn[u].n = 0
  /\ TokensNeverReused

\* A table has one unclosed order and one open session.
TableInv ==
  \A tb \in Tables :
    /\ \A o, p \in OrdersAt(tb) : o = p
    /\ \A s, x \in OpenSessions(tb) : s = x

\* Each cart line belongs to one session, wherever it is by now: in its cart,
\* in what a placement has read, or on an order.
OwnedBy(own) ==
  /\ \A c \in CartLines : cart[c].st = "cart" => guest[cart[c].g] = own[c]
  /\ \A t \in Txns : txn[t].op = "place" => \A c \in txn[t].seen : cart[c].st # "absent" /\ own[c] = txn[t].s
  /\ \A o \in Orders : \A c \in placed[o] : cart[c].st # "absent" /\ own[c] = order[o].s

OwnerInv == \E own \in [CartLines -> Sessions \cup {None}] : OwnedBy(own)

\* An unclosed order of a table's session is at that table until it is stale,
\* and no placement of its session is under way once it is.
StaleInv ==
  \A o \in Orders : Unclosed(o) /\ order[o].s # None =>
    /\ ~order[o].stale => order[o].table = session[order[o].s].table
    /\ order[o].stale => /\ isSessionInactive(order[o].s)
                         /\ \A t \in Txns : txn[t].op = "place" => txn[t].s # order[o].s

ServiceInv ==
  /\ ServiceTypeOK /\ RowsUsed
  /\ \A t \in Txns : RequestInv(txn[t])
  /\ TokenInv /\ TableInv /\ OwnerInv /\ StaleInv /\ LiveOrderedOnce

-----------------------------------------------------------------------------
(* Rows and their types. *)

\* The empty rows have their types.
LEMMA EmptyRows ==
  /\ Idle \in RequestRow /\ Idle.op = "none" /\ Idle.n = 0 /\ Idle.s = None
  /\ NoSession \in SessionRow /\ NoSession.st = "none" /\ NoSession.table = None
  /\ NoLine \in CartRow /\ NoLine.st = "absent"
  /\ NoOrder \in OrderRow /\ NoOrder.st = "none" /\ NoOrder.s = None /\ NoOrder.token = 0
  /\ NoOrder.table = None
<1>1. Idle \in RequestRow /\ Idle.op = "none" /\ Idle.n = 0 /\ Idle.s = None
  BY DEF Idle, RequestRow
<1>2. NoSession \in SessionRow /\ NoSession.st = "none" /\ NoSession.table = None
  BY DEF NoSession, SessionRow
<1>3. NoLine \in CartRow /\ NoLine.st = "absent"
  BY DEF NoLine, CartRow
<1>4. /\ NoOrder \in OrderRow /\ NoOrder.st = "none" /\ NoOrder.s = None /\ NoOrder.token = 0
      /\ NoOrder.table = None
  BY DEF NoOrder, OrderRow
<1> QED
  BY <1>1, <1>2, <1>3, <1>4

\* An ended session keeps its table.
LEMMA EndedRow ==
  ASSUME NEW r \in SessionRow
  PROVE  Ended(r) \in SessionRow /\ Ended(r).st = "closed" /\ Ended(r).table = r.table
<1>1. r.table \in Tables \cup {None}
  BY DEF SessionRow
<1> QED
  BY <1>1, EmptyRows DEF Ended, SessionRow

\* The Cardinality form of the table rule.
LEMMA AtMostOne ==
  ASSUME NEW S, \A x, y \in S : x = y
  PROVE  Cardinality(S) <= 1
<1>1. CASE S = {}
  BY <1>1, FS_EmptySet
<1>2. ASSUME NEW x \in S PROVE Cardinality(S) <= 1
  <2>1. S = {x}
    OBVIOUS
  <2> QED
    BY <2>1, FS_Singleton
<1> QED
  BY <1>1, <1>2

\* What is proved about tables is what the run checks.
LEMMA TableInvIs == TableInv => OneServicePerTable
  BY AtMostOne DEF TableInv, OneServicePerTable

-----------------------------------------------------------------------------
(* Steps, by what they leave alone. *)

\* How sessions move: a started one stays started, keeps its table, and once
\* inactive stays so; no table gets a second open one.
SessionsGo ==
  /\ session' \in [Sessions -> SessionRow]
  /\ \A s \in Sessions : session[s].st # "none" =>
       /\ session'[s].st # "none" /\ session'[s].table = session[s].table
       /\ isSessionInactive(s) => isSessionInactive(s)'
  /\ \A tb \in Tables : \A s, x \in OpenSessions(tb)' : s = x

\* How guests move: one that has a session keeps it.
GuestsGo ==
  /\ guest' \in [Guests -> Sessions \cup {None}]
  /\ \A g \in Guests : guest[g] # None => guest'[g] = guest[g]
  /\ \A g \in Guests : guest'[g] # None => session'[guest'[g]].st # "none"

\* The slots of requests: t's is freed, or none is touched.
SlotsGo(t) == txn' = [txn EXCEPT ![t] = Idle] \/ txn' = txn

\* Sessions left alone go on.
LEMMA SessionsStay == ASSUME ServiceInv, UNCHANGED session PROVE SessionsGo
  BY DEF ServiceInv, ServiceTypeOK, TableInv, SessionsGo, OpenSessions, isSessionInactive

\* Guests left alone go on.
LEMMA GuestsStay == ASSUME ServiceInv, UNCHANGED guest, SessionsGo PROVE GuestsGo
  BY DEF ServiceInv, ServiceTypeOK, RowsUsed, SessionsGo, GuestsGo

\* A slot that is freed or kept.
LEMMA SlotsKept ==
  ASSUME ServiceInv, NEW t, SlotsGo(t)
  PROVE  /\ txn' \in [Txns -> RequestRow]
         /\ \A u \in Txns : txn'[u] = txn[u] \/ txn'[u] = Idle
  BY EmptyRows DEF ServiceInv, ServiceTypeOK, SlotsGo

\* How cart lines move: a line that was there stays there or is spent, and one
\* that is in a cart has the guest it was added by.
CartsGo ==
  /\ cart' \in [CartLines -> CartRow]
  /\ \A c \in CartLines :
       /\ cart[c].st # "absent" => cart'[c].st # "absent"
       /\ cart'[c].st = "cart" =>
            /\ cart'[c].qty > 0 /\ cart'[c].g \in Guests /\ guest'[cart'[c].g] # None
            /\ cart[c].st = "absent" \/ (cart[c].st = "cart" /\ cart'[c].g = cart[c].g)

\* Carts left alone go on.
LEMMA CartsStay == ASSUME ServiceInv, GuestsGo, UNCHANGED cart PROVE CartsGo
  BY DEF ServiceInv, ServiceTypeOK, RowsUsed, GuestsGo, CartsGo

\* Lines keep their owners, and a new line is its guest's.
LEMMA OwnersGo ==
  ASSUME ServiceInv, GuestsGo, CartsGo
  PROVE  \E own \in [CartLines -> Sessions \cup {None}] :
           /\ \A c \in CartLines : cart'[c].st = "cart" => guest'[cart'[c].g] = own[c]
           /\ \A u \in Txns : txn[u].op = "place" => \A c \in txn[u].seen : cart'[c].st # "absent" /\ own[c] = txn[u].s
           /\ \A o \in Orders : \A c \in placed[o] : cart'[c].st # "absent" /\ own[c] = order[o].s
<1>1. PICK old \in [CartLines -> Sessions \cup {None}] : OwnedBy(old)
  BY DEF ServiceInv, OwnerInv
<1> DEFINE own == [c \in CartLines |-> IF cart[c].st = "absent" /\ cart'[c].st = "cart"
                                        THEN guest'[cart'[c].g] ELSE old[c]]
<1>2. own \in [CartLines -> Sessions \cup {None}]
  BY DEF CartsGo, GuestsGo
<1>3. \A c \in CartLines : cart'[c].st = "cart" => guest'[cart'[c].g] = own[c]
  <2>1. ASSUME NEW c \in CartLines, cart'[c].st = "cart", cart[c].st = "cart" PROVE guest'[cart'[c].g] = old[c]
    BY <1>1, <2>1 DEF CartsGo, GuestsGo, OwnedBy, ServiceInv, RowsUsed
  <2> QED
    BY <2>1 DEF CartsGo
<1>4. ASSUME NEW u \in Txns, txn[u].op = "place", NEW c \in txn[u].seen
      PROVE  cart'[c].st # "absent" /\ own[c] = txn[u].s
  <2>1. c \in CartLines
    BY DEF ServiceInv, ServiceTypeOK, RequestRow
  <2>2. cart[c].st # "absent" /\ old[c] = txn[u].s
    BY <1>1, <1>4 DEF OwnedBy
  <2> QED
    BY <2>1, <2>2 DEF CartsGo
<1>5. ASSUME NEW o \in Orders, NEW c \in placed[o]
      PROVE  cart'[c].st # "absent" /\ own[c] = order[o].s
  <2>1. c \in CartLines
    BY DEF ServiceInv, ServiceTypeOK
  <2>2. cart[c].st # "absent" /\ old[c] = order[o].s
    BY <1>1 DEF OwnedBy
  <2> QED
    BY <2>1, <2>2 DEF CartsGo
<1> HIDE DEF own
<1> QED
  BY <1>2, <1>3, <1>4, <1>5

\* A step that changes sessions, guests and carts, and may end a request.
LEMMA SessionStep ==
  ASSUME ServiceInv, SessionsGo, GuestsGo, CartsGo, NEW t, SlotsGo(t), UNCHANGED <<order, placed, counter>>
  PROVE  ServiceInv'
<1>1. /\ txn' \in [Txns -> RequestRow]
      /\ \A u \in Txns : txn'[u] = txn[u] \/ txn'[u] = Idle
  BY SlotsKept
<1>2. ServiceTypeOK'
  BY <1>1 DEF ServiceInv, ServiceTypeOK, SessionsGo, GuestsGo, CartsGo
<1>3. RowsUsed'
  <2>1. \A o \in Orders : order[o].s # None => order[o].s \in Sessions /\ session[order[o].s].st # "none"
    BY DEF ServiceInv, ServiceTypeOK, RowsUsed, OrderRow
  <2>2. \A o \in Orders : order'[o].s # None => session'[order'[o].s].st # "none"
    BY <2>1 DEF SessionsGo
  <2> QED
    BY <2>2 DEF ServiceInv, RowsUsed, GuestsGo, CartsGo
<1>4. ASSUME NEW u \in Txns PROVE RequestInv(txn[u])'
  <2>1. CASE txn'[u] = Idle
    BY <2>1, EmptyRows DEF RequestInv
  <2>2. CASE txn'[u] = txn[u]
    <3>1. RequestInv(txn[u]) /\ txn[u].s \in Sessions \cup {None} /\ txn[u] \in RequestRow
      BY DEF ServiceInv, ServiceTypeOK, RequestRow
    <3> QED
      BY <2>2, <3>1 DEF RequestInv, SessionsGo
  <2> QED
    BY <1>1, <2>1, <2>2
<1>5. TokenInv'
  <2>1. \A u, v \in Txns : u # v => txn'[u].n = 0 \/ txn'[v].n = 0
    BY <1>1, EmptyRows DEF ServiceInv, TokenInv
  <2> QED
    BY <2>1 DEF ServiceInv, TokenInv, TokensNeverReused
<1>6. TableInv'
  BY DEF ServiceInv, TableInv, SessionsGo, OrdersAt, Unclosed
<1>7. OwnerInv'
  <2>1. PICK own \in [CartLines -> Sessions \cup {None}] :
           /\ \A c \in CartLines : cart'[c].st = "cart" => guest'[cart'[c].g] = own[c]
           /\ \A u \in Txns : txn[u].op = "place" => \A c \in txn[u].seen : cart'[c].st # "absent" /\ own[c] = txn[u].s
           /\ \A o \in Orders : \A c \in placed[o] : cart'[c].st # "absent" /\ own[c] = order[o].s
    BY OwnersGo
  <2>2. \A u \in Txns : txn'[u].op = "place" => \A c \in txn'[u].seen : cart'[c].st # "absent" /\ own[c] = txn'[u].s
    BY <1>1, <2>1, EmptyRows
  <2>3. \A o \in Orders : \A c \in placed'[o] : cart'[c].st # "absent" /\ own[c] = order'[o].s
    BY <2>1
  <2>4. OwnedBy(own)'
    BY <2>1, <2>2, <2>3 DEF OwnedBy
  <2> QED
    BY <2>4 DEF OwnerInv
<1>8. StaleInv'
  <2>1. ASSUME NEW o \in Orders, Unclosed(o)', order'[o].s # None
        PROVE  /\ ~order'[o].stale => order'[o].table = session'[order'[o].s].table
               /\ order'[o].stale => /\ isSessionInactive(order[o].s)'
                                     /\ \A u \in Txns : txn'[u].op = "place" => txn'[u].s # order'[o].s
    <3>1. /\ Unclosed(o) /\ order'[o] = order[o] /\ order[o].s \in Sessions /\ session[order[o].s].st # "none"
      BY <2>1 DEF Unclosed, ServiceInv, ServiceTypeOK, RowsUsed, OrderRow
    <3>2. session'[order[o].s].table = session[order[o].s].table
      BY <3>1 DEF SessionsGo
    <3>3. isSessionInactive(order[o].s) => isSessionInactive(order[o].s)'
      BY <2>1, <3>1 DEF SessionsGo, isSessionInactive
    <3>4. /\ ~order[o].stale => order[o].table = session[order[o].s].table
          /\ order[o].stale => /\ isSessionInactive(order[o].s)
                               /\ \A u \in Txns : txn[u].op = "place" => txn[u].s # order[o].s
      BY <2>1, <3>1 DEF ServiceInv, StaleInv
    <3>5. order[o].stale => \A u \in Txns : txn'[u].op = "place" => txn'[u].s # order[o].s
      BY <1>1, <3>4, EmptyRows
    <3> QED
      BY <3>1, <3>2, <3>3, <3>4, <3>5
  <2> QED
    BY <2>1 DEF StaleInv
<1>9. LiveOrderedOnce'
  <2>1. ASSUME NEW o \in Orders, order[o].s # None
        PROVE  session'[order[o].s].table = session[order[o].s].table
    BY <2>1 DEF ServiceInv, ServiceTypeOK, RowsUsed, OrderRow, SessionsGo
  <2> QED
    BY <2>1 DEF ServiceInv, LiveOrderedOnce, Unclosed
<1> QED
  BY <1>2, <1>3, <1>4, <1>5, <1>6, <1>7, <1>8, <1>9 DEF ServiceInv

\* A request that reads: what it read goes into its slot.
LEMMA ReadStep ==
  ASSUME ServiceInv, NEW t \in Txns, NEW r \in RequestRow, RequestInv(r), r.n = 0,
         r.op = "place" => /\ ~isSessionInactive(r.s)
                           /\ \A c \in r.seen : cart[c].st = "cart" /\ guest[cart[c].g] = r.s,
         txn' = [txn EXCEPT ![t] = r], UNCHANGED <<session, guest, cart, order, placed, counter>>
  PROVE  ServiceInv'
<1>1. /\ txn' \in [Txns -> RequestRow] /\ txn'[t] = r
      /\ \A u \in Txns \ {t} : txn'[u] = txn[u]
  BY DEF ServiceInv, ServiceTypeOK
<1>2. ServiceTypeOK' /\ RowsUsed' /\ TableInv' /\ LiveOrderedOnce'
  BY <1>1 DEF ServiceInv, ServiceTypeOK, RowsUsed, TableInv, LiveOrderedOnce, OrdersAt, OpenSessions, Unclosed
<1>3. \A u \in Txns : RequestInv(txn[u])'
  BY <1>1 DEF ServiceInv, RequestInv
<1>4. TokenInv'
  <2>1. \A u, v \in Txns : u # v => txn'[u].n = 0 \/ txn'[v].n = 0
    BY <1>1 DEF ServiceInv, TokenInv
  <2> QED
    BY <2>1 DEF ServiceInv, TokenInv, TokensNeverReused
<1>5. OwnerInv'
  <2>1. PICK own \in [CartLines -> Sessions \cup {None}] : OwnedBy(own)
    BY DEF ServiceInv, OwnerInv
  <2>2. r.op = "place" => \A c \in r.seen : cart[c].st # "absent" /\ own[c] = r.s
    BY <2>1 DEF OwnedBy, RequestRow
  <2>3. \A u \in Txns : txn'[u].op = "place" => \A c \in txn'[u].seen : cart'[c].st # "absent" /\ own[c] = txn'[u].s
    BY <1>1, <2>1, <2>2 DEF OwnedBy
  <2>4. OwnedBy(own)'
    BY <2>1, <2>3 DEF OwnedBy
  <2> QED
    BY <2>4 DEF OwnerInv
<1>6. StaleInv'
  BY <1>1 DEF ServiceInv, StaleInv, Unclosed, isSessionInactive
<1> QED
  BY <1>2, <1>3, <1>4, <1>5, <1>6 DEF ServiceInv

\* A step in which orders only fade: they are closed or discarded, go stale
\* while no request is under way, or leave a table because they are stale.
LEMMA FadeStep ==
  ASSUME ServiceInv, SessionsGo, NEW t, SlotsGo(t), UNCHANGED <<guest, cart, placed, counter>>,
         order' \in [Orders -> OrderRow],
         \A o \in Orders :
           /\ order'[o].s = order[o].s /\ order'[o].token = order[o].token
           /\ order'[o].st = "none" => order[o].st = "none"
           /\ order[o].stale => order'[o].stale
           /\ Unclosed(o)' => Unclosed(o)
           /\ order'[o].table = order[o].table \/ (order'[o].table = None /\ order'[o].stale)
           /\ order'[o].stale /\ Unclosed(o)' =>
                \/ order[o].stale
                \/ /\ order[o].s # None => isSessionInactive(order[o].s)
                   /\ \A u \in Txns : txn[u] = Idle
  PROVE  ServiceInv'
<1>1. /\ txn' \in [Txns -> RequestRow]
      /\ \A u \in Txns : txn'[u] = txn[u] \/ txn'[u] = Idle
  BY SlotsKept
<1>2. ServiceTypeOK'
  BY <1>1 DEF ServiceInv, ServiceTypeOK, SessionsGo
<1>3. \A o \in Orders : order[o].s # None =>
        /\ order[o].s \in Sessions /\ session[order[o].s].st # "none" /\ session'[order[o].s].st # "none"
        /\ session'[order[o].s].table = session[order[o].s].table
        /\ isSessionInactive(order[o].s) => isSessionInactive(order[o].s)'
  <2>1. ASSUME NEW o \in Orders, order[o].s # None
        PROVE  order[o].s \in Sessions /\ session[order[o].s].st # "none" /\ order'[o].s = order[o].s
    BY <2>1 DEF ServiceInv, ServiceTypeOK, RowsUsed, OrderRow
  <2>2. ASSUME NEW o \in Orders, order[o].s # None, isSessionInactive(order[o].s)
        PROVE  isSessionInactive(order[o].s)'
    BY <2>1, <2>2 DEF SessionsGo, isSessionInactive
  <2> QED
    BY <2>1, <2>2 DEF SessionsGo
<1>4. RowsUsed'
  <2>1. \A g \in Guests : guest'[g] # None => session'[guest'[g]].st # "none"
    BY DEF ServiceInv, ServiceTypeOK, RowsUsed, SessionsGo
  <2>2. \A o \in Orders : order'[o].st = "none" => placed'[o] = {} /\ order'[o].token = 0
    BY DEF ServiceInv, RowsUsed
  <2>3. \A o \in Orders : order'[o].s # None => session'[order'[o].s].st # "none"
    BY <1>3
  <2> QED
    BY <2>1, <2>2, <2>3 DEF ServiceInv, RowsUsed
<1>5. ASSUME NEW u \in Txns PROVE RequestInv(txn[u])'
  <2>1. CASE txn'[u] = Idle
    BY <2>1, EmptyRows DEF RequestInv
  <2>2. CASE txn'[u] = txn[u]
    <3>1. RequestInv(txn[u]) /\ txn[u].s \in Sessions \cup {None} /\ txn[u] \in RequestRow
      BY DEF ServiceInv, ServiceTypeOK, RequestRow
    <3> QED
      BY <2>2, <3>1 DEF RequestInv, SessionsGo
  <2> QED
    BY <1>1, <2>1, <2>2
<1>6. TokenInv'
  <2>1. \A u, v \in Txns : u # v => txn'[u].n = 0 \/ txn'[v].n = 0
    BY <1>1, EmptyRows DEF ServiceInv, TokenInv
  <2> QED
    BY <2>1 DEF ServiceInv, TokenInv, TokensNeverReused
<1>7. TableInv'
  <2>1. ASSUME NEW tb \in Tables PROVE OrdersAt(tb)' \subseteq OrdersAt(tb)
    BY TableServiceAssumption DEF OrdersAt
  <2> QED
    BY <2>1 DEF ServiceInv, TableInv, SessionsGo
<1>8. OwnerInv'
  <2>1. PICK own \in [CartLines -> Sessions \cup {None}] : OwnedBy(own)
    BY DEF ServiceInv, OwnerInv
  <2>2. \A u \in Txns : txn'[u].op = "place" => \A c \in txn'[u].seen : cart'[c].st # "absent" /\ own[c] = txn'[u].s
    BY <1>1, <2>1, EmptyRows DEF OwnedBy
  <2>3. OwnedBy(own)'
    BY <2>1, <2>2 DEF OwnedBy
  <2> QED
    BY <2>3 DEF OwnerInv
<1>9. StaleInv'
  <2>1. ASSUME NEW o \in Orders, Unclosed(o)', order'[o].s # None
        PROVE  /\ ~order'[o].stale => order'[o].table = session'[order'[o].s].table
               /\ order'[o].stale => /\ isSessionInactive(order[o].s)'
                                     /\ \A u \in Txns : txn'[u].op = "place" => txn'[u].s # order'[o].s
    <3>1. Unclosed(o) /\ order[o].s # None /\ order[o].s = order'[o].s
      BY <2>1
    <3>2. /\ ~order[o].stale => order[o].table = session[order[o].s].table
          /\ order[o].stale => /\ isSessionInactive(order[o].s)
                               /\ \A u \in Txns : txn[u].op = "place" => txn[u].s # order[o].s
      BY <3>1 DEF ServiceInv, StaleInv
    <3>3. CASE order[o].stale
      <4>1. isSessionInactive(order[o].s)'
        BY <1>3, <3>1, <3>2, <3>3
      <4>2. \A u \in Txns : txn'[u].op = "place" => txn'[u].s # order'[o].s
        BY <1>1, <3>1, <3>2, <3>3, EmptyRows
      <4> QED
        BY <3>3, <4>1, <4>2
    <3>4. CASE ~order[o].stale
      <4>1. ~order'[o].stale => order'[o].table = session'[order'[o].s].table
        BY <1>3, <3>1, <3>2, <3>4
      <4>2. ASSUME order'[o].stale
            PROVE  /\ isSessionInactive(order[o].s)'
                   /\ \A u \in Txns : txn'[u].op = "place" => txn'[u].s # order'[o].s
        <5>1. isSessionInactive(order[o].s) /\ \A u \in Txns : txn[u] = Idle
          BY <2>1, <3>1, <3>4, <4>2
        <5> QED
          BY <1>1, <1>3, <3>1, <5>1, EmptyRows
      <4> QED
        BY <4>1, <4>2
    <3> QED
      BY <3>3, <3>4
  <2> QED
    BY <2>1 DEF StaleInv
<1>10. LiveOrderedOnce'
  BY <1>3 DEF ServiceInv, LiveOrderedOnce
<1> QED
  BY <1>2, <1>4, <1>5, <1>6, <1>7, <1>8, <1>9, <1>10 DEF ServiceInv

\* Orders as they are, but for stale ones that may have left their table.
Loosened(D) ==
  /\ D \in [Orders -> OrderRow]
  /\ \A o \in Orders :
       /\ D[o].st = order[o].st /\ D[o].s = order[o].s /\ D[o].token = order[o].token
       /\ D[o].stale = order[o].stale
       /\ D[o].table = order[o].table \/ (D[o].table = None /\ order[o].stale)

\* detachStaleTableOrder() loosens the stale orders of a table, and no others.
LEMMA DetachLoosens ==
  ASSUME ServiceTypeOK, NEW gone, gone \subseteq {o \in Orders : order[o].stale}
  PROVE  Loosened(Detach(order, gone)) /\ \A o \in gone : Detach(order, gone)[o].table = None
<1>1. ASSUME NEW r \in OrderRow
      PROVE  /\ [r EXCEPT !.table = None] \in OrderRow
             /\ [r EXCEPT !.table = None].st = r.st /\ [r EXCEPT !.table = None].s = r.s
             /\ [r EXCEPT !.table = None].token = r.token /\ [r EXCEPT !.table = None].stale = r.stale
             /\ [r EXCEPT !.table = None].table = None
  BY DEF OrderRow
<1>2. \A o \in Orders : order[o] \in OrderRow
  BY DEF ServiceTypeOK
<1>3. DOMAIN Detach(order, gone) = Orders
  BY DEF Detach
<1>4. \A o \in Orders : Detach(order, gone)[o] = IF o \in gone THEN [order[o] EXCEPT !.table = None] ELSE order[o]
  BY DEF Detach
<1>5. \A o \in Orders : Detach(order, gone)[o] \in OrderRow
  BY <1>1, <1>2, <1>4
<1>6. Detach(order, gone) \in [Orders -> OrderRow]
  BY <1>5 DEF Detach
<1> DEFINE D == Detach(order, gone)
<1> HIDE DEF D
<1>7. ASSUME NEW o \in gone
      PROVE  /\ D[o].st = order[o].st /\ D[o].s = order[o].s /\ D[o].token = order[o].token
             /\ D[o].stale = order[o].stale /\ D[o].table = None /\ order[o].stale
  <2>1. o \in Orders /\ order[o].stale /\ D[o] = [order[o] EXCEPT !.table = None]
    BY <1>4 DEF D
  <2>2. PICK r \in OrderRow : r = order[o]
    BY <1>2, <2>1
  <2>3. D[o] = [r EXCEPT !.table = None]
    BY <2>1, <2>2
  <2>4. D[o].st = r.st /\ D[o].s = r.s /\ D[o].token = r.token /\ D[o].stale = r.stale /\ D[o].table = None
    BY <2>3 DEF OrderRow
  <2> QED
    BY <2>1, <2>2, <2>4
<1>8. ASSUME NEW o \in Orders \ gone PROVE D[o] = order[o]
  BY <1>4 DEF D
<1>9. Loosened(D)
  BY <1>6, <1>7, <1>8 DEF Loosened, D
<1> QED
  BY <1>7, <1>9 DEF D

\* A request inserts order p: a table's order at a table that has no other,
\* made of nothing or of the cart lines the request has read, without a token
\* or with the one it reserved.
LEMMA NewOrderStep ==
  ASSUME ServiceInv, NEW t \in Txns, End(t), UNCHANGED <<session, guest>>, CartsGo,
         NEW p \in Orders, order[p].st = "none",
         NEW row \in OrderRow, row.st \in {"open", "sent"}, ~row.stale,
         NEW D, Loosened(D), order' = [D EXCEPT ![p] = row],
         row.s # None => session[row.s].st # "none" /\ row.table = session[row.s].table,
         row.table # None => \A q \in OrdersAt(row.table) : D[q].table = None,
         NEW made, placed' = [placed EXCEPT ![p] = made],
         made = {} \/ (txn[t].op = "place" /\ made = txn[t].seen /\ row.s = txn[t].s),
         \/ row.token = 0 /\ counter' = counter
         \/ row.token # 0 /\ row.token = txn[t].n /\ counter' = txn[t].n
  PROVE  ServiceInv'
<1>1. /\ order' \in [Orders -> OrderRow] /\ order'[p] = row
      /\ \A o \in Orders \ {p} : order'[o] = D[o]
  BY DEF Loosened
<1>2. /\ txn' \in [Txns -> RequestRow] /\ txn'[t] = Idle
      /\ \A u \in Txns \ {t} : txn'[u] = txn[u]
  BY EmptyRows DEF End, ServiceInv, ServiceTypeOK
<1>3. /\ placed' \in [Orders -> SUBSET CartLines] /\ placed'[p] = made
      /\ \A o \in Orders \ {p} : placed'[o] = placed[o]
  BY DEF ServiceInv, ServiceTypeOK, RequestRow
<1>4. /\ txn[t].n \in Nat /\ row.token \in Nat /\ counter \in Nat
      /\ txn[t].n # 0 => txn[t].n = counter + 1
  BY DEF ServiceInv, ServiceTypeOK, RequestRow, OrderRow, RequestInv
<1>5. ServiceTypeOK'
  BY <1>1, <1>2, <1>3, <1>4 DEF ServiceInv, ServiceTypeOK, CartsGo
<1>6. RowsUsed'
  <2>1. \A o \in Orders : order'[o].s # None => session'[order'[o].s].st # "none"
    BY <1>1 DEF ServiceInv, RowsUsed, Loosened
  <2>2. \A o \in Orders : order'[o].st = "none" => placed'[o] = {} /\ order'[o].token = 0
    BY <1>1, <1>3 DEF ServiceInv, RowsUsed, Loosened
  <2> QED
    BY <2>1, <2>2 DEF ServiceInv, RowsUsed, CartsGo
<1>7. ASSUME NEW u \in Txns PROVE RequestInv(txn[u])'
  <2>1. CASE u = t
    BY <1>2, <2>1, EmptyRows DEF RequestInv
  <2>2. CASE u # t /\ counter' = counter
    BY <1>2, <2>2 DEF ServiceInv, RequestInv
  <2>3. CASE u # t /\ txn[t].n # 0
    <3>1. txn[u].n = 0
      BY <2>3 DEF ServiceInv, TokenInv
    <3> QED
      BY <1>2, <2>3, <3>1 DEF ServiceInv, RequestInv
  <2> QED
    BY <2>1, <2>2, <2>3
<1>8. TokenInv'
  <2>1. \A u, v \in Txns : u # v => txn'[u].n = 0 \/ txn'[v].n = 0
    BY <1>2, EmptyRows DEF ServiceInv, TokenInv
  <2>2. counter' \in Nat /\ counter <= counter' /\ row.token <= counter'
    BY <1>4
  <2>3. \A o \in Orders \ {p} : order'[o].token = order[o].token /\ order[o].token \in Nat /\ order[o].token <= counter
    BY <1>1 DEF Loosened, ServiceInv, ServiceTypeOK, OrderRow, TokenInv
  <2>4. row.token # 0 => row.token = counter + 1
    BY <1>4
  <2>5. \A o \in Orders \ {p} : row.token # 0 => order'[o].token # row.token
    BY <1>4, <2>3, <2>4
  <2>6. TokensNeverReused'
    <3>1. ASSUME NEW o \in Orders, NEW q \in Orders, o # q, order'[o].token = order'[q].token
          PROVE  order'[o].token = 0
      <4>1. CASE o = p
        BY <1>1, <2>5, <3>1, <4>1
      <4>2. CASE q = p
        BY <1>1, <2>5, <3>1, <4>2
      <4>3. CASE o # p /\ q # p
        BY <2>3, <3>1, <4>3 DEF ServiceInv, TokenInv, TokensNeverReused
      <4> QED
        BY <4>1, <4>2, <4>3
    <3> QED
      BY <3>1 DEF TokensNeverReused
  <2>7. \A o \in Orders : order'[o].token <= counter'
    BY <1>1, <1>4, <2>2, <2>3
  <2> QED
    BY <2>1, <2>6, <2>7 DEF TokenInv
<1>9. \A o \in Orders \ {p} : /\ Unclosed(o)' <=> Unclosed(o)
                              /\ order'[o].s = order[o].s /\ order'[o].stale = order[o].stale
  BY <1>1 DEF Loosened, Unclosed
<1>10. TableInv'
  <2>1. ASSUME NEW tb \in Tables, NEW o \in OrdersAt(tb)', o # p
        PROVE  o \in OrdersAt(tb) /\ D[o].table # None /\ D[o].table = tb
    <3>1. o \in Orders /\ Unclosed(o) /\ order'[o].table = tb /\ order'[o] = D[o]
      BY <1>1, <1>9, <2>1 DEF OrdersAt
    <3>2. tb # None
      BY TableServiceAssumption
    <3> QED
      BY <3>1, <3>2 DEF Loosened, OrdersAt
  <2>2. ASSUME NEW tb \in Tables, NEW o \in OrdersAt(tb)', p \in OrdersAt(tb)'
        PROVE  o = p
    <3>1. row.table = tb /\ tb # None
      BY <1>1, <2>2, TableServiceAssumption DEF OrdersAt
    <3> QED
      BY <2>1, <3>1
  <2>3. ASSUME NEW tb \in Tables, NEW o \in OrdersAt(tb)', NEW q \in OrdersAt(tb)'
        PROVE  o = q
    BY <2>1, <2>2 DEF ServiceInv, TableInv
  <2>4. \A tb \in Tables : OpenSessions(tb)' = OpenSessions(tb)
    BY DEF OpenSessions
  <2> QED
    BY <2>3, <2>4 DEF ServiceInv, TableInv
<1>11. OwnerInv'
  <2>1. GuestsGo
    BY SessionsStay, GuestsStay
  <2>2. PICK own \in [CartLines -> Sessions \cup {None}] :
           /\ \A c \in CartLines : cart'[c].st = "cart" => guest'[cart'[c].g] = own[c]
           /\ \A u \in Txns : txn[u].op = "place" => \A c \in txn[u].seen : cart'[c].st # "absent" /\ own[c] = txn[u].s
           /\ \A o \in Orders : \A c \in placed[o] : cart'[c].st # "absent" /\ own[c] = order[o].s
    BY <2>1, OwnersGo
  <2>3. \A u \in Txns : txn'[u].op = "place" => \A c \in txn'[u].seen : cart'[c].st # "absent" /\ own[c] = txn'[u].s
    BY <1>2, <2>2, EmptyRows
  <2>4. \A c \in made : cart'[c].st # "absent" /\ own[c] = row.s
    BY <2>2
  <2>5. \A o \in Orders : \A c \in placed'[o] : cart'[c].st # "absent" /\ own[c] = order'[o].s
    BY <1>1, <1>3, <1>9, <2>2, <2>4
  <2>6. OwnedBy(own)'
    BY <2>2, <2>3, <2>5 DEF OwnedBy
  <2> QED
    BY <2>6 DEF OwnerInv
<1>12. StaleInv'
  <2>1. ASSUME NEW o \in Orders, Unclosed(o)', order'[o].s # None
        PROVE  /\ ~order'[o].stale => order'[o].table = session'[order'[o].s].table
               /\ order'[o].stale => /\ isSessionInactive(order[o].s)'
                                     /\ \A u \in Txns : txn'[u].op = "place" => txn'[u].s # order'[o].s
    <3>1. CASE o = p
      BY <1>1, <2>1, <3>1
    <3>2. CASE o # p
      <4>1. Unclosed(o) /\ order[o].s # None /\ order'[o].s = order[o].s /\ order'[o].stale = order[o].stale
        BY <1>9, <2>1, <3>2
      <4>2. /\ ~order[o].stale => order[o].table = session[order[o].s].table
            /\ order[o].stale => /\ isSessionInactive(order[o].s)
                                 /\ \A u \in Txns : txn[u].op = "place" => txn[u].s # order[o].s
        BY <4>1 DEF ServiceInv, StaleInv
      <4>3. ~order[o].stale => order'[o].table = order[o].table
        BY <1>1, <3>2 DEF Loosened
      <4>4. isSessionInactive(order[o].s) => isSessionInactive(order[o].s)'
        BY <4>1 DEF isSessionInactive
      <4>5. order[o].stale => \A u \in Txns : txn'[u].op = "place" => txn'[u].s # order'[o].s
        BY <1>2, <4>1, <4>2, EmptyRows
      <4> QED
        BY <4>1, <4>2, <4>3, <4>4, <4>5
    <3> QED
      BY <3>1, <3>2
  <2> QED
    BY <2>1 DEF StaleInv
<1>13. LiveOrderedOnce'
  <2>1. ASSUME NEW o \in Orders \ {p}, Unclosed(o), row.s # None, session[row.s].table # None
        PROVE  placed[o] \cap made = {}
    <3>1. SUFFICES ASSUME NEW c \in placed[o], c \in made PROVE FALSE
      OBVIOUS
    <3>2. txn[t].op = "place" /\ made = txn[t].seen /\ row.s = txn[t].s
      BY <3>1
    <3>3. order[o].s = row.s
      BY <3>1, <3>2 DEF ServiceInv, OwnerInv, OwnedBy
    <3>4. ~order[o].stale /\ order[o].table = session[row.s].table
      BY <2>1, <3>2, <3>3 DEF ServiceInv, StaleInv
    <3>5. o \in OrdersAt(row.table) /\ row.table # None
      BY <2>1, <3>4 DEF OrdersAt
    <3>6. D[o].table = None
      BY <3>5
    <3> QED
      BY <3>4, <3>5, <3>6 DEF Loosened, OrdersAt
  <2>2. ASSUME NEW o \in Orders, NEW q \in Orders, o # q, Unclosed(o)', Unclosed(q)',
               order'[o].s # None, session'[order'[o].s].table # None
        PROVE  placed'[o] \cap placed'[q] = {}
    <3>1. CASE o = p
      <4>1. q # p /\ Unclosed(q) /\ placed'[q] = placed[q] /\ placed'[o] = made /\ order'[o] = row
        BY <1>1, <1>3, <1>9, <2>2, <3>1
      <4> QED
        BY <2>1, <2>2, <4>1
    <3>2. CASE q = p
      <4>1. o # p /\ Unclosed(o) /\ placed'[o] = placed[o] /\ placed'[q] = made /\ order'[o].s = order[o].s
        BY <1>3, <1>9, <2>2, <3>2
      <4>2. ASSUME NEW c \in placed[o], c \in made PROVE row.s = order[o].s
        BY <4>2 DEF ServiceInv, OwnerInv, OwnedBy
      <4> QED
        BY <2>1, <2>2, <4>1, <4>2
    <3>3. CASE o # p /\ q # p
      BY <1>3, <1>9, <2>2, <3>3 DEF ServiceInv, LiveOrderedOnce
    <3> QED
      BY <3>1, <3>2, <3>3
  <2> QED
    BY <2>2 DEF LiveOrderedOnce
<1> QED
  BY <1>5, <1>6, <1>7, <1>8, <1>10, <1>11, <1>12, <1>13 DEF ServiceInv

-----------------------------------------------------------------------------
(* The actions. *)

\* reserveTokenNumber() gives the number after the counter.
LEMMA NextToken ==
  ASSUME ServiceInv
  PROVE  reserveTokenNumber = counter + 1
<1> DEFINE S == TokensInUse \cup {counter}
<1>1. S \in SUBSET Int /\ counter \in S /\ \A n \in S : counter >= n
  BY DEF TokensInUse, ServiceInv, ServiceTypeOK, OrderRow, TokenInv
<1>2. Max(S) = counter
  <2> HIDE DEF S
  <2>1. Max(S) \in S /\ \A n \in S : Max(S) >= n
    BY <1>1 DEF Max
  <2>2. Max(S) \in Int /\ counter \in Int /\ Max(S) >= counter /\ counter >= Max(S)
    BY <1>1, <2>1
  <2> QED
    BY <2>2
<1>3. counter \in Nat
  BY DEF ServiceInv, ServiceTypeOK
<1> QED
  BY <1>2, <1>3 DEF reserveTokenNumber

\* The counter's row is held by one request.
LEMMA ReserveTokenInv == ASSUME ServiceInv, NEW t \in Txns, ReserveToken(t) PROVE ServiceInv'
<1> DEFINE m == counter + 1
           r == [txn[t] EXCEPT !.n = m]
<1>1. /\ txn[t] \in RequestRow /\ txn \in [Txns -> RequestRow] /\ counter \in Nat
      /\ txn[t].op \in {"counter", "place"} /\ RequestInv(txn[t])
      /\ txn[t].op = "place" => session[txn[t].s].table = None
      /\ \A u \in Txns : txn[u].n = 0
      /\ txn' = [txn EXCEPT ![t] = r]
      /\ UNCHANGED <<session, guest, cart, order, placed, counter>>
  BY NextToken DEF ReserveToken, ServiceInv, ServiceTypeOK
<1>2. m \in Nat
  BY <1>1
<1>3. /\ r \in RequestRow /\ r.op = txn[t].op /\ r.s = txn[t].s /\ r.seen = txn[t].seen /\ r.n = m
  <2> HIDE DEF m
  <2> QED
    BY <1>1, <1>2 DEF RequestRow
<1>4. RequestInv(r)
  <2>1. r.op # "start" /\ r.op # "update" /\ r.op # "open"
    BY <1>1, <1>3
  <2>2. r.op = "place" => r.s \in Sessions /\ session[r.s].st # "none" /\ session[r.s].table = None
    BY <1>1, <1>3 DEF RequestInv
  <2> QED
    BY <1>1, <1>3, <2>1, <2>2 DEF RequestInv
<1> HIDE DEF r, m
<1>5. /\ txn' \in [Txns -> RequestRow] /\ txn'[t] = r
      /\ \A u \in Txns \ {t} : txn'[u] = txn[u]
  BY <1>1, <1>3
<1>6. ServiceTypeOK' /\ RowsUsed' /\ TableInv' /\ LiveOrderedOnce'
  BY <1>1, <1>5 DEF ServiceInv, ServiceTypeOK, RowsUsed, TableInv, LiveOrderedOnce, OrdersAt, OpenSessions, Unclosed
<1>7. \A u \in Txns : RequestInv(txn[u])'
  BY <1>1, <1>4, <1>5 DEF ServiceInv, RequestInv
<1>8. TokenInv'
  <2>1. \A u, v \in Txns : u # v => txn'[u].n = 0 \/ txn'[v].n = 0
    BY <1>1, <1>5
  <2> QED
    BY <1>1, <2>1 DEF ServiceInv, TokenInv, TokensNeverReused
<1>9. OwnerInv'
  <2>1. PICK own \in [CartLines -> Sessions \cup {None}] : OwnedBy(own)
    BY DEF ServiceInv, OwnerInv
  <2>2. \A u \in Txns : txn'[u].op = "place" => \A c \in txn'[u].seen : cart'[c].st # "absent" /\ own[c] = txn'[u].s
    BY <1>1, <1>3, <1>5, <2>1 DEF OwnedBy
  <2>3. OwnedBy(own)'
    BY <1>1, <2>1, <2>2 DEF OwnedBy
  <2> QED
    BY <2>3 DEF OwnerInv
<1>10. StaleInv'
  BY <1>1, <1>3, <1>5 DEF ServiceInv, StaleInv, Unclosed, isSessionInactive
<1> QED
  BY <1>6, <1>7, <1>8, <1>9, <1>10 DEF ServiceInv

\* Nobody at a table, or a session nobody uses: startSession() may go on.
LEMMA StartReadInv == ASSUME ServiceInv, NEW t \in Txns, NEW tb \in Tables, StartRead(t, tb) PROVE ServiceInv'
<1>1. PICK old \in OpenSessions(tb) \cup {None} : txn' = [txn EXCEPT ![t] = [Idle EXCEPT !.op = "start", !.tb = tb, !.s = old]]
  BY DEF StartRead, Begin
<1> DEFINE r == [Idle EXCEPT !.op = "start", !.tb = tb, !.s = old]
<1>2. old \in Sessions \cup {None} /\ (old # None => session[old].st # "none")
  BY <1>1 DEF OpenSessions
<1>3. r \in RequestRow /\ r.op = "start" /\ r.tb = tb /\ r.s = old /\ r.n = 0
  BY <1>2, EmptyRows DEF RequestRow
<1>4. txn' = [txn EXCEPT ![t] = r] /\ UNCHANGED <<session, guest, cart, order, placed, counter>>
  BY <1>1 DEF StartRead
<1> HIDE DEF r
<1>5. RequestInv(r)
  BY <1>2, <1>3 DEF RequestInv
<1> QED
  BY <1>3, <1>4, <1>5, ReadStep

\* A free table may be opened.
LEMMA OpenReadInv == ASSUME ServiceInv, NEW t \in Txns, NEW tb \in Tables, OpenRead(t, tb) PROVE ServiceInv'
<1> DEFINE r == [Idle EXCEPT !.op = "open", !.tb = tb]
<1>1. r \in RequestRow /\ r.op = "open" /\ r.tb = tb /\ r.n = 0
  BY EmptyRows DEF RequestRow
<1>2. txn' = [txn EXCEPT ![t] = r] /\ UNCHANGED <<session, guest, cart, order, placed, counter>>
  BY DEF OpenRead, Begin
<1> HIDE DEF r
<1>3. RequestInv(r)
  BY <1>1 DEF RequestInv
<1> QED
  BY <1>1, <1>2, <1>3, ReadStep

\* A counter order begins.
LEMMA CounterBeginInv == ASSUME ServiceInv, NEW t \in Txns, CounterBegin(t) PROVE ServiceInv'
<1> DEFINE r == [Idle EXCEPT !.op = "counter"]
<1>1. r \in RequestRow /\ r.op = "counter" /\ r.n = 0
  BY EmptyRows DEF RequestRow
<1>2. txn' = [txn EXCEPT ![t] = r] /\ UNCHANGED <<session, guest, cart, order, placed, counter>>
  BY DEF CounterBegin, Begin
<1> HIDE DEF r
<1>3. RequestInv(r)
  BY <1>1 DEF RequestInv
<1> QED
  BY <1>1, <1>2, <1>3, ReadStep

\* A guest's session is known.
LEMMA ActiveSession ==
  ASSUME ServiceInv, NEW g \in Guests, Active(g)
  PROVE  guest[g] \in Sessions /\ session[guest[g]].st # "none" /\ ~isSessionInactive(guest[g])
  BY DEF Active, ServiceInv, ServiceTypeOK, RowsUsed

\* A guest's cart is read to be placed.
LEMMA PlaceReadInv == ASSUME ServiceInv, NEW t \in Txns, NEW g \in Guests, PlaceRead(t, g) PROVE ServiceInv'
<1> DEFINE seen == CartOf(guest[g])
           r == [Idle EXCEPT !.op = "place", !.s = guest[g], !.seen = seen]
<1>1. guest[g] \in Sessions /\ session[guest[g]].st # "none" /\ ~isSessionInactive(guest[g])
  BY ActiveSession DEF PlaceRead
<1>2. seen \in SUBSET CartLines /\ \A c \in seen : cart[c].st = "cart" /\ guest[cart[c].g] = guest[g]
  BY DEF CartOf
<1>3. txn' = [txn EXCEPT ![t] = r] /\ UNCHANGED <<session, guest, cart, order, placed, counter>>
  BY DEF PlaceRead, Begin
<1> HIDE DEF seen
<1>4. r \in RequestRow /\ r.op = "place" /\ r.s = guest[g] /\ r.seen = seen /\ r.n = 0
  BY <1>1, <1>2, EmptyRows DEF RequestRow
<1> HIDE DEF r
<1>5. RequestInv(r)
  BY <1>1, <1>4 DEF RequestInv
<1>6. /\ ~isSessionInactive(r.s)
      /\ \A c \in r.seen : cart[c].st = "cart" /\ guest[cart[c].g] = r.s
  BY <1>1, <1>2, <1>4
<1> QED
  BY <1>3, <1>4, <1>5, <1>6, ReadStep

\* A line is read to be changed.
LEMMA UpdateReadInv ==
  ASSUME ServiceInv, NEW t \in Txns, NEW g \in Guests, NEW c \in CartLines, UpdateRead(t, g, c)
  PROVE  ServiceInv'
<1> DEFINE q == cart[c].qty
           r == [Idle EXCEPT !.op = "update", !.c = c, !.qty = q]
<1>1. q \in Nat /\ q > 0
  BY DEF UpdateRead, Owned, CartOf, ServiceInv, ServiceTypeOK, CartRow, RowsUsed
<1>2. txn' = [txn EXCEPT ![t] = r] /\ UNCHANGED <<session, guest, cart, order, placed, counter>>
  BY DEF UpdateRead, Begin
<1> HIDE DEF q
<1>3. r \in RequestRow /\ r.op = "update" /\ r.c = c /\ r.qty = q /\ r.n = 0
  BY <1>1, EmptyRows DEF RequestRow
<1> HIDE DEF r
<1>4. RequestInv(r)
  BY <1>1, <1>3 DEF RequestInv
<1> QED
  BY <1>2, <1>3, <1>4, ReadStep

\* Refusing a request changes nothing but its slot.
LEMMA RefuseInv == ASSUME ServiceInv, NEW t \in Txns, Refuse(t) PROVE ServiceInv'
  BY SessionStep, SessionsStay, GuestsStay, CartsStay DEF Refuse, End, SlotsGo

\* startSession() writes: of two starts at one table one is refused.
LEMMA StartWriteInv == ASSUME ServiceInv, NEW t \in Txns, StartWrite(t) PROVE ServiceInv'
<1>1. PICK s \in Sessions, g \in Guests :
        /\ session[s].st = "none" /\ guest[g] = None
        /\ session' = [x \in Sessions |->
             CASE x = s -> [NoSession EXCEPT !.st = "open", !.table = txn[t].tb]
               [] x = txn[t].s -> Ended(session[x])
               [] OTHER -> session[x]]
        /\ guest' = [guest EXCEPT ![g] = s]
  BY DEF StartWrite
<1>2. txn[t].tb \in Tables /\ (txn[t].s # None => session[txn[t].s].st # "none")
  BY DEF StartWrite, ServiceInv, RequestInv
<1>3. PICK tb \in Tables : tb = txn[t].tb
  BY <1>2
<1> DEFINE new == [NoSession EXCEPT !.st = "open", !.table = tb]
<1>4. new \in SessionRow /\ new.st = "open" /\ new.table = tb
  BY EmptyRows DEF SessionRow
<1>5. /\ session'[s] = new
      /\ \A x \in Sessions \ {s} : session'[x] = IF x = txn[t].s THEN Ended(session[x]) ELSE session[x]
      /\ DOMAIN session' = Sessions
  <2> DEFINE row(x) == CASE x = s -> new [] x = txn[t].s -> Ended(session[x]) [] OTHER -> session[x]
  <2>1. \A x \in Sessions : session'[x] = row(x)
    BY <1>1, <1>3
  <2>2. row(s) = new
    <3>1. s # txn[t].s
      BY <1>1, <1>2, TableServiceAssumption
    <3> QED
      BY <3>1
  <2>3. ASSUME NEW x \in Sessions \ {s}, x = txn[t].s PROVE row(x) = Ended(session[x])
    BY <2>3
  <2>4. ASSUME NEW x \in Sessions \ {s}, x # txn[t].s PROVE row(x) = session[x]
    BY <2>4
  <2>5. DOMAIN session' = Sessions
    BY <1>1
  <2> HIDE DEF row, new
  <2> QED
    BY <2>1, <2>2, <2>3, <2>4, <2>5
<1> HIDE DEF new
<1>6. ASSUME NEW x \in Sessions \ {s}
      PROVE  /\ session'[x] \in SessionRow /\ session'[x].table = session[x].table
             /\ session'[x].st = "open" => session[x].st = "open" /\ x # txn[t].s
             /\ session[x].st # "none" => session'[x].st # "none" /\ (isSessionInactive(x) => isSessionInactive(x)')
  <2>1. session[x] \in SessionRow
    BY DEF ServiceInv, ServiceTypeOK
  <2>2. CASE x = txn[t].s
    BY <1>5, <2>1, <2>2, EndedRow DEF isSessionInactive
  <2>3. CASE x # txn[t].s
    BY <1>5, <2>1, <2>3 DEF isSessionInactive
  <2> QED
    BY <2>2, <2>3
<1>7. session' = [x \in Sessions |-> session'[x]]
  BY <1>1
<1>8. session' \in [Sessions -> SessionRow]
  BY <1>4, <1>5, <1>6, <1>7
<1>9. \A b \in Tables : \A x, y \in OpenSessions(b)' : x = y
  <2>1. OpenSessions(tb) \subseteq {txn[t].s}
    BY <1>3 DEF StartWrite, Uncontested
  <2>2. OpenSessions(tb)' \subseteq {s}
    BY <1>6, <2>1 DEF OpenSessions
  <2>3. \A b \in Tables : b # tb => OpenSessions(b)' \subseteq OpenSessions(b)
    BY <1>4, <1>5, <1>6 DEF OpenSessions
  <2> QED
    BY <2>2, <2>3 DEF ServiceInv, TableInv
<1>10. SessionsGo
  BY <1>1, <1>6, <1>8, <1>9 DEF SessionsGo
<1>11. GuestsGo
  <2>1. \A h \in Guests : guest'[h] = IF h = g THEN s ELSE guest[h]
    BY <1>1 DEF ServiceInv, ServiceTypeOK
  <2>2. guest' \in [Guests -> Sessions \cup {None}]
    BY <1>1 DEF ServiceInv, ServiceTypeOK
  <2>3. \A h \in Guests : guest'[h] # None => session'[guest'[h]].st # "none"
    BY <1>4, <1>5, <2>1, <1>10 DEF ServiceInv, ServiceTypeOK, RowsUsed, SessionsGo
  <2> QED
    BY <1>1, <2>1, <2>2, <2>3 DEF GuestsGo
<1>12. CartsGo
  BY <1>11, CartsStay DEF StartWrite
<1>13. SlotsGo(t) /\ UNCHANGED <<order, placed, counter>>
  BY DEF StartWrite, End, SlotsGo
<1> QED
  BY <1>10, <1>11, <1>12, <1>13, SessionStep

\* A kiosk session has no table.
LEMMA KioskInv ==
  ASSUME ServiceInv, NEW s \in Sessions, NEW g \in Guests, startKioskSession(s, g)
  PROVE  ServiceInv'
<1> DEFINE new == [NoSession EXCEPT !.st = "open"]
<1>1. new \in SessionRow /\ new.st = "open" /\ new.table = None
  BY EmptyRows DEF SessionRow
<1>2. /\ session[s].st = "none" /\ guest[g] = None /\ session' = [session EXCEPT ![s] = new]
      /\ guest' = [guest EXCEPT ![g] = s] /\ UNCHANGED <<cart, order, placed, counter, txn>>
  BY DEF startKioskSession
<1> HIDE DEF new
<1>3. /\ session' \in [Sessions -> SessionRow] /\ session'[s] = new
      /\ \A x \in Sessions \ {s} : session'[x] = session[x]
  BY <1>1, <1>2 DEF ServiceInv, ServiceTypeOK
<1>4. \A tb \in Tables : OpenSessions(tb)' \subseteq OpenSessions(tb)
  BY <1>1, <1>3, TableServiceAssumption DEF OpenSessions
<1>5. SessionsGo
  BY <1>2, <1>3, <1>4 DEF SessionsGo, isSessionInactive, ServiceInv, TableInv
<1>6. GuestsGo
  <2>1. guest' \in [Guests -> Sessions \cup {None}] /\ \A h \in Guests : guest'[h] = IF h = g THEN s ELSE guest[h]
    BY <1>2 DEF ServiceInv, ServiceTypeOK
  <2>2. \A h \in Guests : guest'[h] # None => session'[guest'[h]].st # "none"
    BY <1>1, <1>3, <1>5, <2>1 DEF ServiceInv, ServiceTypeOK, RowsUsed, SessionsGo
  <2> QED
    BY <1>2, <2>1, <2>2 DEF GuestsGo
<1>7. CartsGo /\ SlotsGo(None)
  BY <1>2, <1>6, CartsStay DEF SlotsGo
<1> QED
  BY <1>2, <1>5, <1>6, <1>7, SessionStep

\* One session's row is rewritten: it keeps its table, and does not come back.
LEMMA OneSession ==
  ASSUME ServiceInv, NEW s \in Sessions, NEW r \in SessionRow, session' = [session EXCEPT ![s] = r],
         r.table = session[s].table, session[s].st # "none", r.st # "none", r.st = "open" => session[s].st = "open",
         session[s].expired => r.expired \/ r.st # "open"
  PROVE  SessionsGo
<1>1. /\ session' \in [Sessions -> SessionRow] /\ session'[s] = r
      /\ \A x \in Sessions \ {s} : session'[x] = session[x]
  BY DEF ServiceInv, ServiceTypeOK
<1>2. \A tb \in Tables : OpenSessions(tb)' \subseteq OpenSessions(tb)
  BY <1>1 DEF OpenSessions
<1> QED
  BY <1>1, <1>2 DEF SessionsGo, isSessionInactive, ServiceInv, TableInv

\* A guest joins the table's session.
LEMMA JoinInv == ASSUME ServiceInv, NEW tb \in Tables, joinSession(tb) PROVE ServiceInv'
<1>1. PICK s \in Sessions, g \in Guests :
        /\ session[s].st = "open" /\ guest[g] = None
        /\ guest' = [guest EXCEPT ![g] = s] /\ session' = [session EXCEPT ![s].idle = FALSE]
  BY DEF joinSession, OpenSessions
<1> DEFINE r == [session[s] EXCEPT !.idle = FALSE]
<1>2. r \in SessionRow /\ r.table = session[s].table /\ r.st = "open" /\ r.expired = session[s].expired
  BY <1>1 DEF ServiceInv, ServiceTypeOK, SessionRow
<1>3. session' = [session EXCEPT ![s] = r]
  BY <1>1
<1> HIDE DEF r
<1>4. SessionsGo
  BY <1>1, <1>2, <1>3, OneSession
<1>5. GuestsGo
  <2>1. guest' \in [Guests -> Sessions \cup {None}] /\ \A h \in Guests : guest'[h] = IF h = g THEN s ELSE guest[h]
    BY <1>1 DEF ServiceInv, ServiceTypeOK
  <2>2. \A h \in Guests : guest'[h] # None => session'[guest'[h]].st # "none"
    BY <1>1, <1>4, <2>1 DEF ServiceInv, ServiceTypeOK, RowsUsed, SessionsGo
  <2> QED
    BY <1>1, <2>1, <2>2 DEF GuestsGo
<1>6. CartsGo /\ SlotsGo(None) /\ UNCHANGED <<order, placed, counter>>
  BY <1>5, CartsStay DEF joinSession, SlotsGo
<1> QED
  BY <1>4, <1>5, <1>6, SessionStep

\* Staff close the table's session.
LEMMA CloseSessionInv == ASSUME ServiceInv, NEW tb \in Tables, closeSessionForStaff(tb) PROVE ServiceInv'
<1>1. PICK s \in Sessions : session[s].st = "open" /\ session' = [session EXCEPT ![s] = Ended(session[s])]
  BY DEF closeSessionForStaff, OpenSessions
<1>2. /\ Ended(session[s]) \in SessionRow /\ Ended(session[s]).st = "closed"
      /\ Ended(session[s]).table = session[s].table
  BY EndedRow DEF ServiceInv, ServiceTypeOK
<1>3. SessionsGo
  BY <1>1, <1>2, OneSession
<1>4. GuestsGo
  BY <1>3, GuestsStay DEF closeSessionForStaff
<1>5. CartsGo /\ SlotsGo(None) /\ UNCHANGED <<order, placed, counter>>
  BY <1>4, CartsStay DEF closeSessionForStaff, SlotsGo
<1> QED
  BY <1>3, <1>4, <1>5, SessionStep

\* Time passes over a session.
LEMMA SessionTimeInv == ASSUME ServiceInv, NEW s \in Sessions, GoIdle(s) \/ Expire(s) PROVE ServiceInv'
<1>1. session[s] \in SessionRow /\ session[s].st = "open" /\ ~session[s].expired
  BY DEF GoIdle, Expire, isSessionInactive, ServiceInv, ServiceTypeOK
<1>2. \E r \in SessionRow : session' = [session EXCEPT ![s] = r] /\ r.table = session[s].table /\ r.st = "open"
  <2>1. CASE GoIdle(s)
    <3> DEFINE r == [session[s] EXCEPT !.idle = TRUE]
    <3>1. r \in SessionRow /\ r.table = session[s].table /\ r.st = "open"
      BY <1>1 DEF SessionRow
    <3>2. session' = [session EXCEPT ![s] = r]
      BY <2>1 DEF GoIdle
    <3> HIDE DEF r
    <3> QED
      BY <3>1, <3>2
  <2>2. CASE Expire(s)
    <3> DEFINE r == [session[s] EXCEPT !.expired = TRUE, !.idle = FALSE]
    <3>1. r \in SessionRow /\ r.table = session[s].table /\ r.st = "open"
      BY <1>1 DEF SessionRow
    <3>2. session' = [session EXCEPT ![s] = r]
      BY <2>2 DEF Expire, ServiceInv, ServiceTypeOK
    <3> HIDE DEF r
    <3> QED
      BY <3>1, <3>2
  <2> QED
    BY <2>1, <2>2
<1>3. SessionsGo
  BY <1>1, <1>2, OneSession
<1>4. GuestsGo
  BY <1>3, GuestsStay DEF GoIdle, Expire
<1>5. CartsGo /\ SlotsGo(None) /\ UNCHANGED <<order, placed, counter>>
  BY <1>4, CartsStay DEF GoIdle, Expire, SlotsGo
<1> QED
  BY <1>3, <1>4, <1>5, SessionStep

\* A guest adds a line: the session is in use again.
LEMMA AddLineInv == ASSUME ServiceInv, NEW g \in Guests, NEW c \in CartLines, addLine(g, c) PROVE ServiceInv'
<1>1. PICK s \in Sessions : s = guest[g] /\ session[s].st # "none"
  BY ActiveSession DEF addLine
<1> DEFINE r == [session[s] EXCEPT !.idle = FALSE]
           k == IF c \in Combos THEN 1 ELSE 0
           l == [st |-> "cart", g |-> g, qty |-> 1, picks |-> k]
<1>2. r \in SessionRow /\ r.table = session[s].table /\ r.st = session[s].st /\ r.expired = session[s].expired
  BY ZenonT(60), <1>1 DEF ServiceInv, ServiceTypeOK, SessionRow
<1>3. session' = [session EXCEPT ![s] = r]
  BY <1>1 DEF addLine
<1> HIDE DEF r
<1>4. SessionsGo
  BY ZenonT(60), <1>1, <1>2, <1>3, OneSession
<1>5. GuestsGo
  BY <1>4, GuestsStay DEF addLine
<1>6. l \in CartRow /\ l.st = "cart" /\ l.g = g /\ l.qty = 1
  BY DEF CartRow
<1>7. cart[c].st = "absent" /\ cart' = [cart EXCEPT ![c] = l] /\ guest'[g] # None
  BY <1>1, TableServiceAssumption DEF addLine
<1> HIDE DEF l
<1>8. cart' \in [CartLines -> CartRow] /\ cart'[c] = l /\ \A d \in CartLines \ {c} : cart'[d] = cart[d]
  BY <1>6, <1>7 DEF ServiceInv, ServiceTypeOK
<1>9. UNCHANGED <<guest, order, placed, counter, txn>>
  BY DEF addLine
<1>10. CartsGo
  BY <1>6, <1>7, <1>8, <1>9 DEF CartsGo, ServiceInv, RowsUsed
<1>11. SlotsGo(None)
  BY <1>9 DEF SlotsGo
<1> QED
  BY <1>4, <1>5, <1>9, <1>10, <1>11, SessionStep

\* A guest takes a line back.
LEMMA RemoveLineInv ==
  ASSUME ServiceInv, NEW g \in Guests, NEW c \in CartLines, removeLine(g, c)
  PROVE  ServiceInv'
<1> DEFINE l == [NoLine EXCEPT !.st = "removed"]
<1>1. l \in CartRow /\ l.st = "removed"
  BY EmptyRows DEF CartRow
<1>2. cart' = [cart EXCEPT ![c] = l] /\ UNCHANGED <<session, guest, order, placed, counter, txn>>
  BY DEF removeLine
<1> HIDE DEF l
<1>3. cart' \in [CartLines -> CartRow] /\ cart'[c] = l /\ \A d \in CartLines \ {c} : cart'[d] = cart[d]
  BY <1>1, <1>2 DEF ServiceInv, ServiceTypeOK
<1>4. CartsGo
  BY <1>1, <1>2, <1>3 DEF CartsGo, ServiceInv, RowsUsed
<1>5. SlotsGo(None)
  BY <1>2 DEF SlotsGo
<1> QED
  BY <1>2, <1>4, <1>5, SessionsStay, GuestsStay, SessionStep

\* The picks of a line scaled by the quantity it was read with.
LEMMA UpdateWriteInv == ASSUME ServiceInv, NEW t \in Txns, UpdateWrite(t) PROVE ServiceInv'
<1>1. PICK c \in CartLines : c = txn[t].c
  BY DEF UpdateWrite, ServiceInv, RequestInv
<1>2. /\ cart[c].st = "cart" /\ cart[c] \in CartRow /\ cart \in [CartLines -> CartRow]
      /\ txn[t].qty \in Nat /\ txn[t].qty > 0
  BY <1>1 DEF UpdateWrite, ServiceInv, ServiceTypeOK, RequestInv, RequestRow
<1>3. PICK q \in 1..MaxQty :
        cart' = [cart EXCEPT ![c].qty = q, ![c].picks = (cart[c].picks \div txn[t].qty) * q]
  BY <1>1, <1>2 DEF UpdateWrite
<1>4. q \in Nat /\ q > 0
  BY TableServiceAssumption
<1> DEFINE m == (cart[c].picks \div txn[t].qty) * q
           l == [cart[c] EXCEPT !.qty = q, !.picks = m]
<1>5. m \in Nat
  <2>1. cart[c].picks \in Nat
    BY <1>2 DEF CartRow
  <2>2. cart[c].picks \div txn[t].qty \in Nat
    BY <1>2, <2>1
  <2> QED
    BY <1>4, <2>2
<1>6. cart' = [cart EXCEPT ![c] = l]
  BY <1>2, <1>3
<1> HIDE DEF m
<1>7. l \in CartRow /\ l.st = "cart" /\ l.g = cart[c].g /\ l.qty = q
  BY <1>2, <1>4, <1>5 DEF CartRow
<1> HIDE DEF l
<1>8. cart'[c] = l /\ \A d \in CartLines \ {c} : cart'[d] = cart[d]
  BY <1>2, <1>6
<1>9. cart' \in [CartLines -> CartRow]
  BY <1>2, <1>6, <1>7
<1>10. End(t) /\ UNCHANGED <<session, guest, order, placed, counter>>
  BY DEF UpdateWrite
<1>11. CartsGo
  BY <1>2, <1>4, <1>7, <1>8, <1>9, <1>10 DEF CartsGo, ServiceInv, RowsUsed
<1>12. SlotsGo(t)
  BY <1>10 DEF End, SlotsGo
<1> QED
  BY <1>10, <1>11, <1>12, SessionsStay, GuestsStay, SessionStep

\* A cart becomes an order.
LEMMA PlaceWriteInv == ASSUME ServiceInv, NEW t \in Txns, PlaceWrite(t) PROVE ServiceInv'
<1>1. PICK s \in Sessions : s = txn[t].s /\ session[s].st # "none"
  BY DEF PlaceWrite, ServiceInv, RequestInv
<1> DEFINE tb == session[s].table
           gone == IF tb = None THEN {} ELSE Stale(tb)
           D == Detach(order, gone)
           row == [st |-> "sent", table |-> tb, s |-> s, token |-> txn[t].n, stale |-> FALSE]
           spent == [NoLine EXCEPT !.st = "placed"]
<1>2. PICK p \in Orders : /\ order[p].st = "none" /\ order' = [D EXCEPT ![p] = row]
                          /\ placed' = [placed EXCEPT ![p] = txn[t].seen]
  BY <1>1 DEF PlaceWrite
<1>3. /\ txn[t].op = "place" /\ End(t) /\ UNCHANGED <<session, guest>>
      /\ counter' = (IF tb = None THEN txn[t].n ELSE counter)
      /\ IF tb = None THEN txn[t].n > 0 ELSE FreeTable(tb, Stale(tb))
      /\ cart' = [c \in CartLines |-> IF c \in CartOf(s) THEN spent ELSE cart[c]]
  BY <1>1 DEF PlaceWrite
<1>4. tb \in Tables \cup {None} /\ txn[t].n \in Nat
  BY DEF ServiceInv, ServiceTypeOK, SessionRow, RequestRow
<1>5. row \in OrderRow /\ row.st = "sent" /\ row.table = tb /\ row.s = s /\ row.token = txn[t].n /\ ~row.stale
  BY <1>4 DEF OrderRow
<1>6. gone \subseteq {o \in Orders : order[o].stale}
  BY DEF Stale, OrdersAt
<1>7. Loosened(D) /\ \A o \in gone : D[o].table = None
  BY <1>6, DetachLoosens DEF ServiceInv
<1>8. row.table # None => \A q \in OrdersAt(row.table) : D[q].table = None
  BY <1>3, <1>5, <1>7 DEF FreeTable
<1>9. \/ row.token = 0 /\ counter' = counter
      \/ row.token # 0 /\ row.token = txn[t].n /\ counter' = txn[t].n
  <2>1. tb # None => txn[t].n = 0
    BY <1>1, <1>3 DEF ServiceInv, RequestInv
  <2> QED
    BY <1>3, <1>4, <1>5, <2>1
<1>10. CartsGo
  <2>1. spent \in CartRow /\ spent.st = "placed"
    BY EmptyRows DEF CartRow
  <2> HIDE DEF spent
  <2>2. cart' \in [CartLines -> CartRow] /\ \A c \in CartLines : cart'[c] = spent \/ cart'[c] = cart[c]
    BY <1>3, <2>1 DEF ServiceInv, ServiceTypeOK
  <2> QED
    BY <1>3, <2>1, <2>2 DEF CartsGo, ServiceInv, RowsUsed
<1>11. PICK made : made = txn[t].seen
  OBVIOUS
<1>12. row.s # None => session[row.s].st # "none" /\ row.table = session[row.s].table
  BY <1>1, <1>5
<1> HIDE DEF row, D, tb, gone
<1>13. /\ placed' = [placed EXCEPT ![p] = made] /\ row.st \in {"open", "sent"}
       /\ made = {} \/ (txn[t].op = "place" /\ made = txn[t].seen /\ row.s = txn[t].s)
  BY <1>1, <1>2, <1>3, <1>5, <1>11
<1>14. End(t) /\ UNCHANGED <<session, guest>> /\ row \in OrderRow /\ ~row.stale /\ Loosened(D)
  BY <1>3, <1>5, <1>7
<1>15. PICK E : E = D
  OBVIOUS
<1>16. PICK new \in OrderRow : new = row
  BY <1>14
<1>17. /\ order[p].st = "none" /\ order' = [E EXCEPT ![p] = new] /\ Loosened(E)
       /\ new.st \in {"open", "sent"} /\ ~new.stale
       /\ made = {} \/ (txn[t].op = "place" /\ made = txn[t].seen /\ new.s = txn[t].s)
  BY <1>2, <1>13, <1>14, <1>15, <1>16
<1>18. new.table # None => \A q \in OrdersAt(new.table) : E[q].table = None
  BY <1>8, <1>15, <1>16
<1>19. /\ new.s # None => session[new.s].st # "none" /\ new.table = session[new.s].table
       /\ \/ new.token = 0 /\ counter' = counter
          \/ new.token # 0 /\ new.token = txn[t].n /\ counter' = txn[t].n
  BY <1>9, <1>12, <1>16
<1> QED
  BY <1>10, <1>13, <1>14, <1>17, <1>18, <1>19, NewOrderStep

\* Staff open an order on a table, or find another's there.
LEMMA OpenWriteInv == ASSUME ServiceInv, NEW t \in Txns, OpenWrite(t) PROVE ServiceInv'
<1>1. PICK tb \in Tables : tb = txn[t].tb
  BY DEF OpenWrite, ServiceInv, RequestInv
<1> DEFINE D == Detach(order, Stale(tb))
           row == [NoOrder EXCEPT !.st = "open", !.table = tb]
<1>2. End(t) /\ UNCHANGED <<session, guest, cart, placed, counter>>
  BY DEF OpenWrite
<1>3. Stale(tb) \subseteq {o \in Orders : order[o].stale}
  BY DEF Stale, OrdersAt
<1>4. Loosened(D) /\ \A o \in Stale(tb) : D[o].table = None
  BY <1>3, DetachLoosens DEF ServiceInv
<1>5. row \in OrderRow /\ row.st = "open" /\ row.table = tb /\ row.s = None /\ row.token = 0 /\ ~row.stale
  BY EmptyRows DEF OrderRow, NoOrder
<1>6. CartsGo /\ SessionsGo /\ SlotsGo(t)
  BY <1>2, CartsStay, SessionsStay, GuestsStay DEF End, SlotsGo
<1>7. CASE order' = D
  <2> HIDE DEF D
  <2>1. order' \in [Orders -> OrderRow]
    BY <1>4, <1>7 DEF Loosened
  <2>2. \A o \in Orders :
          /\ order'[o].s = order[o].s /\ order'[o].token = order[o].token
          /\ order'[o].st = order[o].st /\ order'[o].stale = order[o].stale
          /\ Unclosed(o)' => Unclosed(o)
          /\ order'[o].table = order[o].table \/ (order'[o].table = None /\ order'[o].stale)
    BY <1>4, <1>7 DEF Loosened, Unclosed
  <2> QED
    BY <1>2, <1>6, <2>1, <2>2, FadeStep
<1>8. ASSUME FreeTable(tb, Stale(tb)), NEW p \in Orders, order[p].st = "none", order' = [D EXCEPT ![p] = row]
      PROVE  ServiceInv'
  <2>1. \A q \in OrdersAt(tb) : D[q].table = None
    BY <1>4, <1>8 DEF FreeTable
  <2>2. placed' = [placed EXCEPT ![p] = {}]
    BY <1>2, <1>8 DEF ServiceInv, ServiceTypeOK, RowsUsed
  <2>3. row.st \in {"open", "sent"} /\ (row.table # None => \A q \in OrdersAt(row.table) : D[q].table = None)
    BY <1>5, <2>1
  <2> HIDE DEF D, row
  <2> QED
    BY <1>2, <1>4, <1>5, <1>6, <1>8, <2>2, <2>3, NewOrderStep
<1> QED
  BY <1>1, <1>7, <1>8 DEF OpenWrite

\* An order at the counter, with the token the request reserved.
LEMMA CounterWriteInv == ASSUME ServiceInv, NEW t \in Txns, CounterWrite(t) PROVE ServiceInv'
<1> DEFINE row == [NoOrder EXCEPT !.st = "open", !.token = txn[t].n]
<1>1. PICK p \in Orders : order[p].st = "none" /\ order' = [order EXCEPT ![p] = row]
  BY DEF CounterWrite
<1>2. /\ End(t) /\ UNCHANGED <<session, guest, cart, placed>> /\ counter' = txn[t].n
      /\ txn[t].n \in Nat /\ txn[t].n > 0
  BY DEF CounterWrite, ServiceInv, ServiceTypeOK, RequestRow
<1>3. /\ row \in OrderRow /\ row.st = "open" /\ row.table = None /\ row.s = None
      /\ row.token = txn[t].n /\ ~row.stale
  BY <1>2, EmptyRows DEF OrderRow, NoOrder
<1>4. Loosened(order)
  BY DEF Loosened, ServiceInv, ServiceTypeOK
<1>5. CartsGo
  BY <1>2, CartsStay, SessionsStay, GuestsStay
<1>6. placed' = [placed EXCEPT ![p] = {}]
  BY <1>1, <1>2 DEF ServiceInv, ServiceTypeOK, RowsUsed
<1>7. row.st \in {"open", "sent"} /\ row.token # 0
  BY <1>2, <1>3
<1> HIDE DEF row
<1> QED
  BY ZenonT(60), <1>1, <1>2, <1>3, <1>4, <1>5, <1>6, <1>7, NewOrderStep

\* An order is closed, and its guests' session may be settled with it.
LEMMA CloseOrderInv == ASSUME ServiceInv, NEW o \in Orders, CloseOrder(o) PROVE ServiceInv'
<1>1. SessionsGo
  <2>1. CASE UNCHANGED session
    BY <2>1, SessionsStay
  <2>2. CASE /\ order[o].s # None /\ ~isSessionInactive(order[o].s)
             /\ session' = [session EXCEPT ![order[o].s] = Ended(@)]
    <3>1. PICK s \in Sessions : s = order[o].s /\ session[s].st = "open"
      BY <2>2 DEF ServiceInv, ServiceTypeOK, OrderRow, isSessionInactive
    <3>2. session' = [session EXCEPT ![s] = Ended(session[s])] /\ session[s] \in SessionRow
      BY <2>2, <3>1 DEF ServiceInv, ServiceTypeOK
    <3>3. /\ Ended(session[s]) \in SessionRow /\ Ended(session[s]).st = "closed"
          /\ Ended(session[s]).table = session[s].table
      BY <3>2, EndedRow
    <3> QED
      BY <3>1, <3>2, <3>3, OneSession
  <2> QED
    BY <2>1, <2>2 DEF CloseOrder
<1> DEFINE r == [order[o] EXCEPT !.st = "closed"]
<1>2. order[o] \in OrderRow /\ order \in [Orders -> OrderRow]
  BY DEF ServiceInv, ServiceTypeOK
<1>3. /\ r \in OrderRow /\ r.st = "closed" /\ r.s = order[o].s /\ r.table = order[o].table
      /\ r.token = order[o].token /\ r.stale = order[o].stale
  BY <1>2 DEF OrderRow
<1>4. order' = [order EXCEPT ![o] = r] /\ UNCHANGED <<guest, cart, placed, counter, txn>>
  BY DEF CloseOrder
<1> HIDE DEF r
<1>5. order' \in [Orders -> OrderRow] /\ order'[o] = r /\ \A q \in Orders \ {o} : order'[q] = order[q]
  BY <1>2, <1>3, <1>4
<1>6. SlotsGo(None)
  BY <1>4 DEF SlotsGo
<1>7. \A q \in Orders :
        /\ order'[q].s = order[q].s /\ order'[q].token = order[q].token /\ order'[q].table = order[q].table
        /\ order'[q].st = "none" => order[q].st = "none"
        /\ order'[q].stale = order[q].stale
        /\ Unclosed(q)' => Unclosed(q)
  BY <1>3, <1>5 DEF Unclosed
<1> QED
  BY <1>1, <1>4, <1>5, <1>6, <1>7, FadeStep

\* An order without lines is deleted.
LEMMA DiscardInv == ASSUME ServiceInv, NEW o \in Orders, Discard(o) PROVE ServiceInv'
<1> DEFINE r == [order[o] EXCEPT !.st = "discarded"]
<1>1. order[o] \in OrderRow /\ order \in [Orders -> OrderRow]
  BY DEF ServiceInv, ServiceTypeOK
<1>2. /\ r \in OrderRow /\ r.st = "discarded" /\ r.s = order[o].s /\ r.table = order[o].table
      /\ r.token = order[o].token /\ r.stale = order[o].stale
  BY <1>1 DEF OrderRow
<1>3. order' = [order EXCEPT ![o] = r] /\ UNCHANGED <<session, guest, cart, placed, counter, txn>>
  BY DEF Discard
<1> HIDE DEF r
<1>4. order' \in [Orders -> OrderRow] /\ order'[o] = r /\ \A q \in Orders \ {o} : order'[q] = order[q]
  BY <1>1, <1>2, <1>3
<1>5. SlotsGo(None) /\ SessionsGo
  BY <1>3, SessionsStay DEF SlotsGo
<1>6. \A q \in Orders :
        /\ order'[q].s = order[q].s /\ order'[q].token = order[q].token /\ order'[q].table = order[q].table
        /\ order'[q].st = "none" => order[q].st = "none"
        /\ order'[q].stale = order[q].stale
        /\ Unclosed(q)' => Unclosed(q)
  BY <1>2, <1>4 DEF Unclosed
<1> QED
  BY <1>3, <1>4, <1>5, <1>6, FadeStep

\* An order turns stale, while no request is under way.
LEMMA GoStaleInv == ASSUME ServiceInv, NEW o \in Orders, GoStale(o) PROVE ServiceInv'
<1> DEFINE r == [order[o] EXCEPT !.stale = TRUE]
<1>1. order[o] \in OrderRow /\ order \in [Orders -> OrderRow]
  BY DEF ServiceInv, ServiceTypeOK
<1>2. /\ r \in OrderRow /\ r.st = order[o].st /\ r.s = order[o].s /\ r.table = order[o].table
      /\ r.token = order[o].token /\ r.stale
  BY <1>1 DEF OrderRow
<1>3. /\ order' = [order EXCEPT ![o] = r] /\ UNCHANGED <<session, guest, cart, placed, counter, txn>>
      /\ order[o].s # None => isSessionInactive(order[o].s)
      /\ \A u \in Txns : txn[u] = Idle
  BY DEF GoStale
<1> HIDE DEF r
<1>4. order' \in [Orders -> OrderRow] /\ order'[o] = r /\ \A q \in Orders \ {o} : order'[q] = order[q]
  BY <1>1, <1>2, <1>3
<1>5. SlotsGo(None) /\ SessionsGo
  BY <1>3, SessionsStay DEF SlotsGo
<1>6. \A q \in Orders :
        /\ order'[q].s = order[q].s /\ order'[q].token = order[q].token /\ order'[q].table = order[q].table
        /\ order'[q].st = "none" => order[q].st = "none"
        /\ order[q].stale => order'[q].stale
        /\ Unclosed(q)' => Unclosed(q)
  BY <1>2, <1>4 DEF Unclosed
<1>7. \A q \in Orders : order'[q].stale /\ Unclosed(q)' =>
        \/ order[q].stale
        \/ /\ order[q].s # None => isSessionInactive(order[q].s)
           /\ \A u \in Txns : txn[u] = Idle
  BY <1>3, <1>4
<1> QED
  BY <1>3, <1>4, <1>5, <1>6, <1>7, FadeStep

-----------------------------------------------------------------------------
\* The empty house.
LEMMA ServiceInitInv == ServiceInit => ServiceInv
<1> SUFFICES ASSUME ServiceInit PROVE ServiceInv
  OBVIOUS
<1>1. /\ \A s \in Sessions : session[s] = NoSession
      /\ \A g \in Guests : guest[g] = None
      /\ \A c \in CartLines : cart[c] = NoLine
      /\ \A o \in Orders : order[o] = NoOrder /\ placed[o] = {}
      /\ \A t \in Txns : txn[t] = Idle
      /\ counter = 0
  BY DEF ServiceInit
<1>2. ServiceTypeOK
  BY EmptyRows DEF ServiceInit, ServiceTypeOK
<1>3. RowsUsed /\ \A t \in Txns : RequestInv(txn[t])
  BY <1>1, EmptyRows DEF RowsUsed, RequestInv
<1>4. TokenInv
  BY <1>1, EmptyRows DEF TokenInv, TokensNeverReused
<1>5. TableInv /\ StaleInv /\ LiveOrderedOnce
  BY <1>1, EmptyRows DEF TableInv, StaleInv, LiveOrderedOnce, OrdersAt, OpenSessions, Unclosed
<1>6. OwnerInv
  <2> DEFINE own == [c \in CartLines |-> None]
  <2>1. own \in [CartLines -> Sessions \cup {None}] /\ OwnedBy(own)
    BY <1>1, EmptyRows DEF OwnedBy
  <2> QED
    BY <2>1 DEF OwnerInv
<1> QED
  BY <1>2, <1>3, <1>4, <1>5, <1>6 DEF ServiceInv

\* Nothing happens.
LEMMA ServiceStutter == ASSUME ServiceInv, UNCHANGED serviceVars PROVE ServiceInv'
<1>1. UNCHANGED <<session, guest, cart, order, placed, counter, txn>>
  BY DEF serviceVars
<1> QED
  BY <1>1, SessionStep, SessionsStay, GuestsStay, CartsStay DEF SlotsGo

\* Every step keeps the inductive invariant.
LEMMA ServiceStep == ServiceInv /\ [ServiceNext]_serviceVars => ServiceInv'
<1>1. ASSUME ServiceInv, NEW t \in Txns, RequestNext(t) PROVE ServiceInv'
  BY <1>1, StartReadInv, OpenReadInv, PlaceReadInv, UpdateReadInv, StartWriteInv, UpdateWriteInv,
     PlaceWriteInv, OpenWriteInv, CounterBeginInv, ReserveTokenInv, CounterWriteInv, RefuseInv
  DEF RequestNext
<1> QED
  BY <1>1, JoinInv, CloseSessionInv, KioskInv, AddLineInv, RemoveLineInv, SessionTimeInv,
     CloseOrderInv, DiscardInv, GoStaleInv, ServiceStutter
  DEF ServiceNext

\* The inductive invariant holds throughout.
THEOREM ServiceInvariance == ServiceSpec => []ServiceInv
  BY ServiceInitInv, ServiceStep, PTL DEF ServiceSpec

\* However waiters, guests and leftovers of an earlier service race for a
\* table, it has one unclosed order and one open session.
THEOREM TablesServedOnce == ServiceSpec => []OneServicePerTable
<1>1. ServiceInv => OneServicePerTable
  BY TableInvIs DEF ServiceInv
<1> QED
  BY <1>1, ServiceInvariance, PTL

\* No two orders ever carry the same token, not even after one was discarded.
THEOREM TokensDistinct == ServiceSpec => []TokensNeverReused
<1>1. ServiceInv => TokensNeverReused
  BY DEF ServiceInv, TokenInv
<1> QED
  BY <1>1, ServiceInvariance, PTL

\* However many guests of a table place the cart they share, and however often,
\* no dish of it is on two live orders.
THEOREM CartPlacedOnce == ServiceSpec => []LiveOrderedOnce
<1>1. ServiceInv => LiveOrderedOnce
  BY DEF ServiceInv
<1> QED
  BY <1>1, ServiceInvariance, PTL
=============================================================================
