----------------------------- MODULE CashDrawer -----------------------------
(***************************************************************************)
(* The cash drawer of one outlet (pos/shifts): a shift is opened with a    *)
(* float, cash movements are logged on it, and closing it computes the     *)
(* cash that should be there.  Sales and refunds carry no shift id: a      *)
(* close takes those whose time stamp is not before the shift's opening.   *)
(*                                                                         *)
(* Every request is a transaction at READ COMMITTED, so each query of it   *)
(* is a step.  Stamps are taken from one clock that never repeats; a sale  *)
(* or a refund is stamped first and visible later.  Credit notes from      *)
(* before the method of a refund was recorded have the method "unknown"    *)
(* and are there from the start; no new one is written.                    *)
(***************************************************************************)
EXTENDS Integers, Sequences, SequencesExt, FiniteSets, FiniteSetsExt, Functions

CONSTANTS
  Shifts,        \* shift ids, 1..n in order of creation
  Sales,         \* bills
  CashPaid,      \* the cash tendered on a bill
  Notes,         \* credit notes
  NoteBill, NoteTotal,  \* the bill and the amount of a note
  Legacy,        \* the notes of unknown method, with their stamps
  Movements,     \* cash movements
  Float, Amount, \* the float of a shift, the amount of a movement
  Tills,         \* slots for requests in flight
  MaxStamp       \* bound: clock readings

ASSUME DrawerAssumption ==
  /\ Shifts \subseteq Nat \ {0} /\ MaxStamp \in Nat
  /\ IsFiniteSet(Shifts) /\ IsFiniteSet(Notes)
  /\ CashPaid \in [Sales -> Nat] /\ NoteTotal \in [Notes -> Nat]
  /\ NoteBill \in [Notes -> Sales]
  /\ DOMAIN Legacy \subseteq Notes
  /\ \A n \in DOMAIN Legacy : Legacy[n] \in Nat

VARIABLES
  stamp,   \* the last clock reading
  shift,   \* shifts: status, opening, expected cash; history: what the close took
  sale,    \* finalize of a bill: none, pending (stamped), done (committed)
  note,    \* credit notes, likewise, with their method
  moved,   \* cash_movements: the shift each is logged on
  till     \* the request in each slot

drawerVars == <<stamp, shift, sale, note, moved, till>>

NoShift == [st |-> "none", at |-> 0, expected |-> 0, sales |-> {}, cash |-> << >>, closes |-> 0]
OpenedAt(t) == [st |-> "open", at |-> t, expected |-> 0, sales |-> {}, cash |-> << >>, closes |-> 0]
NoRow == [st |-> "none", at |-> 0]
IdleTill == [op |-> "idle", shift |-> 0, at |-> 0, moved |-> {}, sales |-> {}, cash |-> << >>]
LegacyBills == {NoteBill[n] : n \in DOMAIN Legacy}

\* The version that records methods starts with old notes, their bills paid,
\* and a shift open since before or after some of them.
DrawerInit ==
  /\ stamp = Max({Legacy[n] : n \in DOMAIN Legacy} \cup {0})
  /\ \E since \in 0..stamp :
       shift = [s \in Shifts |-> IF s = 1 THEN OpenedAt(since) ELSE NoShift]
  /\ sale = [b \in Sales |-> IF b \in LegacyBills THEN [st |-> "done", at |-> 0] ELSE NoRow]
  /\ note = [n \in Notes |->
               IF n \in DOMAIN Legacy THEN [st |-> "done", at |-> Legacy[n], method |-> "unknown"]
               ELSE [st |-> "none", at |-> 0, method |-> "unknown"]]
  /\ moved = [v \in Movements |-> 0]
  /\ till = [k \in Tills |-> IdleTill]

Tick == stamp < MaxStamp /\ stamp' = stamp + 1
OpenShifts == {s \in Shifts : shift[s].st = "open"}

-----------------------------------------------------------------------------
\* Opening and movements

OpenRead(k) ==
  /\ till[k].op = "idle"
  /\ OpenShifts = {}
  /\ till' = [till EXCEPT ![k] = [IdleTill EXCEPT !.op = "open"]]
  /\ UNCHANGED <<stamp, shift, sale, note, moved>>

\* The partial unique index shifts_one_open_per_outlet.
NoOpenShift == OpenShifts = {}

OpenWrite(k) ==
  /\ till[k].op = "open"
  /\ till' = [till EXCEPT ![k] = IdleTill]
  /\ \/ /\ NoOpenShift
        /\ Tick
        /\ \E s \in Shifts :
             /\ shift[s].st = "none" /\ \A r \in Shifts : r < s => shift[r].st # "none"
             /\ shift' = [shift EXCEPT ![s] = OpenedAt(stamp')]
     \/ /\ ~NoOpenShift
        /\ UNCHANGED <<stamp, shift>>
  /\ UNCHANGED <<sale, note, moved>>

MoveRead(k, s) ==
  /\ till[k].op = "idle"
  /\ shift[s].st = "open"
  /\ till' = [till EXCEPT ![k] = [op |-> "move", shift |-> s, at |-> 0, moved |-> {}, sales |-> {}, cash |-> << >>]]
  /\ UNCHANGED <<stamp, shift, sale, note, moved>>

MoveWrite(k, v) ==
  /\ till[k].op = "move"
  /\ moved[v] = 0
  /\ moved' = [moved EXCEPT ![v] = till[k].shift]
  /\ till' = [till EXCEPT ![k] = IdleTill]
  /\ UNCHANGED <<stamp, shift, sale, note>>

-----------------------------------------------------------------------------
\* Sales and refunds, as the drawer sees them

SaleStamp(b) ==
  /\ sale[b].st = "none"
  /\ Tick
  /\ sale' = [sale EXCEPT ![b] = [st |-> "pending", at |-> stamp']]
  /\ UNCHANGED <<shift, note, moved, till>>

SaleCommit(b) ==
  /\ sale[b].st = "pending"
  /\ sale' = [sale EXCEPT ![b].st = "done"]
  /\ UNCHANGED <<stamp, shift, note, moved, till>>

RefundStamp(n, method) ==
  /\ note[n].st = "none" /\ sale[NoteBill[n]].st = "done"
  /\ Tick
  /\ note' = [note EXCEPT ![n] = [st |-> "pending", at |-> stamp', method |-> method]]
  /\ UNCHANGED <<shift, sale, moved, till>>

RefundCommit(n) ==
  /\ note[n].st = "pending"
  /\ note' = [note EXCEPT ![n].st = "done"]
  /\ UNCHANGED <<stamp, shift, sale, moved, till>>

-----------------------------------------------------------------------------
\* Closing

CloseLoad(k, s) ==
  /\ till[k].op = "idle"
  /\ shift[s].st = "open"
  /\ till' = [till EXCEPT ![k] = [op |-> "sum sales", shift |-> s, at |-> shift[s].at,
                                  moved |-> {v \in Movements : moved[v] = s}, sales |-> {}, cash |-> << >>]]
  /\ UNCHANGED <<stamp, shift, sale, note, moved>>

Mut_computeCashSales(since) == {b \in Sales : sale[b].st = "done"}
computeCashSales(since) == {b \in Sales : sale[b].st = "done" /\ sale[b].at >= since}

SumSales(k) ==
  /\ till[k].op = "sum sales"
  /\ till' = [till EXCEPT ![k] = [op |-> "sum refunds", shift |-> @.shift, at |-> @.at, moved |-> @.moved,
                                  sales |-> computeCashSales(@.at), cash |-> << >>]]
  /\ UNCHANGED <<stamp, shift, sale, note, moved>>

\* The cash a note hands back, when the bill has `left` of its cash.
CashOf(n, left) ==
  CASE note[n].method = "cash" -> NoteTotal[n]
    [] note[n].method = "unknown" -> Min({NoteTotal[n], left})
    [] note[n].method = "card" -> 0

NoteStep(acc, n) ==
  LET b == NoteBill[n]
      cash == CashOf(n, acc.left[b])
  IN  [left |-> [acc.left EXCEPT ![b] = Max({@ - cash, 0})], cash |-> [acc.cash EXCEPT ![n] = cash]]

Youngest(S) == CHOOSE n \in S : \A m \in S : note[m].at <= note[n].at

\* The walk over a set of notes, oldest first: the youngest comes after the
\* walk over the others.
Walked(walk) ==
  LET w[S \in SUBSET walk] == IF S = {} THEN [left |-> CashPaid, cash |-> [n \in walk |-> 0]]
                              ELSE NoteStep(w[S \ {Youngest(S)}], Youngest(S))
  IN  w[walk]

\* The cash of every note of the shift.  All notes of their bills are walked,
\* so that earlier shifts' refunds use up the bill's cash.
computeCashRefunds(since) ==
  LET seen == {n \in Notes : note[n].st = "done"}
      inShift == {n \in seen : note[n].at >= since}
      walk == {n \in seen : \E i \in inShift : NoteBill[i] = NoteBill[n]}
  IN  [n \in inShift |-> Walked(walk).cash[n]]

SumRefunds(k) ==
  /\ till[k].op = "sum refunds"
  /\ till' = [till EXCEPT ![k] = [op |-> "close", shift |-> @.shift, at |-> @.at, moved |-> @.moved,
                                  sales |-> @.sales, cash |-> computeCashRefunds(@.at)]]
  /\ UNCHANGED <<stamp, shift, sale, note, moved>>

expectedMinor(t) ==
  Float + MapThenSumSet(LAMBDA b : CashPaid[b], t.sales)
        - MapThenSumSet(LAMBDA n : t.cash[n], DOMAIN t.cash)
        - MapThenSumSet(LAMBDA v : Amount, t.moved)

\* The update is by id: a shift closed meanwhile is closed again.
CloseWrite(k) ==
  LET t == till[k] IN
  /\ t.op = "close"
  /\ shift' = [shift EXCEPT ![t.shift] =
                 [st |-> "closed", at |-> t.at, expected |-> expectedMinor(t),
                  sales |-> t.sales, cash |-> t.cash, closes |-> @.closes + 1]]
  /\ till' = [till EXCEPT ![k] = IdleTill]
  /\ UNCHANGED <<stamp, sale, note, moved>>

DrawerNext ==
  \/ \E k \in Tills : OpenRead(k) \/ OpenWrite(k) \/ SumSales(k) \/ SumRefunds(k) \/ CloseWrite(k)
  \/ \E k \in Tills, s \in Shifts : MoveRead(k, s) \/ CloseLoad(k, s)
  \/ \E k \in Tills, v \in Movements : MoveWrite(k, v)
  \/ \E b \in Sales : SaleStamp(b) \/ SaleCommit(b)
  \/ \E n \in Notes, method \in {"cash", "card"} : RefundStamp(n, method)
  \/ \E n \in Notes : RefundCommit(n)

DrawerSpec == DrawerInit /\ [][DrawerNext]_drawerVars

-----------------------------------------------------------------------------
ClosedOnce == {s \in Shifts : shift[s].closes = 1}

\* No cash sale and no cash refund is in the expected cash of two shifts that
\* were each closed by one request: "since this shift opened" tells the shifts
\* apart although bills and credit notes carry no shift id (closeShift,
\* computeCashSalesMinor, shifts_one_open_per_outlet).
CountedOnce ==
  \A r, s \in ClosedOnce : r # s =>
    /\ shift[r].sales \cap shift[s].sales = {}
    /\ DOMAIN shift[r].cash \cap DOMAIN shift[s].cash = {}

\* Refunds of unknown method never take more cash out of the drawers, over
\* all shifts, than their bill was paid in cash (computeCashRefundsMinor).
LegacyWithinCash ==
  \A b \in LegacyBills :
    LET of(s) == {n \in DOMAIN shift[s].cash : n \in DOMAIN Legacy /\ NoteBill[n] = b}
        taken == [s \in ClosedOnce |-> SumFunctionOnSet(shift[s].cash, of(s))]
    IN  SumFunctionOnSet(taken, ClosedOnce) <= CashPaid[b]

\* No cash is counted twice over the shifts, coming in or going out: both of
\* the above.
CashCountedOnce == CountedOnce /\ LegacyWithinCash
=============================================================================
