------------------------ MODULE BillSettlementProofs ------------------------
(***************************************************************************)
(* Proofs about the money path for every set of orders, lines, intents and *)
(* concurrent requests, every tax profile and every bound.                 *)
(*                                                                         *)
(* The inductive invariant is IInv.  A handler's read step is summed up by *)
(* one lemma, "it starts a sound request and changes no table"; its write  *)
(* step by what it does to each table.                                     *)
(***************************************************************************)
EXTENDS BillSettlement, Sums, TLAPS

\* A request under way names rows that exist: an order, and for a line or an
\* intent handler that line or an intent of that order's bill.
TxnInv ==
  /\ \A t \in Txns :
       /\ txn[t].op # "none" => txn[t].o \in Orders
       /\ txn[t].op \in Reductions \cup {"addLine"} => txn[t].ref \in Lines
       /\ txn[t].op = "confirm" =>
            /\ txn[t].ref \in Intents
            /\ intent[txn[t].ref].o = txn[t].o
            /\ txn[t].saw => Finalized(txn[t].o)
  /\ \A i \in Intents :
       /\ intent[i].st # "none" <=> intent[i].o \in Orders
       /\ intent[i].o \in Orders => bill[intent[i].o].status # "none"
       /\ intent[i].late => intent[i].st = "succeeded" /\ Finalized(intent[i].o)

\* Money is only ever tendered on, and a number given to, a bill that exists.
TenderInv == \A o \in Orders : bill[o].status = "none" => Tendered(o) = 0 /\ bill[o].number = 0

\* The inductive invariant: types, what requests under way may rely on, who
\* holds which lock, no money without a bill, and the bill numbers.
IInv == TypeOK /\ TxnInv /\ LockInv /\ TenderInv /\ UniqueBillNumbers

\* What the read step of a handler leaves behind in its slot.
Sound(r) ==
  /\ r \in RequestRow
  /\ r.op = "updateLine" => r.n \in 0..MaxQty
  /\ r.o \in Orders
  /\ r.op \in Reductions \cup {"addLine"} => r.ref \in Lines
  /\ r.op \in Reductions => ~r.saw
  /\ r.op = "confirm" =>
       /\ r.ref \in Intents
       /\ intent[r.ref].o = r.o
       /\ r.saw => Finalized(r.o)
  /\ r.locked => LockFree(r.o)
  /\ r.op \in {"finalize", "createIntent"} \/ (r.op = "confirm" /\ ~r.saw) =>
       r.locked /\ bill[r.o].status = "open"

Starts(t) == UNCHANGED tables /\ \E r \in RequestRow : Sound(r) /\ Begin(t, r)
-----------------------------------------------------------------------------
(* Rows and their types. *)

\* An idle request slot is well typed and holds nothing.
LEMMA IdleType ==
  /\ Idle \in RequestRow
  /\ Idle.op = "none" /\ Idle.stage = "write" /\ Idle.n = 0
  /\ Idle.locked = FALSE /\ Idle.saw = FALSE
  BY BillSettlementAssumption DEF Idle, RequestRow, Minor

\* A new request carries its handler and its order, and holds no lock.
LEMMA RequestType ==
  ASSUME NEW op \in Handlers, NEW o \in Orders
  PROVE  /\ Request(op, o) \in RequestRow
         /\ Request(op, o).op = op /\ Request(op, o).o = o /\ Request(op, o).n = 0
         /\ Request(op, o).locked = FALSE /\ Request(op, o).saw = FALSE
  BY IdleType DEF Request, RequestRow

\* The bounds are natural numbers.
LEMMA Bounds == MaxQty \in Nat /\ MaxMinor \in Nat
  BY BillSettlementAssumption

\* A line belongs to an order.
LEMMA OrderOfType == \A l \in Lines : OrderOf[l] \in Orders
  BY BillSettlementAssumption

\* The fields of a request have their types.
LEMMA RequestFields ==
  ASSUME NEW r \in RequestRow
  PROVE  /\ r.op \in Handlers \cup {"none"} /\ r.stage \in {"check", "write"}
         /\ r.o \in Orders \cup {None} /\ r.ref \in Lines \cup Intents \cup {None}
         /\ r.locked \in BOOLEAN /\ r.saw \in BOOLEAN /\ r.subtotal \in Minor /\ r.n \in Nat
  BY DEF RequestRow

\* Totals and round-offs of integer amounts are integers.
LEMMA TotalInt ==
  ASSUME NEW s \in Int, NEW x \in Int, NEW d \in Int
  PROVE  Total(s, x, d) \in Int
  BY DEF Total, computeTotalMinor

\* The amounts of a tender row are natural numbers.
LEMMA TenderFields ==
  ASSUME NEW p \in TenderRow
  PROVE  p.cash \in Nat /\ p.other \in Nat /\ p.sim \in Nat
  BY Bounds DEF TenderRow, Minor

\* A bill's tenders add up to a natural number.
LEMMA TenderedNat == ASSUME TypeOK, NEW o \in Orders PROVE Tendered(o) \in Nat
  BY TenderFields DEF TypeOK, Tendered

\* The cash rounding of an integer amount is an integer.
LEMMA RoundOffInt ==
  ASSUME NEW total \in Int, NEW paid \in TenderRow
  PROVE  RoundOff(total, paid) \in Int
<1>1. ASSUME NEW due \in Int PROVE cashRoundOffMinor(due, TaxProfile.country) \in Int
  BY DEF cashRoundOffMinor, CashUnit
<1> QED
  BY <1>1, TenderFields DEF RoundOff

\* New totals on a bill row leave it a bill row.
LEMMA BillTotalsType ==
  ASSUME TypeOK, NEW o, NEW s \in Minor, NEW x \in Minor
  PROVE  [bill EXCEPT ![o] = [@ EXCEPT !.subtotal = s, !.tax = x]] \in [Orders -> BillRow]
<1>1. ASSUME NEW b \in BillRow PROVE [b EXCEPT !.subtotal = s, !.tax = x] \in BillRow
  BY DEF BillRow
<1> QED
  BY <1>1 DEF TypeOK

\* Ending a request keeps the request slots well typed.
LEMMA EndType ==
  ASSUME TypeOK, NEW t \in Txns, End(t)
  PROVE  /\ txn' \in [Txns -> RequestRow]
         /\ \A u \in Txns : txn'[u].op = "updateLine" => txn'[u].n \in 0..MaxQty
  BY IdleType DEF TypeOK, End

\* A request under way is on an order.
LEMMA OnOrder == ASSUME IInv, NEW t \in Txns, txn[t].op # "none" PROVE txn[t].o \in Orders
  BY DEF IInv, TxnInv
-----------------------------------------------------------------------------
(* Read steps: each starts a sound request. *)

\* addLine() starts a request for a line of an existing order.
LEMMA AddLineReadStarts ==
  ASSUME IInv, NEW t \in Txns, NEW l \in Lines, AddLineRead(t, l)
  PROVE  Starts(t)
<1> DEFINE q == Request("addLine", OrderOf[l])
           r == [q EXCEPT !.ref = l]
<1>2. q \in RequestRow /\ q.op = "addLine" /\ q.o = OrderOf[l] /\ ~q.locked
  BY ZenonT(60), OrderOfType, RequestType DEF Handlers, Reductions
<1>5. r \in RequestRow /\ r.op = "addLine" /\ r.o = OrderOf[l] /\ r.ref = l /\ ~r.locked
  <2> HIDE DEF q
  <2> QED
    BY <1>2 DEF RequestRow
<1>6. Begin(t, r) /\ UNCHANGED tables
  BY DEF AddLineRead
<1> HIDE DEF q, r
<1>7. Sound(r)
  BY <1>5, OrderOfType DEF Sound, Reductions
<1> QED
  BY <1>5, <1>6, <1>7 DEF Starts

\* updateLine() starts one that carries a quantity in bounds.
LEMMA UpdateLineReadStarts ==
  ASSUME IInv, NEW t \in Txns, NEW l \in Lines, NEW k \in 1..MaxQty, UpdateLineRead(t, l, k)
  PROVE  Starts(t)
<1> DEFINE q == Request("updateLine", OrderOf[l])
           stage == IF k < line[l].qty THEN "check" ELSE "write"
           r == [q EXCEPT !.ref = l, !.n = k, !.stage = stage]
<1>2. q \in RequestRow /\ q.op = "updateLine" /\ q.o = OrderOf[l] /\ ~q.locked /\ ~q.saw
  BY ZenonT(60), OrderOfType, RequestType DEF Handlers, Reductions
<1>3. k \in Nat /\ k \in 0..MaxQty
  BY Bounds
<1>4. stage \in {"check", "write"}
  OBVIOUS
<1>5. r \in RequestRow /\ r.op = "updateLine" /\ r.o = OrderOf[l] /\ r.ref = l /\ r.n = k /\ ~r.locked /\ ~r.saw
  <2> HIDE DEF q, stage
  <2> QED
    BY <1>2, <1>3, <1>4 DEF RequestRow
<1>6. Begin(t, r) /\ UNCHANGED tables
  BY DEF UpdateLineRead
<1> HIDE DEF q, stage, r
<1>7. Sound(r)
  BY <1>3, <1>5, OrderOfType DEF Sound, Reductions
<1> QED
  BY <1>5, <1>6, <1>7 DEF Starts

\* removeLine() starts one on a line.
LEMMA RemoveLineReadStarts ==
  ASSUME IInv, NEW t \in Txns, NEW l \in Lines, RemoveLineRead(t, l)
  PROVE  Starts(t)
<1> DEFINE q == Request("removeLine", OrderOf[l])
           r == [q EXCEPT !.ref = l, !.stage = "check"]
<1>1. "removeLine" \in Handlers
  BY DEF Handlers, Reductions
<1>2. q \in RequestRow /\ q.op = "removeLine" /\ q.o = OrderOf[l] /\ ~q.locked /\ ~q.saw
  BY <1>1, OrderOfType, RequestType
<1>5. r \in RequestRow /\ r.op = "removeLine" /\ r.o = OrderOf[l] /\ r.ref = l /\ ~r.locked /\ ~r.saw
  <2> HIDE DEF q
  <2> QED
    BY <1>2 DEF RequestRow
<1>6. Begin(t, r) /\ UNCHANGED tables
  BY DEF RemoveLineRead
<1> HIDE DEF q, r
<1>7. Sound(r)
  BY <1>5, OrderOfType DEF Sound, Reductions
<1> QED
  BY <1>5, <1>6, <1>7 DEF Starts

\* voidLine() starts one on a line.
LEMMA VoidLineReadStarts ==
  ASSUME IInv, NEW t \in Txns, NEW l \in Lines, VoidLineRead(t, l)
  PROVE  Starts(t)
<1> DEFINE q == Request("voidLine", OrderOf[l])
           r == [q EXCEPT !.ref = l, !.stage = "check"]
<1>2. q \in RequestRow /\ q.op = "voidLine" /\ q.o = OrderOf[l] /\ ~q.locked /\ ~q.saw
  BY ZenonT(60), OrderOfType, RequestType DEF Handlers, Reductions
<1>5. r \in RequestRow /\ r.op = "voidLine" /\ r.o = OrderOf[l] /\ r.ref = l /\ ~r.locked /\ ~r.saw
  <2> HIDE DEF q
  <2> QED
    BY <1>2 DEF RequestRow
<1>6. Begin(t, r) /\ UNCHANGED tables
  BY DEF VoidLineRead
<1> HIDE DEF q, r
<1>7. Sound(r)
  BY <1>5, OrderOfType DEF Sound, Reductions
<1> QED
  BY <1>5, <1>6, <1>7 DEF Starts

\* updateStatus() starts one on an order.
LEMMA SendReadStarts ==
  ASSUME IInv, NEW t \in Txns, NEW o \in Orders, SendRead(t, o)
  PROVE  Starts(t)
<1> DEFINE q == Request(IF order[o] = "open" THEN "send" ELSE "resend", o)
           r == q
<1>2. q \in RequestRow /\ q.op \in {"send", "resend"} /\ q.o = o /\ ~q.locked
  BY RequestType DEF Handlers, Reductions
<1>5. r \in RequestRow /\ r.op \in {"send", "resend"} /\ r.o = o /\ ~r.locked
  BY <1>2
<1>6. Begin(t, r) /\ UNCHANGED tables
  BY DEF SendRead
<1> HIDE DEF q
<1>7. Sound(r)
  BY <1>5 DEF Sound, Reductions
<1> QED
  BY <1>5, <1>6, <1>7 DEF Starts

\* discard() starts one on an order.
LEMMA DiscardReadStarts ==
  ASSUME IInv, NEW t \in Txns, NEW o \in Orders, DiscardRead(t, o)
  PROVE  Starts(t)
<1> DEFINE q == Request(IF \E l \in LinesOf(o) : line[l].st = "voided"
                              THEN "discardVoided" ELSE "discard", o)
           r == [q EXCEPT !.saw = bill[o].status # "none"]
<1>2. q \in RequestRow /\ q.op \in {"discard", "discardVoided"} /\ q.o = o /\ ~q.locked
  BY RequestType DEF Handlers, Reductions
<1>5. r \in RequestRow /\ r.op \in {"discard", "discardVoided"} /\ r.o = o /\ ~r.locked
  <2> HIDE DEF q
  <2> QED
    BY <1>2 DEF RequestRow
<1>6. Begin(t, r) /\ UNCHANGED tables
  BY DEF DiscardRead
<1> HIDE DEF q, r
<1>7. Sound(r)
  BY <1>5 DEF Sound, Reductions
<1> QED
  BY <1>5, <1>6, <1>7 DEF Starts

\* createBill() starts one with the subtotal it read.
LEMMA CreateBillReadStarts ==
  ASSUME IInv, NEW t \in Txns, NEW o \in Orders, CreateBillRead(t, o)
  PROVE  Starts(t)
<1> DEFINE q == Request("createBill", o)
           r == [q EXCEPT !.subtotal = computeSubtotal(o)]
<1>2. q \in RequestRow /\ q.op = "createBill" /\ q.o = o /\ ~q.locked
  BY RequestType DEF Handlers, Reductions
<1>3. computeSubtotal(o) \in Minor
  BY DEF CreateBillRead
<1>5. r \in RequestRow /\ r.op = "createBill" /\ r.o = o /\ ~r.locked
  <2> HIDE DEF q
  <2> QED
    BY <1>2, <1>3 DEF RequestRow
<1>6. Begin(t, r) /\ UNCHANGED tables
  BY DEF CreateBillRead
<1> HIDE DEF q, r
<1>7. Sound(r)
  BY <1>5 DEF Sound, Reductions
<1> QED
  BY <1>5, <1>6, <1>7 DEF Starts

\* A refresh starts one with the subtotal it read, and no lock.
LEMMA RefreshReadStarts ==
  ASSUME IInv, NEW t \in Txns, NEW o \in Orders, RefreshRead(t, o)
  PROVE  Starts(t)
<1> DEFINE q == Request("refresh", o)
           r == [q EXCEPT !.subtotal = computeSubtotal(o)]
<1>2. q \in RequestRow /\ q.op = "refresh" /\ q.o = o /\ ~q.locked
  BY RequestType DEF Handlers, Reductions
<1>3. computeSubtotal(o) \in Minor
  BY DEF RefreshRead
<1>5. r \in RequestRow /\ r.op = "refresh" /\ r.o = o /\ ~r.locked
  <2> HIDE DEF q
  <2> QED
    BY <1>2, <1>3 DEF RequestRow
<1>6. Begin(t, r) /\ UNCHANGED tables
  BY DEF RefreshRead
<1> HIDE DEF q, r
<1>7. Sound(r)
  BY <1>5 DEF Sound, Reductions
<1> QED
  BY <1>5, <1>6, <1>7 DEF Starts

\* finalize() starts one that holds an open bill's free lock.
LEMMA FinalizeLockStarts ==
  ASSUME IInv, NEW t \in Txns, NEW o \in Orders, FinalizeLock(t, o)
  PROVE  Starts(t)
<1> DEFINE q == Request("finalize", o)
           r == [q EXCEPT !.locked = TRUE, !.subtotal = computeSubtotal(o)]
<1>2. q \in RequestRow /\ q.op = "finalize" /\ q.o = o /\ ~q.locked
  BY RequestType DEF Handlers, Reductions
<1>3. computeSubtotal(o) \in Minor
  BY DEF FinalizeLock
<1>5. r \in RequestRow /\ r.op = "finalize" /\ r.o = o /\ r.locked
  <2> HIDE DEF q
  <2> QED
    BY <1>2, <1>3 DEF RequestRow
<1>6. Begin(t, r) /\ UNCHANGED tables
  BY DEF FinalizeLock
<1> HIDE DEF q, r
<1>7. Sound(r)
  BY <1>5 DEF Sound, Reductions, FinalizeLock
<1> QED
  BY <1>5, <1>6, <1>7 DEF Starts

\* createIntent() starts one that holds an open bill's free lock.
LEMMA CreateIntentLockStarts ==
  ASSUME IInv, NEW t \in Txns, NEW o \in Orders, CreateIntentLock(t, o)
  PROVE  Starts(t)
<1> DEFINE q == Request("createIntent", o)
           r == [q EXCEPT !.locked = TRUE,
                      !.subtotal = computeSubtotal(o), !.n = Tendered(o)]
<1>2. q \in RequestRow /\ q.op = "createIntent" /\ q.o = o /\ ~q.locked
  BY RequestType DEF Handlers, Reductions
<1>3. computeSubtotal(o) \in Minor
  BY DEF CreateIntentLock
<1>4. Tendered(o) \in Nat
  BY TenderedNat DEF IInv
<1>5. r \in RequestRow /\ r.op = "createIntent" /\ r.o = o /\ r.locked
  <2> HIDE DEF q
  <2> QED
    BY <1>2, <1>3, <1>4 DEF RequestRow
<1>6. Begin(t, r) /\ UNCHANGED tables
  BY DEF CreateIntentLock
<1> HIDE DEF q, r
<1>7. Sound(r)
  BY <1>5 DEF Sound, Reductions, CreateIntentLock
<1> QED
  BY <1>5, <1>6, <1>7 DEF Starts

\* confirmIntent() starts one that holds the lock and knows the bill's status.
LEMMA ConfirmLockStarts ==
  ASSUME IInv, NEW t \in Txns, NEW i \in Intents, ConfirmLock(t, i)
  PROVE  Starts(t)
<1> DEFINE q == Request("confirm", intent[i].o)
           r == [q EXCEPT !.ref = i, !.locked = TRUE,
                      !.saw = bill[intent[i].o].status = "finalized"]
<1>1. intent[i].o \in Orders /\ bill[intent[i].o].status \in {"open", "finalized"}
  BY DEF IInv, TypeOK, TxnInv, ConfirmLock, Capturable, BillRow
<1>2. q \in RequestRow /\ q.op = "confirm" /\ q.o = intent[i].o /\ ~q.locked
  BY <1>1, RequestType DEF Handlers, Reductions
<1>5. r \in RequestRow /\ r.op = "confirm" /\ r.o = intent[i].o /\ r.ref = i /\ (r.saw <=> bill[intent[i].o].status = "finalized") /\ r.locked
  <2> HIDE DEF q
  <2> QED
    BY <1>2 DEF RequestRow
<1>6. Begin(t, r) /\ UNCHANGED tables
  BY DEF ConfirmLock
<1> HIDE DEF q, r
<1>7. Sound(r)
  BY <1>5, <1>1 DEF Sound, ConfirmLock, Finalized, Reductions
<1> QED
  BY <1>5, <1>6, <1>7 DEF Starts

\* Starting a sound request preserves the invariant.
LEMMA StartsInv ==
  ASSUME IInv, NEW t \in Txns, Starts(t)
  PROVE  IInv'
<1>1. PICK r \in RequestRow : Sound(r) /\ Begin(t, r)
  BY DEF Starts
<1>2. UNCHANGED tables
  BY DEF Starts
<1>3. txn' \in [Txns -> RequestRow] /\ txn'[t] = r /\ \A u \in Txns \ {t} : txn'[u] = txn[u]
  BY <1>1 DEF IInv, TypeOK, Begin
<1>4. TypeOK'
  BY <1>1, <1>2, <1>3 DEF IInv, TypeOK, tables, Sound
<1>5. TxnInv'
  BY <1>1, <1>2, <1>3 DEF IInv, TxnInv, tables, Sound, Finalized
<1>6. LockInv'
  <2>1. ASSUME NEW u \in Txns, NEW v \in Txns \ {u}, txn'[u].locked, txn'[v].locked
        PROVE  txn'[u].o # txn'[v].o
    BY <2>1, <1>1, <1>3 DEF IInv, LockInv, Sound, LockFree
  <2>2. ASSUME NEW u \in Txns, WorksOnOpenBill(u)' PROVE txn'[u].locked /\ bill'[txn'[u].o].status = "open"
    BY <2>2, <1>1, <1>2, <1>3 DEF IInv, LockInv, Sound, WorksOnOpenBill, tables
  <2> QED
    BY <2>1, <2>2 DEF LockInv
<1>7. TenderInv' /\ UniqueBillNumbers'
  BY <1>2 DEF IInv, TenderInv, UniqueBillNumbers, Finalized, Tendered, tables
<1> QED
  BY <1>4, <1>5, <1>6, <1>7 DEF IInv
-----------------------------------------------------------------------------
(* Write steps. *)

\* A step that only ends requests, pays on open bills, and leaves every bill's
\* status and number and every intent's order alone, preserves the invariant.
LEMMA KeepsInv ==
  ASSUME IInv, TypeOK',
         \A u \in Txns : txn'[u] = txn[u] \/ txn'[u] = Idle,
         \A o \in Orders : bill'[o].status = bill[o].status /\ bill'[o].number = bill[o].number,
         \A o \in Orders : bill[o].status = "none" => tender'[o] = tender[o],
         lastNumber' = lastNumber,
         \A i \in Intents : intent[i].st # "none" => intent'[i].o = intent[i].o,
         \A i \in Intents :
           /\ intent'[i].st # "none" <=> intent'[i].o \in Orders
           /\ intent'[i].o \in Orders => bill[intent'[i].o].status # "none"
           /\ intent'[i].late => intent'[i].st = "succeeded" /\ Finalized(intent'[i].o)
  PROVE  IInv'
<1>1. TxnInv'
  <2>1. ASSUME NEW u \in Txns
        PROVE  /\ txn'[u].op # "none" => txn'[u].o \in Orders
               /\ txn'[u].op \in Reductions \cup {"addLine"} => txn'[u].ref \in Lines
    BY <2>1, IdleType DEF IInv, TxnInv, Reductions
  <2>2. ASSUME NEW u \in Txns, txn'[u].op = "confirm"
        PROVE  /\ txn'[u].ref \in Intents
               /\ intent'[txn'[u].ref].o = txn'[u].o
               /\ txn'[u].saw => bill'[txn'[u].o].status = "finalized"
    BY <2>2, IdleType DEF IInv, TxnInv, Finalized
  <2>3. ASSUME NEW i \in Intents
        PROVE  /\ intent'[i].o \in Orders => bill'[intent'[i].o].status # "none"
               /\ intent'[i].late => bill'[intent'[i].o].status = "finalized"
    <3>1. intent'[i].late => intent'[i].o \in Orders
      OBVIOUS
    <3> QED
      BY <2>3, <3>1 DEF Finalized
  <2> QED
    BY <2>1, <2>2, <2>3 DEF TxnInv, Finalized
<1>2. LockInv'
  <2>1. ASSUME NEW u \in Txns, NEW v \in Txns \ {u}, txn'[u].locked, txn'[v].locked
        PROVE  txn'[v].o # txn'[u].o
    BY <2>1, IdleType DEF IInv, LockInv
  <2>2. ASSUME NEW u \in Txns, WorksOnOpenBill(u)' PROVE txn'[u].locked /\ bill'[txn'[u].o].status = "open"
    BY <2>2, IdleType DEF IInv, LockInv, WorksOnOpenBill, TxnInv
  <2> QED
    BY <2>1, <2>2 DEF LockInv
<1>3. TenderInv'
  BY DEF IInv, TenderInv, Tendered
<1>4. UniqueBillNumbers'
  BY DEF IInv, UniqueBillNumbers, Finalized
<1> QED
  BY <1>1, <1>2, <1>3, <1>4 DEF IInv

\* The same, when the bills, the tenders, the intents and the counter are not touched.
LEMMA EndInv ==
  ASSUME IInv, TypeOK', NEW t \in Txns, End(t), UNCHANGED <<bill, tender, intent, lastNumber>>
  PROVE  IInv'
<1>1. \A u \in Txns : txn'[u] = txn[u] \/ txn'[u] = Idle
  BY DEF IInv, TypeOK, End
<1> QED
  BY <1>1, KeepsInv DEF IInv, TxnInv

\* A step on one intent that is neither created nor moved to another bill.
LEMMA IntentInv ==
  ASSUME IInv, TypeOK', UNCHANGED <<txn, bill, tender, lastNumber>>,
         \A i \in Intents : /\ intent'[i].o = intent[i].o
                            /\ intent'[i].st = "none" <=> intent[i].st = "none"
                            /\ intent'[i].late => intent[i].late /\ intent'[i].st = intent[i].st
  PROVE  IInv'
  BY KeepsInv DEF IInv, TxnInv

\* Giving up a request writes nothing.
LEMMA AbortInv == ASSUME IInv, NEW t \in Txns, Abort(t) PROVE IInv'
<1>1. TypeOK'
  BY EndType DEF IInv, TypeOK, Abort, tables
<1> QED
  BY <1>1, EndInv DEF Abort, tables

\* Adding a line writes no money.
LEMMA AddLineWriteInv ==
  ASSUME IInv, NEW t \in Txns, NEW q \in 1..MaxQty, AddLineWrite(t, q)
  PROVE  IInv'
<1>1. End(t)
  BY DEF AddLineWrite
<1> DEFINE row == [st |-> "live", qty |-> q, fired |-> FALSE]
<1>4. row \in LineRow
  BY Bounds DEF LineRow
<1>2. line' \in [Lines -> LineRow]
  <2>1. line' = [line EXCEPT ![txn[t].ref] = row]
    BY DEF AddLineWrite
  <2> HIDE DEF row
  <2> QED
    BY <2>1, <1>4 DEF IInv, TypeOK
<1>3. TypeOK'
  BY <1>1, <1>2, EndType DEF IInv, TypeOK, AddLineWrite
<1> QED
  BY <1>1, <1>3, EndInv DEF AddLineWrite

\* Changing a line's quantity writes no money.
LEMMA UpdateLineWriteInv == ASSUME IInv, NEW t \in Txns, UpdateLineWrite(t) PROVE IInv'
<1>1. End(t)
  BY DEF UpdateLineWrite
<1>2. line' \in [Lines -> LineRow]
  BY DEF IInv, TypeOK, UpdateLineWrite, Running, LineRow
<1>3. TypeOK'
  BY <1>1, <1>2, EndType DEF IInv, TypeOK, UpdateLineWrite
<1> QED
  BY <1>1, <1>3, EndInv DEF UpdateLineWrite

\* So does removing one ...
LEMMA RemoveLineWriteInv == ASSUME IInv, NEW t \in Txns, RemoveLineWrite(t) PROVE IInv'
<1>1. End(t)
  BY DEF RemoveLineWrite
<1>2. line' \in [Lines -> LineRow]
  BY ZenonT(60) DEF IInv, TypeOK, RemoveLineWrite, LineRow
<1>3. TypeOK'
  BY <1>1, <1>2, EndType DEF IInv, TypeOK, RemoveLineWrite
<1> QED
  BY <1>1, <1>3, EndInv DEF RemoveLineWrite

\* ... and voiding one.
LEMMA VoidLineWriteInv == ASSUME IInv, NEW t \in Txns, VoidLineWrite(t) PROVE IInv'
<1>1. End(t)
  BY DEF VoidLineWrite
<1>2. line' \in [Lines -> LineRow]
  BY DEF IInv, TypeOK, VoidLineWrite, LineRow
<1>3. TypeOK'
  BY <1>1, <1>2, EndType DEF IInv, TypeOK, VoidLineWrite
<1> QED
  BY <1>1, <1>3, EndInv DEF VoidLineWrite

\* Sending an order fires its lines and writes no money.
LEMMA SendWriteInv == ASSUME IInv, NEW t \in Txns, SendWrite(t) PROVE IInv'
<1>1. End(t)
  BY DEF SendWrite
<1>2. line' \in [Lines -> LineRow] /\ order' \in [Orders -> OrderStatus]
  BY DEF IInv, TypeOK, SendWrite, LineRow, fireOnSend, OrderStatus
<1>3. TypeOK'
  BY <1>1, <1>2, EndType DEF IInv, TypeOK, SendWrite
<1> QED
  BY <1>1, <1>3, EndInv DEF SendWrite

\* Passing the payment check may take the lock of a bill, which is free.
LEMMA CheckInv == ASSUME IInv, NEW t \in Txns, assertBillHasNoPayments(t) PROVE IInv'
<1>1. PICK r \in RequestRow :
        /\ txn' = [txn EXCEPT ![t] = r]
        /\ r.op = txn[t].op /\ r.n = txn[t].n /\ r.o = txn[t].o /\ r.ref = txn[t].ref
        /\ r.locked => txn[t].locked \/ LockFree(txn[t].o)
  <2> DEFINE r1 == [txn[t] EXCEPT !.stage = "write"]
             r2 == [txn[t] EXCEPT !.stage = "write", !.locked = TRUE, !.saw = TRUE]
  <2>1. /\ r1 \in RequestRow /\ r1.locked = txn[t].locked
        /\ r1.op = txn[t].op /\ r1.n = txn[t].n /\ r1.o = txn[t].o /\ r1.ref = txn[t].ref
    BY DEF IInv, TypeOK, RequestRow
  <2>2. /\ r2 \in RequestRow
        /\ r2.op = txn[t].op /\ r2.n = txn[t].n /\ r2.o = txn[t].o /\ r2.ref = txn[t].ref
    BY DEF IInv, TypeOK, RequestRow
  <2>3. \/ txn' = [txn EXCEPT ![t] = r1]
        \/ txn' = [txn EXCEPT ![t] = r2] /\ LockFree(txn[t].o)
    BY DEF assertBillHasNoPayments
  <2> HIDE DEF r1, r2
  <2> QED
    BY <2>1, <2>2, <2>3
<1>2. txn' \in [Txns -> RequestRow]
  BY <1>1 DEF IInv, TypeOK
<1>3. \A u \in Txns : /\ txn'[u].op = txn[u].op /\ txn'[u].n = txn[u].n
                      /\ txn'[u].o = txn[u].o /\ txn'[u].ref = txn[u].ref
  BY <1>1 DEF IInv, TypeOK
<1>4. \A u \in Txns \ {t} : txn'[u] = txn[u]
  BY <1>1 DEF IInv, TypeOK
<1>5. txn[t].op \in Reductions /\ UNCHANGED tables
  BY DEF assertBillHasNoPayments
<1>6. txn'[t].locked => txn[t].locked \/ LockFree(txn[t].o)
  BY <1>1 DEF IInv, TypeOK
<1>7. TypeOK'
  BY <1>2, <1>3, <1>5 DEF IInv, TypeOK, tables
<1>8. TxnInv'
  BY <1>3, <1>4, <1>5 DEF IInv, TxnInv, tables, Finalized, Reductions
<1>9. LockInv'
  <2>1. ASSUME NEW u \in Txns, NEW v \in Txns \ {u}, txn'[u].locked, txn'[v].locked
        PROVE  txn'[u].o # txn'[v].o
    BY <2>1, <1>3, <1>4, <1>6 DEF IInv, LockInv, LockFree
  <2>2. ASSUME NEW u \in Txns, WorksOnOpenBill(u)' PROVE txn'[u].locked /\ bill'[txn'[u].o].status = "open"
    BY <2>2, <1>3, <1>4, <1>5 DEF IInv, LockInv, WorksOnOpenBill, tables, Reductions
  <2> QED
    BY <2>1, <2>2 DEF LockInv
<1>10. TenderInv' /\ UniqueBillNumbers'
  BY <1>5 DEF IInv, TenderInv, UniqueBillNumbers, Finalized, Tendered, tables
<1> QED
  BY <1>7, <1>8, <1>9, <1>10 DEF IInv

\* discard() deletes a bill only when no tender and no intent names it.
LEMMA DiscardWriteInv == ASSUME IInv, NEW t \in Txns, DiscardWrite(t) PROVE IInv'
<1> DEFINE o == txn[t].o
<1>1. End(t) /\ UNCHANGED <<line, tender, intent, lastNumber, simulator, tenantStatus>>
  BY DEF DiscardWrite
<1>2. NoBill \in BillRow /\ NoBill.status = "none" /\ NoBill.number = 0
  BY Bounds DEF NoBill, BillRow, Minor
<1>3. bill' \in [Orders -> BillRow] /\ order' \in [Orders -> OrderStatus]
  BY <1>2 DEF IInv, TypeOK, DiscardWrite, OrderStatus
<1>4. TypeOK'
  BY <1>1, <1>3, EndType DEF IInv, TypeOK
<1>5. CASE UNCHANGED bill
  BY <1>1, <1>4, <1>5, EndInv
<1>6. CASE bill' # bill
  <2>1. /\ bill' = [bill EXCEPT ![o] = NoBill]
        /\ LockFree(o) /\ Tendered(o) = 0 /\ \A i \in Intents : intent[i].o # o
    BY <1>6 DEF DiscardWrite
  <2>2. \A p \in Orders : p # o => bill'[p] = bill[p]
    BY <2>1 DEF IInv, TypeOK
  <2>3. \A u \in Txns : txn'[u] = txn[u] \/ txn'[u] = Idle
    BY <1>1 DEF IInv, TypeOK, End
  <2>4. o \in Orders => bill'[o].status = "none" /\ bill'[o].number = 0
    BY <1>2, <2>1 DEF IInv, TypeOK
  <2> HIDE DEF o
  <2>5. TxnInv'
    <3>1. ASSUME NEW u \in Txns
          PROVE  /\ txn'[u].op # "none" => txn'[u].o \in Orders
                 /\ txn'[u].op \in Reductions \cup {"addLine"} => txn'[u].ref \in Lines
      BY <2>3, IdleType DEF IInv, TxnInv, Reductions
    <3>2. ASSUME NEW u \in Txns, txn'[u].op = "confirm"
          PROVE  /\ txn'[u].ref \in Intents
                 /\ intent'[txn'[u].ref].o = txn'[u].o
                 /\ txn'[u].saw => bill'[txn'[u].o].status = "finalized"
      BY <1>1, <2>1, <2>2, <2>3, <3>1, <3>2, IdleType DEF IInv, TxnInv, Finalized
    <3>3. ASSUME NEW i \in Intents
          PROVE  /\ intent'[i].st # "none" <=> intent'[i].o \in Orders
                 /\ intent'[i].o \in Orders => bill'[intent'[i].o].status # "none"
                 /\ intent'[i].late => intent'[i].st = "succeeded" /\ bill'[intent'[i].o].status = "finalized"
      BY <1>1, <2>1, <2>2 DEF IInv, TxnInv, Finalized
    <3> QED
      BY <3>1, <3>2, <3>3 DEF TxnInv, Finalized
  <2>6. LockInv'
    <3>1. ASSUME NEW u \in Txns, NEW v \in Txns \ {u}, txn'[u].locked, txn'[v].locked
          PROVE  txn'[v].o # txn'[u].o
      BY <3>1, <2>3, IdleType DEF IInv, LockInv
    <3>2. ASSUME NEW u \in Txns, WorksOnOpenBill(u)'
          PROVE  txn'[u].locked /\ bill'[txn'[u].o].status = "open"
      <4>1. txn'[u] = txn[u] /\ WorksOnOpenBill(u) /\ txn[u].locked /\ txn[u].o \in Orders
        BY <3>2, <2>3, IdleType DEF IInv, LockInv, TxnInv, WorksOnOpenBill
      <4>2. txn[u].o # o
        BY <4>1, <2>1 DEF LockFree
      <4> QED
        BY <4>1, <4>2, <2>2 DEF IInv, LockInv
    <3> QED
      BY <3>1, <3>2 DEF LockInv
  <2>7. TenderInv'
    BY <1>1, <2>1, <2>2, <2>4 DEF IInv, TenderInv, Tendered
  <2>8. UniqueBillNumbers'
    BY <1>1, <2>2, <2>4 DEF IInv, UniqueBillNumbers, Finalized
  <2> QED
    BY <1>4, <2>5, <2>6, <2>7, <2>8 DEF IInv
<1> QED
  BY <1>5, <1>6

\* createBill() opens a bill where there is none, or leaves the winner's alone.
LEMMA CreateBillWriteInv == ASSUME IInv, NEW t \in Txns, CreateBillWrite(t) PROVE IInv'
<1> DEFINE o == txn[t].o
           tax == computeTaxOn(txn[t].subtotal)
           row == [NoBill EXCEPT !.status = "open", !.subtotal = txn[t].subtotal, !.tax = tax]
<1>1. End(t) /\ UNCHANGED <<order, line, tender, intent, lastNumber, simulator, tenantStatus>>
  BY DEF CreateBillWrite
<1>2. o \in Orders
  BY OnOrder DEF CreateBillWrite, Running
<1>3. UNCHANGED bill \/ (bill[o].status = "none" /\ tax \in Minor /\ bill' = [bill EXCEPT ![o] = row])
  BY DEF CreateBillWrite
<1>4. tax \in Minor => row \in BillRow /\ row.status = "open"
  <2>1. txn[t].subtotal \in Minor
    BY RequestFields DEF IInv, TypeOK
  <2>2. NoBill \in BillRow
    BY Bounds DEF NoBill, BillRow, Minor
  <2> HIDE DEF tax
  <2> QED
    BY <2>1, <2>2 DEF BillRow
<1> HIDE DEF row, tax, o
<1>5. TypeOK'
  BY <1>1, <1>3, <1>4, EndType DEF IInv, TypeOK
<1>6. CASE UNCHANGED bill
  BY <1>1, <1>5, <1>6, EndInv
<1>7. CASE bill' # bill
  <2>1. bill[o].status = "none" /\ bill'[o].status = "open" /\ \A p \in Orders : p # o => bill'[p] = bill[p]
    BY <1>2, <1>3, <1>4, <1>7 DEF IInv, TypeOK
  <2>2. \A u \in Txns : txn'[u] = txn[u] \/ txn'[u] = Idle
    BY <1>1 DEF IInv, TypeOK, End
  <2>3. TxnInv'
    <3>1. ASSUME NEW u \in Txns
          PROVE  /\ txn'[u].op # "none" => txn'[u].o \in Orders
                 /\ txn'[u].op \in Reductions \cup {"addLine"} => txn'[u].ref \in Lines
      BY <2>2, IdleType DEF IInv, TxnInv, Reductions
    <3>2. ASSUME NEW u \in Txns, txn'[u].op = "confirm"
          PROVE  /\ txn'[u].ref \in Intents
                 /\ intent'[txn'[u].ref].o = txn'[u].o
                 /\ txn'[u].saw => bill'[txn'[u].o].status = "finalized"
      BY <1>1, <2>1, <2>2, <3>1, <3>2, IdleType DEF IInv, TxnInv, Finalized
    <3>3. ASSUME NEW i \in Intents
          PROVE  /\ intent'[i].st # "none" <=> intent'[i].o \in Orders
                 /\ intent'[i].o \in Orders => bill'[intent'[i].o].status # "none"
                 /\ intent'[i].late => intent'[i].st = "succeeded" /\ bill'[intent'[i].o].status = "finalized"
      BY <1>1, <2>1 DEF IInv, TxnInv, Finalized
    <3> QED
      BY <3>1, <3>2, <3>3 DEF TxnInv, Finalized
  <2>4. LockInv'
    <3>1. ASSUME NEW u \in Txns, NEW v \in Txns \ {u}, txn'[u].locked, txn'[v].locked
          PROVE  txn'[v].o # txn'[u].o
      BY <3>1, <2>2, IdleType DEF IInv, LockInv
    <3>2. ASSUME NEW u \in Txns, WorksOnOpenBill(u)'
          PROVE  txn'[u].locked /\ bill'[txn'[u].o].status = "open"
      <4>1. txn'[u] = txn[u] /\ WorksOnOpenBill(u) /\ txn[u].locked /\ txn[u].o \in Orders
        BY <3>2, <2>2, IdleType DEF IInv, LockInv, TxnInv, WorksOnOpenBill
      <4> QED
        BY <4>1, <2>1 DEF IInv, LockInv
    <3> QED
      BY <3>1, <3>2 DEF LockInv
  <2>5. TenderInv'
    BY <1>1, <2>1 DEF IInv, TenderInv, Tendered
  <2>6. UniqueBillNumbers'
    BY <1>1, <2>1 DEF IInv, UniqueBillNumbers, Finalized
  <2> QED
    BY <1>5, <2>3, <2>4, <2>5, <2>6 DEF IInv
<1> QED
  BY <1>6, <1>7

\* A refresh, locked or not, moves the totals and never the status or number.
LEMMA RefreshWriteInv == ASSUME IInv, NEW t \in Txns, RefreshWrite(t) PROVE IInv'
<1> DEFINE o == txn[t].o
           tax == computeTaxOn(txn[t].subtotal)
<1>1. End(t) /\ UNCHANGED <<order, line, tender, intent, lastNumber, simulator, tenantStatus>>
  BY DEF RefreshWrite
<1>2. txn[t].subtotal \in Minor /\ tax \in Minor
  BY RequestFields DEF IInv, TypeOK, RefreshWrite
<1>3. bill' = [bill EXCEPT ![o] = [@ EXCEPT !.subtotal = txn[t].subtotal, !.tax = tax]]
  BY DEF RefreshWrite
<1> HIDE DEF tax, o
<1>4. bill' \in [Orders -> BillRow]
  BY <1>2, <1>3, BillTotalsType DEF IInv
<1>5. TypeOK'
  BY <1>1, <1>4, EndType DEF IInv, TypeOK
<1>6. \A p \in Orders : bill'[p].status = bill[p].status /\ bill'[p].number = bill[p].number
  BY <1>3 DEF IInv, TypeOK, BillRow
<1>7. \A u \in Txns : txn'[u] = txn[u] \/ txn'[u] = Idle
  BY <1>1 DEF IInv, TypeOK, End
<1> QED
  BY <1>1, <1>5, <1>6, <1>7, KeepsInv DEF IInv, TxnInv

\* What a finalize writes: a tender row, a bill row with the next number.
LEMMA FinalizeRows ==
  ASSUME IInv, NEW t \in Txns, NEW pay \in Payments, NEW d \in Discounts, FinalizeCommit(t, pay, d)
  PROVE  /\ txn[t].o \in Orders /\ txn[t].locked /\ bill[txn[t].o].status = "open"
         /\ \E paid \in TenderRow :
              /\ paid.cash >= tender[txn[t].o].cash
              /\ paid.other >= tender[txn[t].o].other
              /\ paid.sim = tender[txn[t].o].sim
              /\ tender' = [tender EXCEPT ![txn[t].o] = paid]
         /\ \E row \in BillRow :
              /\ row.status = "finalized" /\ row.number = lastNumber + 1
              /\ bill' = [bill EXCEPT ![txn[t].o] = row]
<1> DEFINE o == txn[t].o
           subtotal == txn[t].subtotal
           tax == computeTaxOn(subtotal - d)
           total == Total(subtotal, tax, d)
           paid == [tender[o] EXCEPT !.cash = @ + pay[1], !.other = @ + pay[2]]
           row == [status |-> "finalized", subtotal |-> subtotal, tax |-> tax,
                   discount |-> d, roundOff |-> RoundOff(total, paid),
                   number |-> lastNumber + 1]
<1>1. o \in Orders /\ bill[o].status = "open" /\ txn[t].locked
  <2>1. txn[t].op = "finalize"
    BY DEF FinalizeCommit, Running
  <2> QED
    BY <2>1, OnOrder DEF IInv, LockInv, WorksOnOpenBill
<1>2. tax \in Minor /\ d <= subtotal /\ paid.cash \in Minor /\ paid.other \in Minor
  BY DEF FinalizeCommit, NextBillNumber
<1>3. tender' = [tender EXCEPT ![o] = paid] /\ bill' = [bill EXCEPT ![o] = row]
  BY DEF FinalizeCommit, NextBillNumber
<1>4. subtotal \in Minor
  BY RequestFields DEF IInv, TypeOK
<1>5. d \in Minor
  <2>1. d \in Nat
    BY BillSettlementAssumption
  <2> HIDE DEF subtotal
  <2> QED
    BY <2>1, <1>2, <1>4, Bounds DEF Minor
<1>6. pay[1] \in Nat /\ pay[2] \in Nat
  BY BillSettlementAssumption
<1>7. tender[o] \in TenderRow
  BY <1>1 DEF IInv, TypeOK
<1>8. paid \in TenderRow /\ paid.cash = tender[o].cash + pay[1]
        /\ paid.other = tender[o].other + pay[2] /\ paid.sim = tender[o].sim
  <2> HIDE DEF o
  <2> QED
    BY <1>2, <1>7 DEF TenderRow
<1>9. RoundOff(total, paid) \in Int
  <2>1. total \in Int
    <3> HIDE DEF subtotal, tax
    <3> QED
      BY <1>2, <1>4, <1>5, TotalInt, Bounds DEF Minor
  <2> HIDE DEF total, paid
  <2> QED
    BY <2>1, <1>8, RoundOffInt
<1>10. row \in BillRow /\ row.status = "finalized" /\ row.number = lastNumber + 1
  <2> HIDE DEF subtotal, tax, total, paid
  <2>1. lastNumber + 1 \in Nat
    BY DEF IInv, TypeOK
  <2> QED
    BY <1>2, <1>4, <1>5, <1>9, <2>1 DEF BillRow
<1>11. paid.cash >= tender[o].cash /\ paid.other >= tender[o].other
  <2> HIDE DEF paid, o
  <2> QED
    BY <1>6, <1>7, <1>8, TenderFields
<1> HIDE DEF paid, row
<1> QED
  BY <1>1, <1>3, <1>8, <1>10, <1>11

\* finalize() settles an open bill it has locked and gives it the next number.
LEMMA FinalizeCommitInv ==
  ASSUME IInv, NEW t \in Txns, NEW pay \in Payments, NEW d \in Discounts, FinalizeCommit(t, pay, d)
  PROVE  IInv'
<1> DEFINE o == txn[t].o
<1>1. End(t) /\ UNCHANGED <<intent, simulator>> /\ lastNumber' = lastNumber + 1 /\ tenantStatus' = "active"
  BY DEF FinalizeCommit, NextBillNumber
<1>2. o \in Orders /\ txn[t].locked /\ bill[o].status = "open"
  BY FinalizeRows
<1>3. /\ tender' \in [Orders -> TenderRow] /\ bill' \in [Orders -> BillRow]
      /\ \A p \in Orders : p # o => bill'[p] = bill[p] /\ tender'[p] = tender[p]
      /\ bill'[o].status = "finalized" /\ bill'[o].number = lastNumber + 1
  BY <1>2, FinalizeRows DEF IInv, TypeOK
<1>4. line' \in [Lines -> LineRow] /\ order' \in [Orders -> OrderStatus]
  BY DEF IInv, TypeOK, FinalizeCommit, LineRow, fireOnSend, OrderStatus
<1>5. TypeOK'
  BY <1>1, <1>3, <1>4, EndType DEF IInv, TypeOK
<1>6. \A u \in Txns : txn'[u] = IF u = t THEN Idle ELSE txn[u]
  BY <1>1 DEF IInv, TypeOK, End
<1>7. \A u \in Txns \ {t} : txn[u].locked => txn[u].o # o
  BY <1>2 DEF IInv, LockInv
<1> HIDE DEF o
<1>8. TxnInv'
  <2>1. ASSUME NEW u \in Txns
        PROVE  /\ txn'[u].op # "none" => txn'[u].o \in Orders
               /\ txn'[u].op \in Reductions \cup {"addLine"} => txn'[u].ref \in Lines
    BY <1>6, IdleType DEF IInv, TxnInv, Reductions
  <2>2. ASSUME NEW u \in Txns, txn'[u].op = "confirm"
        PROVE  /\ txn'[u].ref \in Intents
               /\ intent'[txn'[u].ref].o = txn'[u].o
               /\ txn'[u].saw => bill'[txn'[u].o].status = "finalized"
    BY <1>1, <1>3, <1>6, <2>1, <2>2, IdleType DEF IInv, TxnInv, Finalized
  <2>3. ASSUME NEW i \in Intents
        PROVE  /\ intent'[i].st # "none" <=> intent'[i].o \in Orders
               /\ intent'[i].o \in Orders => bill'[intent'[i].o].status # "none"
               /\ intent'[i].late => intent'[i].st = "succeeded" /\ bill'[intent'[i].o].status = "finalized"
    BY <1>1, <1>3 DEF IInv, TxnInv, Finalized
  <2> QED
    BY <2>1, <2>2, <2>3 DEF TxnInv, Finalized
<1>9. LockInv'
  <2>1. ASSUME NEW u \in Txns, NEW v \in Txns \ {u}, txn'[u].locked, txn'[v].locked
        PROVE  txn'[v].o # txn'[u].o
    BY <2>1, <1>6, IdleType DEF IInv, LockInv
  <2>2. ASSUME NEW u \in Txns, WorksOnOpenBill(u)'
        PROVE  txn'[u].locked /\ bill'[txn'[u].o].status = "open"
    <3>1. txn'[u] = txn[u] /\ u # t /\ WorksOnOpenBill(u) /\ txn[u].locked /\ txn[u].o \in Orders
      BY <2>2, <1>6, IdleType DEF IInv, LockInv, TxnInv, WorksOnOpenBill
    <3> QED
      BY <3>1, <1>3, <1>7 DEF IInv, LockInv
  <2> QED
    BY <2>1, <2>2 DEF LockInv
<1>10. TenderInv'
  BY <1>2, <1>3 DEF IInv, TenderInv, Tendered
<1>11. UniqueBillNumbers'
  BY <1>1, <1>2, <1>3 DEF IInv, UniqueBillNumbers, Finalized, TypeOK
<1> QED
  BY <1>5, <1>8, <1>9, <1>10, <1>11 DEF IInv

\* createIntent() adds a pending intent to the open bill it has locked.
LEMMA CreateIntentCommitInv ==
  ASSUME IInv, NEW t \in Txns, NEW i \in Intents, NEW amt \in Charges, CreateIntentCommit(t, i, amt)
  PROVE  IInv'
<1> DEFINE o == txn[t].o
           tax == computeTaxOn(txn[t].subtotal)
           row == [st |-> "pending", o |-> o, amt |-> amt, due |-> FALSE, late |-> FALSE]
<1>1. End(t) /\ UNCHANGED <<order, line, tender, lastNumber, simulator, tenantStatus>>
  BY DEF CreateIntentCommit
<1>2. txn[t].subtotal \in Minor /\ tax \in Minor /\ amt \in Minor
  BY RequestFields DEF IInv, TypeOK, CreateIntentCommit
<1>3. bill' = [bill EXCEPT ![o] = [@ EXCEPT !.subtotal = txn[t].subtotal, !.tax = tax]]
  BY DEF CreateIntentCommit
<1>4. intent' = [ExpireDue(o) EXCEPT ![i] = row]
  BY DEF CreateIntentCommit
<1>5. o \in Orders /\ bill[o].status = "open"
  <2>1. txn[t].op = "createIntent"
    BY DEF CreateIntentCommit, Running
  <2> QED
    BY <2>1, OnOrder DEF IInv, LockInv, WorksOnOpenBill
<1> HIDE DEF tax, o
<1>6. bill' \in [Orders -> BillRow]
  BY <1>2, <1>3, BillTotalsType DEF IInv
<1>7. /\ ExpireDue(o) \in [Intents -> IntentRow]
      /\ \A j \in Intents :
           /\ ExpireDue(o)[j].o = intent[j].o /\ ExpireDue(o)[j].late = intent[j].late
           /\ \/ ExpireDue(o)[j].st = intent[j].st
              \/ intent[j].st = "pending" /\ ExpireDue(o)[j].st = "expired"
  BY DEF IInv, TypeOK, ExpireDue, ActiveIntents, IntentRow, IntentStatus
<1>8. row \in IntentRow /\ row.st = "pending" /\ row.o = o /\ row.late = FALSE
  BY <1>2, <1>5 DEF IntentRow, IntentStatus
<1> HIDE DEF row
<1>9. intent' \in [Intents -> IntentRow] /\ intent'[i] = row
        /\ \A j \in Intents \ {i} : intent'[j] = ExpireDue(o)[j]
  BY <1>4, <1>7, <1>8
<1>10. TypeOK'
  BY <1>1, <1>6, <1>9, EndType DEF IInv, TypeOK
<1>11. \A p \in Orders : bill'[p].status = bill[p].status /\ bill'[p].number = bill[p].number
  BY <1>3 DEF IInv, TypeOK, BillRow
<1>12. \A u \in Txns : txn'[u] = txn[u] \/ txn'[u] = Idle
  BY <1>1 DEF IInv, TypeOK, End
<1>13. intent[i].st = "none"
  BY DEF CreateIntentCommit
<1>14. \A j \in Intents : intent[j].st # "none" => intent'[j].o = intent[j].o
  BY <1>7, <1>9, <1>13
<1>15. \A j \in Intents :
         /\ intent'[j].st # "none" <=> intent'[j].o \in Orders
         /\ intent'[j].o \in Orders => bill[intent'[j].o].status # "none"
         /\ intent'[j].late => intent'[j].st = "succeeded" /\ Finalized(intent'[j].o)
  <2>1. ASSUME NEW j \in Intents, j # i
        PROVE  /\ intent'[j].st # "none" <=> intent'[j].o \in Orders
               /\ intent'[j].o \in Orders => bill[intent'[j].o].status # "none"
               /\ intent'[j].late => intent'[j].st = "succeeded" /\ Finalized(intent'[j].o)
    BY <2>1, <1>7, <1>9 DEF IInv, TxnInv, Finalized
  <2> QED
    BY <2>1, <1>5, <1>8, <1>9
<1> QED
  BY <1>1, <1>10, <1>11, <1>12, <1>14, <1>15, KeepsInv

\* A capture flips an intent once and pays only on the open bill it has locked.
LEMMA ConfirmCommitInv == ASSUME IInv, NEW t \in Txns, ConfirmCommit(t) PROVE IInv'
<1> DEFINE i == txn[t].ref
           o == txn[t].o
<1>1. End(t) /\ UNCHANGED <<order, line, bill, lastNumber, simulator, tenantStatus>>
  BY DEF ConfirmCommit
<1>2. /\ i \in Intents /\ o \in Orders /\ intent[i].o = o
      /\ txn[t].saw => Finalized(o)
      /\ ~txn[t].saw => bill[o].status = "open"
  <2>1. txn[t].op = "confirm"
    BY DEF ConfirmCommit, Running
  <2> QED
    BY <2>1 DEF IInv, LockInv, TxnInv, WorksOnOpenBill
<1>3. Capturable(i)
  BY DEF ConfirmCommit
<1>4. ASSUME NEW r \in IntentRow
      PROVE  LET a == [r EXCEPT !.st = "succeeded"]
                 b == [r EXCEPT !.st = "succeeded", !.late = TRUE]
             IN  /\ a \in IntentRow /\ a.st = "succeeded" /\ a.o = r.o /\ a.late = r.late
                 /\ b \in IntentRow /\ b.st = "succeeded" /\ b.o = r.o /\ b.late = TRUE
  BY DEF IntentRow, IntentStatus
<1>5. PICK r \in IntentRow : /\ intent' = [intent EXCEPT ![i] = r]
                             /\ r.st = "succeeded" /\ r.o = intent[i].o
                             /\ r.late => intent[i].late \/ Finalized(o)
  <2> DEFINE a == [intent[i] EXCEPT !.st = "succeeded"]
             b == [intent[i] EXCEPT !.st = "succeeded", !.late = TRUE]
  <2>1. intent' = [intent EXCEPT ![i] = a] \/ (txn[t].saw /\ intent' = [intent EXCEPT ![i] = b])
    BY DEF ConfirmCommit
  <2>2. intent[i] \in IntentRow
    BY <1>2 DEF IInv, TypeOK
  <2>3. a \in IntentRow /\ a.st = "succeeded" /\ a.o = intent[i].o /\ a.late = intent[i].late
    BY <1>4, <2>2
  <2>4. b \in IntentRow /\ b.st = "succeeded" /\ b.o = intent[i].o
    BY <1>4, <2>2
  <2> HIDE DEF a, b
  <2> QED
    BY <2>1, <2>3, <2>4, <1>2
<1>6. /\ tender' \in [Orders -> TenderRow]
      /\ \A p \in Orders : bill[p].status = "none" => tender'[p] = tender[p]
  <2>1. CASE UNCHANGED tender
    BY <2>1 DEF IInv, TypeOK
  <2>2. CASE /\ ~txn[t].saw /\ tender[o].sim + intent[i].amt \in Minor
             /\ tender' = [tender EXCEPT ![o].sim = @ + intent[i].amt]
    <3> DEFINE s == tender[o].sim + intent[i].amt
               row == [tender[o] EXCEPT !.sim = s]
    <3>1. tender' = [tender EXCEPT ![o] = row] /\ s \in Minor
      BY <2>2
    <3>2. tender[o] \in TenderRow
      BY <1>2 DEF IInv, TypeOK
    <3>3. row \in TenderRow
      <4> HIDE DEF s, o
      <4> QED
        BY <3>1, <3>2 DEF TenderRow
    <3> HIDE DEF row
    <3> QED
      BY <1>2, <2>2, <3>1, <3>3 DEF IInv, TypeOK
  <2> QED
    BY <2>1, <2>2 DEF ConfirmCommit
<1> HIDE DEF i, o
<1>7. intent' \in [Intents -> IntentRow]
  BY <1>5 DEF IInv, TypeOK
<1>8. TypeOK'
  BY <1>1, <1>6, <1>7, EndType DEF IInv, TypeOK
<1>9. \A u \in Txns : txn'[u] = txn[u] \/ txn'[u] = Idle
  BY <1>1 DEF IInv, TypeOK, End
<1>10. \A j \in Intents :
         /\ intent'[j].o = intent[j].o
         /\ intent'[j].st = intent[j].st \/ (j = i /\ intent'[j].st = "succeeded")
         /\ intent'[j].late => (intent[j].late /\ j # i) \/ (j = i /\ (intent[j].late \/ Finalized(o)))
  BY <1>5 DEF IInv, TypeOK
<1>11. \A j \in Intents :
         /\ intent'[j].st # "none" <=> intent'[j].o \in Orders
         /\ intent'[j].o \in Orders => bill[intent'[j].o].status # "none"
         /\ intent'[j].late => intent'[j].st = "succeeded" /\ Finalized(intent'[j].o)
  <2>1. intent[i].st # "none"
    BY <1>3 DEF Capturable
  <2>2. \A j \in Intents : intent'[j].st # "none" <=> intent[j].st # "none"
    BY <1>10, <2>1
  <2>3. ASSUME NEW j \in Intents, intent'[j].late
        PROVE  intent'[j].st = "succeeded" /\ Finalized(intent'[j].o)
    BY <2>3, <1>2, <1>5, <1>10 DEF IInv, TxnInv, TypeOK, Finalized
  <2> QED
    BY <1>10, <2>2, <2>3 DEF IInv, TxnInv
<1> QED
  BY <1>1, <1>6, <1>8, <1>9, <1>10, <1>11, KeepsInv

\* The clock, lazy expiry, cancelling and declining move one pending intent.
LEMMA IntentEventInv == ASSUME IInv, NEW i \in Intents, IntentEvent(i) PROVE IInv'
<1>1. UNCHANGED <<order, line, bill, tender, lastNumber, simulator, tenantStatus, txn>>
  BY DEF IntentEvent, Timeout, expireIfDue, CancelIntent, DeclineIntent
<1>2. intent[i] \in IntentRow /\ intent[i].st = "pending"
  BY DEF IInv, TypeOK, IntentEvent, Timeout, expireIfDue, CancelIntent, DeclineIntent
<1>3. PICK r \in IntentRow : /\ intent' = [intent EXCEPT ![i] = r]
                             /\ r.st # "none" /\ r.o = intent[i].o /\ r.late = intent[i].late
  <2>1. CASE Timeout(i)
    <3> DEFINE r == [intent[i] EXCEPT !.due = TRUE]
    <3>1. r \in IntentRow /\ r.st # "none" /\ r.o = intent[i].o /\ r.late = intent[i].late
      BY <1>2 DEF IntentRow
    <3>2. intent' = [intent EXCEPT ![i] = r]
      BY <2>1 DEF Timeout
    <3> HIDE DEF r
    <3> QED
      BY <3>1, <3>2
  <2>2. CASE expireIfDue(i) \/ CancelIntent(i) \/ DeclineIntent(i)
    <3>1. PICK s \in {"expired", "cancelled", "failed"} : intent' = [intent EXCEPT ![i].st = s]
      BY <2>2 DEF expireIfDue, CancelIntent, DeclineIntent
    <3> DEFINE r == [intent[i] EXCEPT !.st = s]
    <3>2. r \in IntentRow /\ r.st # "none" /\ r.o = intent[i].o /\ r.late = intent[i].late
      BY <1>2 DEF IntentRow, IntentStatus
    <3>3. intent' = [intent EXCEPT ![i] = r]
      BY <3>1
    <3> HIDE DEF r
    <3> QED
      BY <3>2, <3>3
  <2> QED
    BY <2>1, <2>2 DEF IntentEvent
<1>4. intent' \in [Intents -> IntentRow]
  BY <1>3 DEF IInv, TypeOK
<1>5. TypeOK'
  BY <1>1, <1>4 DEF IInv, TypeOK
<1>6. \A j \in Intents : /\ intent'[j].o = intent[j].o
                         /\ intent'[j].st = "none" <=> intent[j].st = "none"
                         /\ intent'[j].late => intent[j].late /\ intent'[j].st = intent[j].st
  BY <1>2, <1>3 DEF IInv, TypeOK, TxnInv
<1> QED
  BY <1>1, <1>5, <1>6, IntentInv

\* Switching the simulator touches no row.
LEMMA SetSimulatorInv == ASSUME IInv, SetSimulator PROVE IInv'
<1>1. TypeOK'
  BY DEF IInv, TypeOK, SetSimulator
<1> QED
  BY <1>1, IntentInv DEF SetSimulator
-----------------------------------------------------------------------------
(* The invariant. *)

\* Init establishes the invariant.
LEMMA InitInv == Init => IInv
<1> SUFFICES ASSUME Init PROVE IInv
  OBVIOUS
<1>1. TypeOK
  BY BillSettlementAssumption, IdleType
  DEF Init, TypeOK, NoBill, OrderStatus, IntentStatus, LineRow, BillRow, TenderRow, IntentRow, Minor
<1>2. TxnInv
  BY BillSettlementAssumption, IdleType DEF Init, TxnInv, Reductions
<1>3. LockInv
  BY IdleType DEF Init, LockInv, WorksOnOpenBill
<1>4. TenderInv /\ UniqueBillNumbers
  BY DEF Init, TenderInv, Tendered, UniqueBillNumbers, Finalized, NoBill
<1> QED
  BY <1>1, <1>2, <1>3, <1>4 DEF IInv

\* Every step of every handler preserves it.
LEMMA StepInv == IInv /\ [Next]_vars => IInv'
<1> SUFFICES ASSUME IInv, [Next]_vars PROVE IInv'
  OBVIOUS
<1>1. ASSUME NEW t \in Txns, LineStep(t) PROVE IInv'
  BY <1>1, StartsInv, AddLineReadStarts, UpdateLineReadStarts, RemoveLineReadStarts, VoidLineReadStarts,
     AddLineWriteInv, UpdateLineWriteInv, RemoveLineWriteInv, VoidLineWriteInv, CheckInv
  DEF LineStep
<1>2. ASSUME NEW t \in Txns, OrderStep(t) PROVE IInv'
  BY <1>2, StartsInv, SendReadStarts, DiscardReadStarts, SendWriteInv, DiscardWriteInv DEF OrderStep
<1>3. ASSUME NEW t \in Txns, BillStep(t) PROVE IInv'
  BY <1>3, StartsInv, CreateBillReadStarts, RefreshReadStarts, FinalizeLockStarts,
     CreateBillWriteInv, RefreshWriteInv, FinalizeCommitInv
  DEF BillStep
<1>4. ASSUME NEW t \in Txns, IntentStep(t) PROVE IInv'
  BY <1>4, StartsInv, CreateIntentLockStarts, ConfirmLockStarts, CreateIntentCommitInv, ConfirmCommitInv
  DEF IntentStep
<1>5. CASE UNCHANGED vars
  BY <1>5 DEF IInv, vars, TypeOK, TxnInv, LockInv, WorksOnOpenBill, TenderInv, Tendered,
     UniqueBillNumbers, Finalized
<1> QED
  BY <1>1, <1>2, <1>3, <1>4, <1>5, AbortInv, IntentEventInv, SetSimulatorInv DEF Next

\* The invariant holds in every reachable state.
THEOREM Invariance == Spec => []IInv
  BY InitInv, StepInv, PTL DEF Spec

\* The tables and the request slots always have their types: no handler ever
\* writes an amount that does not fit its column.
THEOREM TypeCorrect == Spec => []TypeOK
  BY Invariance, PTL DEF IInv

\* Whatever the interleaving, two requests never hold one bill's lock, and a
\* finalize, capture or intent never sees its bill leave the state it locked.
THEOREM LocksExclude == Spec => []LocksSound
  BY Invariance, PTL DEF IInv, LocksSound

\* No two finalized bills of an outlet ever share a number, however many
\* settlements, discards, refreshes and captures run at once.
THEOREM NumbersUnique == Spec => []UniqueBillNumbers
  BY Invariance, PTL DEF IInv
-----------------------------------------------------------------------------
(* What a step does to the bills, and the ledger it implements. *)

\* No bill changes its status, number, discount or round-off; nothing is paid.
Quiet ==
  /\ UNCHANGED <<tender, lastNumber>>
  /\ \A o \in Orders : /\ bill'[o].status = bill[o].status /\ bill'[o].number = bill[o].number
                       /\ bill'[o].discount = bill[o].discount /\ bill'[o].roundOff = bill[o].roundOff

OnlyBill(o) == bill' \in [Orders -> BillRow] /\ \A p \in Orders \ {o} : bill'[p] = bill[p]

OnlyTender(o) == tender' \in [Orders -> TenderRow] /\ \A p \in Orders \ {o} : tender'[p] = tender[p]

Opened(o) ==
  /\ bill[o].status = "none" /\ bill'[o].status = "open" /\ bill'[o].number = bill[o].number
  /\ OnlyBill(o) /\ UNCHANGED <<tender, lastNumber>>

Paid(o) ==
  /\ bill[o].status = "open" /\ Tendered(o)' >= Tendered(o)
  /\ OnlyTender(o) /\ UNCHANGED <<bill, lastNumber>>

Settled(o) ==
  /\ bill[o].status = "open" /\ bill'[o].status = "finalized"
  /\ lastNumber' = lastNumber + 1 /\ bill'[o].number = lastNumber + 1
  /\ Tendered(o)' >= Tendered(o)
  /\ OnlyTender(o) /\ OnlyBill(o)

Dropped(o) ==
  /\ bill[o].status # "none" /\ Tendered(o) = 0
  /\ bill'[o].status = "none" /\ bill'[o].number = 0
  /\ OnlyBill(o) /\ UNCHANGED <<tender, lastNumber>>

Effect == Quiet \/ \E o \in Orders : Opened(o) \/ Paid(o) \/ Settled(o) \/ Dropped(o)

\* A step that leaves the bills, the tenders and the counter alone is quiet.
LEMMA QuietStep == UNCHANGED <<bill, tender, lastNumber>> => Effect
  BY DEF Effect, Quiet

\* A discard drops an unpaid bill, or leaves the bills alone.
LEMMA DiscardEffect == ASSUME IInv, NEW t \in Txns, DiscardWrite(t) PROVE Effect
<1> DEFINE o == txn[t].o
<1>1. UNCHANGED <<tender, lastNumber>>
  BY DEF DiscardWrite
<1>2. CASE UNCHANGED bill
  BY <1>1, <1>2, QuietStep
<1>3. CASE bill' # bill
  <2>1. bill' = [bill EXCEPT ![o] = NoBill] /\ Tendered(o) = 0 /\ bill[o].status # "none"
    BY <1>3 DEF DiscardWrite
  <2>2. o \in Orders
    BY OnOrder DEF DiscardWrite
  <2>3. NoBill \in BillRow /\ NoBill.status = "none" /\ NoBill.number = 0
    BY Bounds DEF NoBill, BillRow, Minor
  <2> HIDE DEF o
  <2>4. Dropped(o)
    BY <1>1, <2>1, <2>2, <2>3 DEF Dropped, OnlyBill, IInv, TypeOK
  <2> QED
    BY <2>2, <2>4 DEF Effect
<1> QED
  BY <1>2, <1>3

\* createBill() opens a bill, or leaves the bills alone.
LEMMA CreateBillEffect == ASSUME IInv, NEW t \in Txns, CreateBillWrite(t) PROVE Effect
<1> DEFINE o == txn[t].o
           tax == computeTaxOn(txn[t].subtotal)
           row == [NoBill EXCEPT !.status = "open", !.subtotal = txn[t].subtotal, !.tax = tax]
<1>1. UNCHANGED <<tender, lastNumber>>
  BY DEF CreateBillWrite
<1>2. o \in Orders
  BY OnOrder DEF CreateBillWrite, Running
<1>3. UNCHANGED bill \/ (bill[o].status = "none" /\ tax \in Minor /\ bill' = [bill EXCEPT ![o] = row])
  BY DEF CreateBillWrite
<1>4. tax \in Minor => row \in BillRow /\ row.status = "open" /\ row.number = 0
  <2>1. txn[t].subtotal \in Minor
    BY RequestFields DEF IInv, TypeOK
  <2>2. NoBill \in BillRow /\ NoBill.number = 0
    BY Bounds DEF NoBill, BillRow, Minor
  <2> HIDE DEF tax
  <2> QED
    BY <2>1, <2>2 DEF BillRow
<1> HIDE DEF row, tax, o
<1>5. bill[o].status = "none" => bill[o].number = 0
  BY <1>2 DEF IInv, TenderInv
<1>6. UNCHANGED bill \/ Opened(o)
  BY <1>1, <1>2, <1>3, <1>4, <1>5 DEF Opened, OnlyBill, IInv, TypeOK
<1> QED
  BY <1>1, <1>2, <1>6, QuietStep DEF Effect

\* Writing a bill's totals is quiet.
LEMMA TotalsEffect ==
  ASSUME IInv, NEW o, NEW s, NEW x, UNCHANGED <<tender, lastNumber>>,
         bill' = [bill EXCEPT ![o] = [@ EXCEPT !.subtotal = s, !.tax = x]]
  PROVE  Effect
<1>1. \A p \in Orders : /\ bill'[p].status = bill[p].status /\ bill'[p].number = bill[p].number
                        /\ bill'[p].discount = bill[p].discount /\ bill'[p].roundOff = bill[p].roundOff
  BY DEF IInv, TypeOK, BillRow
<1> QED
  BY <1>1 DEF Effect, Quiet

\* A finalize settles its bill with the next number.
LEMMA FinalizeEffect ==
  ASSUME IInv, NEW t \in Txns, NEW pay \in Payments, NEW d \in Discounts, FinalizeCommit(t, pay, d)
  PROVE  \E o \in Orders : o = txn[t].o /\ Settled(o)
<1>0. PICK o \in Orders : o = txn[t].o
  BY FinalizeRows
<1>1. lastNumber' = lastNumber + 1
  BY DEF FinalizeCommit, NextBillNumber
<1>2. bill[o].status = "open"
  BY <1>0, FinalizeRows
<1>3. PICK paid \in TenderRow :
        /\ paid.cash >= tender[o].cash /\ paid.other >= tender[o].other /\ paid.sim = tender[o].sim
        /\ tender' = [tender EXCEPT ![o] = paid]
  BY <1>0, FinalizeRows
<1>4. PICK row \in BillRow :
        /\ row.status = "finalized" /\ row.number = lastNumber + 1
        /\ bill' = [bill EXCEPT ![o] = row]
  BY <1>0, FinalizeRows
<1>5. OnlyBill(o) /\ bill'[o] = row
  BY <1>2, <1>4 DEF OnlyBill, IInv, TypeOK
<1>6. OnlyTender(o) /\ tender'[o] = paid
  BY <1>2, <1>3 DEF OnlyTender, IInv, TypeOK
<1>7. Tendered(o)' >= Tendered(o)
  <2>1. tender[o] \in TenderRow
    BY <1>2 DEF IInv, TypeOK
  <2> QED
    BY <2>1, <1>3, <1>6, TenderFields DEF Tendered
<1>8. Settled(o)
  BY <1>1, <1>2, <1>4, <1>5, <1>6, <1>7 DEF Settled
<1> QED
  BY <1>0, <1>8

\* A capture pays on an open bill, or only flags its intent.
LEMMA ConfirmEffect == ASSUME IInv, NEW t \in Txns, ConfirmCommit(t) PROVE Effect
<1>0. PICK i, o : i = txn[t].ref /\ o = txn[t].o
  OBVIOUS
<1>1. UNCHANGED <<bill, lastNumber>>
  BY DEF ConfirmCommit
<1>2. i \in Intents /\ o \in Orders /\ (~txn[t].saw => bill[o].status = "open")
  <2>1. txn[t].op = "confirm"
    BY DEF ConfirmCommit, Running
  <2> QED
    BY <1>0, <2>1 DEF IInv, LockInv, TxnInv, WorksOnOpenBill
<1>3. CASE UNCHANGED tender
  BY <1>1, <1>3, QuietStep
<1>4. CASE /\ ~txn[t].saw /\ tender[o].sim + intent[i].amt \in Minor
           /\ tender' = [tender EXCEPT ![o].sim = @ + intent[i].amt]
  <2> DEFINE s == tender[o].sim + intent[i].amt
             row == [tender[o] EXCEPT !.sim = s]
  <2>1. tender' = [tender EXCEPT ![o] = row] /\ s \in Minor
    BY <1>4
  <2>2. tender[o] \in TenderRow
    BY <1>2 DEF IInv, TypeOK
  <2>3. row \in TenderRow /\ row.cash = tender[o].cash /\ row.other = tender[o].other /\ row.sim = s
    <3> HIDE DEF s
    <3> QED
      BY <2>1, <2>2 DEF TenderRow
  <2>4. s >= tender[o].sim
    <3>1. intent[i].amt \in Nat
      BY <1>2, Bounds DEF IInv, TypeOK, IntentRow, Minor
    <3> QED
      BY <3>1, <2>2, TenderFields
  <2> HIDE DEF row, s
  <2>5. OnlyTender(o) /\ tender'[o] = row
    BY <1>2, <2>1, <2>3 DEF OnlyTender, IInv, TypeOK
  <2>6. Tendered(o)' >= Tendered(o)
    <3>1. s \in Nat
      BY <2>1, Bounds DEF Minor
    <3> QED
      BY <3>1, <2>2, <2>3, <2>4, <2>5, TenderFields DEF Tendered
  <2>7. Paid(o)
    BY <1>1, <1>2, <1>4, <2>5, <2>6 DEF Paid
  <2> QED
    BY <1>2, <2>7 DEF Effect
<1> QED
  BY <1>0, <1>3, <1>4 DEF ConfirmCommit

\* Every step opens, pays, settles or drops one bill, or is quiet.
LEMMA StepEffect == ASSUME IInv, [Next]_vars PROVE Effect
<1>1. ASSUME NEW t \in Txns, LineStep(t) PROVE Effect
  BY <1>1, QuietStep
  DEF LineStep, AddLineRead, RemoveLineRead, VoidLineRead, UpdateLineRead, AddLineWrite,
      assertBillHasNoPayments, UpdateLineWrite, RemoveLineWrite, VoidLineWrite, tables
<1>2. ASSUME NEW t \in Txns, OrderStep(t) PROVE Effect
  BY <1>2, QuietStep, DiscardEffect DEF OrderStep, SendRead, DiscardRead, SendWrite, tables
<1>3. ASSUME NEW t \in Txns, RefreshWrite(t) PROVE Effect
  BY <1>3, TotalsEffect DEF RefreshWrite
<1>4. ASSUME NEW t \in Txns, BillStep(t) PROVE Effect
  <2>1. ASSUME NEW o \in Orders, CreateBillRead(t, o) \/ RefreshRead(t, o) \/ FinalizeLock(t, o)
        PROVE  Effect
    BY <2>1, QuietStep DEF CreateBillRead, RefreshRead, FinalizeLock, tables
  <2>2. ASSUME NEW pay \in Payments, NEW d \in Discounts, FinalizeCommit(t, pay, d) PROVE Effect
    BY <2>2, FinalizeEffect DEF Effect
  <2> QED
    BY <1>3, <1>4, <2>1, <2>2, CreateBillEffect DEF BillStep
<1>5. ASSUME NEW t \in Txns, IntentStep(t) PROVE Effect
  <2>1. ASSUME NEW o \in Orders, CreateIntentLock(t, o) PROVE Effect
    BY <2>1, QuietStep DEF CreateIntentLock, tables
  <2>2. ASSUME NEW i \in Intents, ConfirmLock(t, i) PROVE Effect
    BY <2>2, QuietStep DEF ConfirmLock, tables
  <2>3. ASSUME NEW i \in Intents, NEW amt \in Charges, CreateIntentCommit(t, i, amt) PROVE Effect
    BY <2>3, TotalsEffect DEF CreateIntentCommit
  <2> QED
    BY <1>5, <2>1, <2>2, <2>3, ConfirmEffect DEF IntentStep
<1>6. ASSUME NEW t \in Txns, Abort(t) PROVE Effect
  BY <1>6, QuietStep DEF Abort, tables
<1>7. ASSUME NEW i \in Intents, IntentEvent(i) PROVE Effect
  BY <1>7, QuietStep DEF IntentEvent, Timeout, expireIfDue, CancelIntent, DeclineIntent
<1>8. CASE SetSimulator \/ UNCHANGED vars
  BY <1>8, QuietStep DEF SetSimulator, vars
<1> QED
  BY SMTT(40), <1>1, <1>2, <1>4, <1>5, <1>6, <1>7, <1>8 DEF Next

\* A settled bill's tenders, number, discount and round-off never change again,
\* in any interleaving of captures, refreshes, discards and settlements.
THEOREM SettledIsFinal == Spec => TendersFrozen
<1>1. ASSUME IInv, [Next]_vars, NEW o \in Orders, Finalized(o)
      PROVE  /\ tender'[o] = tender[o]
             /\ bill'[o].status = "finalized" =>
                  /\ bill'[o].number = bill[o].number
                  /\ bill'[o].discount = bill[o].discount
                  /\ bill'[o].roundOff = bill[o].roundOff
  BY <1>1, StepEffect
  DEF Effect, Quiet, Opened, Paid, Settled, Dropped, OnlyBill, OnlyTender, Finalized
<1>2. IInv /\ [Next]_vars =>
        \A o \in Orders : Finalized(o) =>
          /\ tender'[o] = tender[o]
          /\ bill'[o].status = "finalized" =>
               /\ bill'[o].number = bill[o].number
               /\ bill'[o].discount = bill[o].discount
               /\ bill'[o].roundOff = bill[o].roundOff
  BY <1>1
<1> QED
  BY <1>2, Invariance, PTL DEF Spec, TendersFrozen

\* The empty outlet is an empty ledger.
LEMMA LedgerInit == Init => Ledger!Init
  BY DEF Init, Ledger!Init, NoBill, Tendered

\* Every step of the handlers is a step of the ledger, or leaves it alone.
LEMMA LedgerStep == ASSUME IInv, [Next]_vars PROVE [Ledger!Next]_Ledger!ledger
<1> DEFINE st == [o \in Orders |-> bill[o].status]
           pd == [o \in Orders |-> Tendered(o)]
           nr == [o \in Orders |-> bill[o].number]
<1>1. CASE Quiet
  <2>1. st' = st /\ pd' = pd /\ nr' = nr /\ lastNumber' = lastNumber
    BY <1>1 DEF Quiet, Tendered
  <2> QED
    BY <2>1 DEF Ledger!ledger
<1>2. ASSUME NEW o \in Orders, Opened(o) PROVE Ledger!Open(o)
  <2>1. st[o] = "none" /\ st' = [st EXCEPT ![o] = "open"]
    BY <1>2 DEF Opened, OnlyBill
  <2>2. pd' = pd /\ nr' = nr /\ lastNumber' = lastNumber
    BY <1>2 DEF Opened, OnlyBill, Tendered
  <2> QED
    BY <2>1, <2>2 DEF Ledger!Open
<1>3. ASSUME NEW o \in Orders, Paid(o) PROVE Ledger!Pay(o)
  <2>1. st[o] = "open" /\ st' = st /\ nr' = nr /\ lastNumber' = lastNumber
    BY <1>3 DEF Paid
  <2>2. pd'[o] >= pd[o] /\ pd' = [pd EXCEPT ![o] = pd'[o]]
    BY <1>3 DEF Paid, OnlyTender, Tendered
  <2> QED
    BY <2>1, <2>2 DEF Ledger!Pay, Ledger!PaysOn
<1>4. ASSUME NEW o \in Orders, Settled(o) PROVE Ledger!Settle(o)
  <2>1. st[o] = "open" /\ st' = [st EXCEPT ![o] = "finalized"]
    BY <1>4 DEF Settled, OnlyBill
  <2>2. nr' = [nr EXCEPT ![o] = lastNumber + 1] /\ lastNumber' = lastNumber + 1
    BY <1>4 DEF Settled, OnlyBill
  <2>3. pd'[o] >= pd[o] /\ pd' = [pd EXCEPT ![o] = pd'[o]]
    BY <1>4 DEF Settled, OnlyTender, Tendered
  <2> QED
    BY <2>1, <2>2, <2>3 DEF Ledger!Settle, Ledger!PaysOn
<1>5. ASSUME NEW o \in Orders, Dropped(o) PROVE Ledger!Drop(o)
  <2>1. st[o] # "none" /\ pd[o] = 0 /\ st' = [st EXCEPT ![o] = "none"]
    BY <1>5 DEF Dropped, OnlyBill
  <2>2. nr' = [nr EXCEPT ![o] = 0] /\ pd' = pd /\ lastNumber' = lastNumber
    BY <1>5 DEF Dropped, OnlyBill, Tendered
  <2> QED
    BY <2>1, <2>2 DEF Ledger!Drop
<1> QED
  BY <1>1, <1>2, <1>3, <1>4, <1>5, StepEffect DEF Effect, Ledger!Next

\* The handlers, interleaved in any way, implement the ledger: one bill per
\* order, settled once with the next number, paid on only while it is open.
THEOREM ImplementsLedger == Spec => LedgerSpec
<1>1. IInv /\ [Next]_vars => [Ledger!Next]_Ledger!ledger
  BY LedgerStep
<1> QED
  BY <1>1, LedgerInit, Invariance, PTL DEF Spec, LedgerSpec, Ledger!Spec
-----------------------------------------------------------------------------
(* What a settlement is worth. *)

\* Cash that has been rounded is a whole number of the smallest coin.
LEMMA CashRounds ==
  ASSUME NEW due \in Int, NEW c, cashRoundOffMinor(due, c) # 0
  PROVE  (due + cashRoundOffMinor(due, c)) % CashUnit(c) = 0
<1>1. CASE c = "IN"
  <2>1. cashRoundOffMinor(due, c) = ((due * 2 + 100) \div 200) * 100 - due /\ CashUnit(c) = 100
    BY <1>1 DEF cashRoundOffMinor, CashUnit
  <2>2. PICK k \in Int : k = (due * 2 + 100) \div 200
    OBVIOUS
  <2>3. due + cashRoundOffMinor(due, c) = k * 100
    BY <2>1, <2>2
  <2> QED
    BY <2>1, <2>3
<1>2. CASE c # "IN"
  <2>1. cashRoundOffMinor(due, c) = ((due * 2 + 5) \div 10) * 5 - due /\ CashUnit(c) = 5
    BY <1>2 DEF cashRoundOffMinor, CashUnit
  <2>2. PICK k \in Int : k = (due * 2 + 5) \div 10
    OBVIOUS
  <2>3. due + cashRoundOffMinor(due, c) = k * 5
    BY <2>1, <2>2
  <2> QED
    BY <2>1, <2>3
<1> QED
  BY <1>1, <1>2

\* Tenders that settle a total make it exactly, but for rounded cash.
LEMMA SettlesCash ==
  ASSUME NEW total \in Int, NEW paid \in TenderRow, Settles(total, paid), RoundOff(total, paid) # 0
  PROVE  paid.cash > 0 /\ paid.cash % CashUnit(TaxProfile.country) = 0
<1>1. paid.cash \in Nat /\ paid.other \in Nat /\ paid.sim \in Nat
  BY TenderFields
<1> DEFINE due == total - ((paid.cash + paid.other + paid.sim) - paid.cash)
           c == TaxProfile.country
<1>2. paid.cash # 0 /\ RoundOff(total, paid) = cashRoundOffMinor(due, c)
  <2>1. ~(paid.cash + paid.other + paid.sim = total \/ paid.cash = 0)
    BY <1>1 DEF RoundOff
  <2> QED
    BY <2>1 DEF RoundOff
<1>3. due \in Int /\ cashRoundOffMinor(due, c) \in Int
  BY <1>1, <1>2, RoundOffInt
<1>4. paid.cash + paid.other + paid.sim = total + cashRoundOffMinor(due, c)
  BY <1>2 DEF Settles
<1>5. paid.cash = due + cashRoundOffMinor(due, c)
  <2> DEFINE r == cashRoundOffMinor(due, c)
  <2> HIDE DEF r
  <2>1. r \in Int /\ paid.cash + paid.other + paid.sim = total + r
    BY <1>3, <1>4 DEF r
  <2>2. paid.cash = due + r
    BY <2>1, <1>1
  <2> QED
    BY <2>2 DEF r
<1> HIDE DEF due, c
<1> QED
  BY <1>1, <1>2, <1>3, <1>5, CashRounds DEF c

\* Only a finalize moves the outlet's bill counter.
LEMMA CounterStep ==
  ASSUME [Next]_vars, lastNumber' # lastNumber
  PROVE  \E t \in Txns, pay \in Payments, d \in Discounts : FinalizeCommit(t, pay, d)
<1>1. ASSUME NEW t \in Txns PROVE ~LineStep(t)
  BY DEF LineStep, AddLineRead, RemoveLineRead, VoidLineRead, UpdateLineRead, AddLineWrite,
         assertBillHasNoPayments, UpdateLineWrite, RemoveLineWrite, VoidLineWrite, tables
<1>2. ASSUME NEW t \in Txns PROVE ~OrderStep(t)
  BY DEF OrderStep, SendRead, SendWrite, DiscardRead, DiscardWrite, tables
<1>3. ASSUME NEW t \in Txns, BillStep(t)
      PROVE  \E pay \in Payments, d \in Discounts : FinalizeCommit(t, pay, d)
  BY <1>3 DEF BillStep, CreateBillRead, CreateBillWrite, RefreshRead, RefreshWrite, FinalizeLock, tables
<1>4. ASSUME NEW t \in Txns PROVE ~IntentStep(t)
  BY DEF IntentStep, CreateIntentLock, CreateIntentCommit, ConfirmLock, ConfirmCommit, tables
<1>5. ASSUME NEW t \in Txns PROVE ~Abort(t)
  BY DEF Abort, tables
<1>6. ASSUME NEW i \in Intents PROVE ~IntentEvent(i)
  BY DEF IntentEvent, Timeout, expireIfDue, CancelIntent, DeclineIntent
<1>7. ~SetSimulator /\ ~UNCHANGED vars
  BY DEF SetSimulator, vars
<1> QED
  BY SMTT(40), <1>1, <1>2, <1>3, <1>4, <1>5, <1>6, <1>7 DEF Next

\* No settlement rounds, drops or invents money: a bill becomes finalized only
\* with tenders that make its total, or its total with whole coins of cash.
THEOREM SettledExactly == Spec => SettlesExactly
<1> DEFINE Goal(o) == /\ Tendered(o)' = BillTotal(o)' + bill'[o].roundOff
                      /\ bill'[o].roundOff # 0 =>
                           tender'[o].cash > 0 /\ tender'[o].cash % CashUnit(TaxProfile.country) = 0
<1>1. ASSUME IInv, NEW t \in Txns, NEW pay \in Payments, NEW d \in Discounts,
             FinalizeCommit(t, pay, d), NEW o \in Orders, o = txn[t].o
      PROVE  Goal(o)
  <2>1. PICK subtotal : subtotal = txn[t].subtotal
    OBVIOUS
  <2>2. PICK tax : tax = computeTaxOn(subtotal - d)
    OBVIOUS
  <2>3. PICK total : total = Total(subtotal, tax, d)
    OBVIOUS
  <2>4. PICK paid : paid = [tender[o] EXCEPT !.cash = @ + pay[1], !.other = @ + pay[2]]
    OBVIOUS
  <2>5. PICK row : row = [status |-> "finalized", subtotal |-> subtotal, tax |-> tax,
                          discount |-> d, roundOff |-> RoundOff(total, paid),
                          number |-> lastNumber + 1]
    OBVIOUS
  <2>6. /\ Settles(total, paid) /\ tax \in Minor
        /\ tender' = [tender EXCEPT ![o] = paid]
        /\ bill' = [bill EXCEPT ![o] = row]
    BY <1>1, <2>1, <2>2, <2>3, <2>4, <2>5 DEF FinalizeCommit, NextBillNumber
  <2>7. tender'[o] = paid /\ bill'[o] = row
    BY <1>1, <2>6 DEF IInv, TypeOK
  <2>8. paid \in TenderRow
    <3>1. PICK q \in TenderRow : tender' = [tender EXCEPT ![o] = q]
      BY <1>1, FinalizeRows
    <3>2. tender'[o] = q
      BY <1>1, <3>1 DEF IInv, TypeOK
    <3> QED
      BY <2>7, <3>2
  <2>9. BillTotal(o)' = total
    BY <2>3, <2>5, <2>7 DEF BillTotal, Total
  <2>10. total \in Int
    <3>1. subtotal \in Int /\ tax \in Int
      BY <1>1, <2>1, <2>6, RequestFields, Bounds DEF IInv, TypeOK, Minor
    <3>2. d \in Int
      BY BillSettlementAssumption
    <3> QED
      BY <2>3, <3>1, <3>2, TotalInt
  <2>11. Tendered(o)' = total + RoundOff(total, paid) /\ bill'[o].roundOff = RoundOff(total, paid)
    BY <2>5, <2>6, <2>7 DEF Tendered, Settles
  <2> QED
    BY <2>7, <2>8, <2>6, <2>9, <2>10, <2>11, SettlesCash
<1>2. ASSUME IInv, [Next]_vars, NEW o \in Orders, bill'[o].status = "finalized", ~Finalized(o)
      PROVE  Goal(o)
  <2>1. ASSUME NEW t \in Txns, NEW pay \in Payments, NEW d \in Discounts, FinalizeCommit(t, pay, d)
        PROVE  Goal(o)
    <3>1. o = txn[t].o
      BY <1>2, <2>1, FinalizeEffect DEF Settled, OnlyBill, Finalized
    <3> QED
      BY <1>1, <1>2, <2>1, <3>1
  <2>2. \E t \in Txns, pay \in Payments, d \in Discounts : FinalizeCommit(t, pay, d)
    <3>1. ~Quiet /\ bill' # bill
      BY <1>2 DEF Quiet, Finalized
    <3>2. lastNumber' = lastNumber + 1
      BY <1>2, StepEffect, <3>1
      DEF Effect, Quiet, Opened, Paid, Settled, Dropped, OnlyBill, Finalized
    <3>3. lastNumber' # lastNumber
      BY <3>2 DEF IInv, TypeOK
    <3> QED
      BY <1>2, <3>3, CounterStep
  <2> QED
    BY <2>1, <2>2
<1>3. IInv /\ [Next]_vars =>
        \A o \in Orders : bill'[o].status = "finalized" /\ ~Finalized(o) => Goal(o)
  BY <1>2
<1> QED
  BY <1>3, Invariance, PTL DEF Spec, SettlesExactly
-----------------------------------------------------------------------------
(* A line of a billed order is reduced only while the bill is unpaid.  The *)
(* check's answer stays true because the bill's lock is kept to the write  *)
(* and every payment takes the same lock.                                  *)

\* A request that looked at a bill and found it unpaid holds its lock, and the
\* bill is still unpaid.
ProtectedInv ==
  \A t \in Txns : txn[t].op \in Reductions /\ txn[t].saw =>
    txn[t].stage = "write" /\ txn[t].locked /\ ~HasPayments(txn[t].o)

\* A bill gets its first payment only from a request that holds its lock.
LEMMA PaymentsNeedLock ==
  ASSUME IInv, [Next]_vars, NEW o \in Orders, ~HasPayments(o), HasPayments(o)'
  PROVE  \E t \in Txns : txn[t].locked /\ txn[t].o = o /\ txn[t].op \notin Reductions
<1>1. ASSUME UNCHANGED tender, \A i \in Intents : intent'[i].o = o /\ intent'[i].st = "pending" =>
                                                   intent[i].o = o /\ intent[i].st = "pending"
      PROVE  FALSE
  BY <1>1 DEF HasPayments, Tendered, ActiveIntents
<1>2. CASE UNCHANGED <<tender, intent>>
  BY <1>1, <1>2
<1>3. ASSUME NEW t \in Txns, WorksOnOpenBill(t), txn[t].o = o
      PROVE  txn[t].locked /\ txn[t].o = o /\ txn[t].op \notin Reductions
  BY <1>3 DEF IInv, LockInv, WorksOnOpenBill, Reductions
<1>4. ASSUME NEW t \in Txns, NEW pay \in Payments, NEW d \in Discounts, FinalizeCommit(t, pay, d)
      PROVE  WorksOnOpenBill(t) /\ txn[t].o = o
  <2>1. Settled(txn[t].o) /\ txn[t].op = "finalize" /\ UNCHANGED intent
    BY <1>4, FinalizeEffect DEF FinalizeCommit, Running
  <2>2. txn[t].o # o => Tendered(o)' = Tendered(o)
    BY <2>1 DEF Settled, OnlyTender, Tendered
  <2>3. txn[t].o # o => (HasPayments(o)' = HasPayments(o))
    BY <2>1, <2>2 DEF HasPayments, ActiveIntents
  <2> QED
    BY <2>1, <2>3 DEF WorksOnOpenBill
<1>5. ASSUME NEW t \in Txns, NEW i \in Intents, NEW amt \in Charges, CreateIntentCommit(t, i, amt)
      PROVE  WorksOnOpenBill(t) /\ txn[t].o = o
  <2>1. /\ txn[t].op = "createIntent" /\ UNCHANGED tender
        /\ intent' = [ExpireDue(txn[t].o) EXCEPT ![i] = [st |-> "pending", o |-> txn[t].o, amt |-> amt,
                                                         due |-> FALSE, late |-> FALSE]]
    BY <1>5 DEF CreateIntentCommit, Running
  <2>2. \A j \in Intents : \/ ExpireDue(txn[t].o)[j] = intent[j]
                           \/ ExpireDue(txn[t].o)[j].st = "expired"
    BY DEF ExpireDue, ActiveIntents, IInv, TypeOK, IntentRow
  <2>3. DOMAIN ExpireDue(txn[t].o) = Intents
    BY DEF ExpireDue
  <2>4. \A j \in Intents : intent'[j] = intent[j] \/ intent'[j].st = "expired" \/ intent'[j].o = txn[t].o
    BY <2>1, <2>2, <2>3
  <2> QED
    BY <1>1, <2>1, <2>4 DEF WorksOnOpenBill
<1>6. ASSUME NEW t \in Txns, ConfirmCommit(t)
      PROVE  WorksOnOpenBill(t) /\ txn[t].o = o
  <2>1. txn[t].op = "confirm"
    BY <1>6 DEF ConfirmCommit, Running
  <2>2. \A j \in Intents : intent'[j].o = o /\ intent'[j].st = "pending" => intent[j].o = o /\ intent[j].st = "pending"
    <3>1. PICK r : intent' = [intent EXCEPT ![txn[t].ref] = r] /\ r.st = "succeeded"
      <4>1. intent[txn[t].ref] \in IntentRow
        BY <2>1 DEF IInv, TypeOK, TxnInv
      <4>2. ASSUME NEW q \in IntentRow
            PROVE  [q EXCEPT !.st = "succeeded"].st = "succeeded" /\ [q EXCEPT !.st = "succeeded", !.late = TRUE].st = "succeeded"
        BY DEF IntentRow
      <4>3. \/ intent' = [intent EXCEPT ![txn[t].ref] = [intent[txn[t].ref] EXCEPT !.st = "succeeded"]]
            \/ intent' = [intent EXCEPT ![txn[t].ref] = [intent[txn[t].ref] EXCEPT !.st = "succeeded", !.late = TRUE]]
        BY <1>6 DEF ConfirmCommit
      <4> QED
        BY <4>1, <4>2, <4>3
    <3> QED
      BY <3>1 DEF IInv, TypeOK
  <2>3. tender' # tender
    BY <1>1, <2>2
  <2>4. ~txn[t].saw /\ tender' = [tender EXCEPT ![txn[t].o].sim = @ + intent[txn[t].ref].amt]
    BY <1>6, <2>3 DEF ConfirmCommit
  <2>5. txn[t].o # o => tender'[o] = tender[o]
    BY <2>4 DEF IInv, TypeOK
  <2>6. txn[t].o # o => FALSE
    BY <2>2, <2>5 DEF HasPayments, Tendered, ActiveIntents
  <2> QED
    BY <2>1, <2>4, <2>6 DEF WorksOnOpenBill
<1>7. ASSUME NEW i \in Intents, IntentEvent(i) PROVE FALSE
  <2>1. UNCHANGED tender /\ intent[i].st = "pending" /\ intent[i] \in IntentRow
    BY <1>7 DEF IntentEvent, Timeout, expireIfDue, CancelIntent, DeclineIntent, IInv, TypeOK
  <2>2. intent'[i].o = intent[i].o /\ \A j \in Intents \ {i} : intent'[j] = intent[j]
    BY SMTT(40), <1>7, <2>1 DEF IntentEvent, Timeout, expireIfDue, CancelIntent, DeclineIntent, IInv, TypeOK, IntentRow
  <2> QED
    BY <1>1, <2>1, <2>2
<1>8. ASSUME NEW t \in Txns, LineStep(t) \/ OrderStep(t) \/ Abort(t) PROVE UNCHANGED <<tender, intent>>
  BY ZenonT(60), <1>8 DEF LineStep, AddLineRead, RemoveLineRead, VoidLineRead, UpdateLineRead, AddLineWrite,
      assertBillHasNoPayments, UpdateLineWrite, RemoveLineWrite, VoidLineWrite,
      OrderStep, SendRead, DiscardRead, SendWrite, DiscardWrite, Abort, tables
<1>9. ASSUME NEW t \in Txns, BillStep(t)
      PROVE  UNCHANGED <<tender, intent>> \/ \E pay \in Payments, d \in Discounts : FinalizeCommit(t, pay, d)
  BY <1>9 DEF BillStep, CreateBillRead, CreateBillWrite, RefreshRead, RefreshWrite, FinalizeLock, tables
<1>10. ASSUME NEW t \in Txns, IntentStep(t)
       PROVE  \/ UNCHANGED <<tender, intent>> \/ ConfirmCommit(t)
              \/ \E i \in Intents, amt \in Charges : CreateIntentCommit(t, i, amt)
  BY <1>10 DEF IntentStep, CreateIntentLock, ConfirmLock, tables
<1>11. CASE SetSimulator \/ UNCHANGED vars
  BY <1>2, <1>11 DEF SetSimulator, vars
<1> QED
  BY <1>2, <1>3, <1>4, <1>5, <1>6, <1>7, <1>8, <1>9, <1>10, <1>11 DEF Next

\* A step starts one request, checks one, ends one, or leaves the slots alone.
LEMMA SlotStep ==
  ASSUME IInv, [Next]_vars
  PROVE  \/ UNCHANGED txn
         \/ \E t \in Txns : Starts(t) \/ assertBillHasNoPayments(t) \/ End(t)
<1>1. ASSUME NEW t \in Txns, LineStep(t) PROVE Starts(t) \/ assertBillHasNoPayments(t) \/ End(t)
  BY <1>1, AddLineReadStarts, UpdateLineReadStarts, RemoveLineReadStarts, VoidLineReadStarts
  DEF LineStep, AddLineWrite, UpdateLineWrite, RemoveLineWrite, VoidLineWrite
<1>2. ASSUME NEW t \in Txns, OrderStep(t) \/ Abort(t) PROVE Starts(t) \/ End(t)
  BY <1>2, SendReadStarts, DiscardReadStarts DEF OrderStep, SendWrite, DiscardWrite, Abort
<1>3. ASSUME NEW t \in Txns, BillStep(t) PROVE Starts(t) \/ End(t)
  BY <1>3, CreateBillReadStarts, RefreshReadStarts, FinalizeLockStarts
  DEF BillStep, CreateBillWrite, RefreshWrite, FinalizeCommit
<1>4. ASSUME NEW t \in Txns, IntentStep(t) PROVE Starts(t) \/ End(t)
  BY <1>4, CreateIntentLockStarts, ConfirmLockStarts DEF IntentStep, CreateIntentCommit, ConfirmCommit
<1>5. CASE SetSimulator \/ UNCHANGED vars \/ \E i \in Intents : IntentEvent(i)
  BY <1>5 DEF SetSimulator, vars, IntentEvent, Timeout, expireIfDue, CancelIntent, DeclineIntent
<1> QED
  BY <1>1, <1>2, <1>3, <1>4, <1>5 DEF Next

\* The check's answer stays true until the request it was made for has written.
LEMMA ProtectedStep ==
  ASSUME IInv, ProtectedInv, [Next]_vars
  PROVE  ProtectedInv'
<1>1. ASSUME NEW u \in Txns, txn'[u] = txn[u], txn[u].op \in Reductions, txn[u].saw
      PROVE  ~HasPayments(txn[u].o)'
  <2>1. txn[u].locked /\ ~HasPayments(txn[u].o) /\ txn[u].o \in Orders
    BY <1>1, OnOrder DEF ProtectedInv, Reductions
  <2>2. \A t \in Txns \ {u} : txn[t].locked => txn[t].o # txn[u].o
    BY <2>1 DEF IInv, LockInv
  <2>3. PICK o \in Orders : o = txn[u].o
    BY <2>1
  <2>4. ASSUME HasPayments(o)' PROVE FALSE
    <3>1. PICK t \in Txns : txn[t].locked /\ txn[t].o = o /\ txn[t].op \notin Reductions
      BY <2>1, <2>3, <2>4, PaymentsNeedLock
    <3> QED
      BY <1>1, <2>2, <2>3, <3>1
  <2>5. txn'[u].o = o
    BY <1>1, <2>3
  <2> QED
    BY <2>3, <2>4, <2>5
<1>2. ASSUME NEW u \in Txns, txn'[u] = txn[u], txn'[u].op \in Reductions, txn'[u].saw
      PROVE  txn'[u].stage = "write" /\ txn'[u].locked /\ ~HasPayments(txn[u].o)'
  BY <1>1, <1>2 DEF ProtectedInv
<1>3. ASSUME \A u \in Txns : txn'[u] = txn[u] \/ txn'[u].op \notin Reductions \/ ~txn'[u].saw
      PROVE  ProtectedInv'
  BY <1>2, <1>3 DEF ProtectedInv
<1>4. ASSUME NEW t \in Txns, Starts(t) PROVE ProtectedInv'
  BY <1>3, <1>4 DEF Starts, Begin, Sound, IInv, TypeOK
<1>5. ASSUME NEW t \in Txns, End(t) PROVE ProtectedInv'
  BY <1>3, <1>5, IdleType DEF End, Reductions, IInv, TypeOK
<1>6. ASSUME NEW t \in Txns, assertBillHasNoPayments(t) PROVE ProtectedInv'
  <2>1. txn[t] \in RequestRow /\ txn \in [Txns -> RequestRow] /\ txn[t].op \in Reductions /\ txn[t].stage = "check"
    BY <1>6 DEF assertBillHasNoPayments, IInv, TypeOK
  <2>2. ~txn[t].saw
    BY <2>1 DEF ProtectedInv
  <2>3. CASE txn' = [txn EXCEPT ![t].stage = "write"]
    <3>1. ~txn'[t].saw /\ \A u \in Txns \ {t} : txn'[u] = txn[u]
      BY <2>1, <2>2, <2>3 DEF RequestRow
    <3> QED
      BY <1>3, <3>1
  <2>4. CASE ~HasPayments(txn[t].o) /\ txn' = [txn EXCEPT ![t] = [@ EXCEPT !.stage = "write", !.locked = TRUE, !.saw = TRUE]]
    <3> DEFINE r == [txn[t] EXCEPT !.stage = "write", !.locked = TRUE, !.saw = TRUE]
    <3>1. r.stage = "write" /\ r.locked /\ r.o = txn[t].o
      BY <2>1 DEF RequestRow
    <3>2. txn' = [txn EXCEPT ![t] = r]
      BY <2>4
    <3> HIDE DEF r
    <3>3. txn'[t] = r /\ \A u \in Txns \ {t} : txn'[u] = txn[u]
      BY <2>1, <3>2
    <3>4. UNCHANGED <<tender, intent>>
      BY <1>6 DEF assertBillHasNoPayments, tables
    <3>5. ~HasPayments(txn[t].o)' /\ txn'[t].o = txn[t].o
      BY <2>4, <3>1, <3>3, <3>4 DEF HasPayments, Tendered, ActiveIntents
    <3> QED
      BY <1>2, <3>1, <3>3, <3>5 DEF ProtectedInv
  <2> QED
    BY <1>6, <2>3, <2>4 DEF assertBillHasNoPayments
<1>7. CASE UNCHANGED txn
  BY <1>3, <1>7
<1> QED
  BY <1>4, <1>5, <1>6, <1>7, SlotStep

\* A request that checked a bill and found it unpaid reduces its line before
\* any payment gets in, in any interleaving.
THEOREM ReductionsProtected == Spec => BilledLinesProtected
<1>1. Init => ProtectedInv
  BY IdleType DEF Init, ProtectedInv, Reductions
<1>2. IInv /\ ProtectedInv /\ [Next]_vars => ProtectedInv'
  BY ProtectedStep
<1>3. ProtectedInv =>
        \A t \in Txns : txn[t].op \in Reductions /\ txn[t].saw /\ line' # line /\ txn'[t] # txn[t]
          => ~HasPayments(txn[t].o)
  BY DEF ProtectedInv
<1> QED
  BY <1>1, <1>2, <1>3, Invariance, PTL DEF Spec, BilledLinesProtected
-----------------------------------------------------------------------------
(* Bill numbers have no gaps, and captures are accounted for. *)

Worth == \A o \in Orders : Finalized(o) => Tendered(o) > 0

\* Every number the outlet's counter has given out is on a finalized bill, in
\* any interleaving, as long as no bill is settled for nothing.  (A bill
\* without tenders has no row that keeps a late discard() from deleting it.)
THEOREM NumbersGapless == Spec /\ []Worth => []GaplessNumbers
<1>1. Init => GaplessNumbers
  BY DEF Init, GaplessNumbers, Finalized, NoBill
<1>2. ASSUME IInv, Worth, GaplessNumbers, [Next]_vars PROVE GaplessNumbers'
  <2>1. lastNumber \in Nat
    BY <1>2 DEF IInv, TypeOK
  <2>2. CASE Quiet
    BY <1>2, <2>2 DEF Quiet, GaplessNumbers, Finalized
  <2>3. ASSUME NEW o \in Orders, Opened(o) PROVE GaplessNumbers'
    <3>1. \A p \in Orders : (Finalized(p)' <=> Finalized(p)) /\ (Finalized(p) => bill'[p].number = bill[p].number)
      BY <2>3 DEF Opened, OnlyBill, Finalized
    <3>2. lastNumber' = lastNumber
      BY <2>3 DEF Opened
    <3> QED
      BY <1>2, <3>1, <3>2 DEF GaplessNumbers
  <2>4. ASSUME NEW o \in Orders, Paid(o) PROVE GaplessNumbers'
    <3>1. \A p \in Orders : (Finalized(p)' <=> Finalized(p)) /\ (Finalized(p) => bill'[p].number = bill[p].number)
      BY <2>4 DEF Paid, Finalized
    <3>2. lastNumber' = lastNumber
      BY <2>4 DEF Paid
    <3> QED
      BY <1>2, <3>1, <3>2 DEF GaplessNumbers
  <2>5. ASSUME NEW o \in Orders, Settled(o) PROVE GaplessNumbers'
    <3>1. /\ ~Finalized(o) /\ Finalized(o)' /\ bill'[o].number = lastNumber + 1
          /\ lastNumber' = lastNumber + 1
      BY <2>5 DEF Settled, Finalized
    <3>2. \A p \in Orders \ {o} : bill'[p] = bill[p]
      BY <2>5 DEF Settled, OnlyBill
    <3>3. {bill'[p].number : p \in {q \in Orders : Finalized(q)'}}
            = {bill[p].number : p \in {q \in Orders : Finalized(q)}} \cup {lastNumber + 1}
      BY <3>1, <3>2 DEF Finalized
    <3>4. 1..(lastNumber + 1) = 1..lastNumber \cup {lastNumber + 1}
      BY <2>1
    <3> QED
      BY <1>2, <3>1, <3>3, <3>4 DEF GaplessNumbers
  <2>6. ASSUME NEW o \in Orders, Dropped(o) PROVE GaplessNumbers'
    <3>1. ~Finalized(o) /\ ~Finalized(o)' /\ lastNumber' = lastNumber
      BY <1>2, <2>6 DEF Dropped, Finalized, Worth
    <3>2. \A p \in Orders \ {o} : bill'[p] = bill[p]
      BY <2>6 DEF Dropped, OnlyBill
    <3>3. {bill'[p].number : p \in {q \in Orders : Finalized(q)'}}
            = {bill[p].number : p \in {q \in Orders : Finalized(q)}}
      BY <3>1, <3>2 DEF Finalized
    <3> QED
      BY <1>2, <3>1, <3>3 DEF GaplessNumbers
  <2> QED
    BY <1>2, <2>2, <2>3, <2>4, <2>5, <2>6, StepEffect DEF Effect
<1>3. IInv /\ Worth /\ GaplessNumbers /\ [Next]_vars => GaplessNumbers'
  BY <1>2
<1> QED
  BY <1>1, <1>3, Invariance, PTL DEF Spec

\* A capture that was taken as a tender, those of one order, and the rows in use.
Taken(i) == intent[i].st = "succeeded" /\ ~intent[i].late

TakenOn(o) ==
  {i \in Intents : intent[i].o = o /\ intent[i].st = "succeeded" /\ ~intent[i].late}

Used == {i \in Intents : intent[i].st # "none"}

Amounts == [i \in Intents |-> intent[i].amt]

\* The inductive invariant: only finitely many intents exist at any time, and
\* the simulated tenders of a bill are the sum of the captures taken on it.
CaptureInv ==
  /\ IsFiniteSet(Used)
  /\ \A o \in Orders : tender[o].sim = SumFunctionOnSet(Amounts, TakenOn(o))

\* The step leaves the captures of o as they are ...
CapturesStay(o) ==
  /\ tender'[o].sim = tender[o].sim
  /\ TakenOn(o)' = TakenOn(o)
  /\ \A i \in TakenOn(o) : intent'[i].amt = intent[i].amt

\* ... or takes one more, of intent i.
CaptureLands(o, i) ==
  /\ i \in Intents \ TakenOn(o)
  /\ tender'[o].sim = tender[o].sim + intent[i].amt
  /\ TakenOn(o)' = TakenOn(o) \cup {i}
  /\ \A j \in TakenOn(o) \cup {i} : intent'[j].amt = intent[j].amt

\* Captures that stay still make the simulated tenders.
LEMMA StaySum ==
  ASSUME CaptureInv, NEW o \in Orders, CapturesStay(o)
  PROVE  (tender[o].sim = SumFunctionOnSet(Amounts, TakenOn(o)))'
<1> DEFINE T == TakenOn(o)
           f == Amounts
           e == Amounts'
<1>1. IsFiniteSet(T) /\ T \subseteq Intents
  <2>1. T \subseteq Used
    BY DEF TakenOn, Used
  <2> QED
    BY <2>1, FS_Subset DEF CaptureInv, TakenOn
<1>2. \A i \in T : f[i] = e[i]
  BY <1>1 DEF CapturesStay, Amounts
<1>3. tender[o].sim = SumFunctionOnSet(f, T)
  BY DEF CaptureInv
<1>4. tender'[o].sim = tender[o].sim /\ TakenOn(o)' = T
  BY DEF CapturesStay
<1> HIDE DEF T, f, e
<1>5. SumFunctionOnSet(f, T) = SumFunctionOnSet(e, T)
  BY <1>1, <1>2, SumSame
<1> QED
  BY <1>3, <1>4, <1>5 DEF e

\* So do captures one more of which landed as a tender.
LEMMA LandSum ==
  ASSUME IInv, CaptureInv, NEW o \in Orders, NEW i \in Intents, CaptureLands(o, i)
  PROVE  (tender[o].sim = SumFunctionOnSet(Amounts, TakenOn(o)))'
<1> DEFINE T == TakenOn(o)
           f == Amounts
           e == Amounts'
<1>1. IsFiniteSet(T) /\ T \subseteq Intents
  <2>1. T \subseteq Used
    BY DEF TakenOn, Used
  <2> QED
    BY <2>1, FS_Subset DEF CaptureInv, TakenOn
<1>2. i \notin T /\ \A j \in T \cup {i} : e[j] = f[j]
  BY <1>1 DEF CaptureLands, Amounts
<1>3. \A j \in Intents : f[j] \in Int
  BY Bounds DEF Amounts, IInv, TypeOK, IntentRow, Minor
<1>4. tender[o].sim = SumFunctionOnSet(f, T)
  BY DEF CaptureInv
<1>5. tender'[o].sim = tender[o].sim + f[i] /\ TakenOn(o)' = T \cup {i}
  BY DEF CaptureLands, Amounts
<1> HIDE DEF T, f, e
<1>6. /\ SumFunctionOnSet(f, T) \in Int /\ f[i] \in Int
      /\ SumFunctionOnSet(f, T \cup {i}) = f[i] + SumFunctionOnSet(f, T)
  BY <1>1, <1>2, <1>3, SumAdd
<1>7. IsFiniteSet(T \cup {i})
  BY <1>1, FS_AddElement
<1>8. SumFunctionOnSet(e, T \cup {i}) = SumFunctionOnSet(f, T \cup {i})
  BY <1>2, <1>7, SumSame
<1> QED
  BY <1>4, <1>5, <1>6, <1>8 DEF e

\* A step that takes no capture leaves those of every order alone.
LEMMA NothingTaken ==
  ASSUME IInv,
         \A j \in Intents : intent'[j] = intent[j] \/ (~Taken(j) /\ ~Taken(j)'),
         \A o \in Orders : tender'[o].sim = tender[o].sim
  PROVE  \A o \in Orders : CapturesStay(o)
<1>1. ASSUME NEW o \in Orders PROVE TakenOn(o)' = TakenOn(o)
  BY DEF TakenOn, Taken
<1>2. ASSUME NEW o \in Orders, NEW i \in TakenOn(o) PROVE intent'[i].amt = intent[i].amt
  BY <1>2 DEF TakenOn, Taken
<1> QED
  BY <1>1, <1>2 DEF CapturesStay

\* Confirming a capture that comes too late marks it and takes nothing;
\* otherwise it lands on the order the request is on.
LEMMA ConfirmLands ==
  ASSUME IInv, NEW t \in Txns, ConfirmCommit(t)
  PROVE  /\ \A o \in Orders : CapturesStay(o) \/ \E i \in Intents : CaptureLands(o, i)
         /\ Used' = Used
<1>1. PICK i \in Intents : i = txn[t].ref
  BY DEF ConfirmCommit, Running, IInv, TxnInv
<1>2. PICK p \in Orders : p = txn[t].o
  BY OnOrder DEF ConfirmCommit, Running
<1>3. /\ intent \in [Intents -> IntentRow] /\ intent[i] \in IntentRow
      /\ tender \in [Orders -> TenderRow] /\ tender[p] \in TenderRow
      /\ intent[i].o = p /\ intent[i].st \in {"pending", "expired"}
  BY <1>1, <1>2 DEF IInv, TypeOK, TxnInv, ConfirmCommit, Capturable, Running
<1>4. ~intent[i].late
  BY <1>3 DEF IInv, TxnInv
<1>5. CASE txn[t].saw
  <2> DEFINE h == [intent[i] EXCEPT !.st = "succeeded", !.late = TRUE]
  <2>1. h.st = "succeeded" /\ h.late
    BY <1>3 DEF IntentRow
  <2>2. intent' = [intent EXCEPT ![i] = h] /\ tender' = tender
    BY <1>1, <1>5 DEF ConfirmCommit
  <2> HIDE DEF h
  <2>3. intent'[i] = h /\ \A j \in Intents \ {i} : intent'[j] = intent[j]
    BY <1>3, <2>2
  <2>4. Used' = Used
    BY <1>3, <2>1, <2>3 DEF Used
  <2>5. \A j \in Intents : intent'[j] = intent[j] \/ (~Taken(j) /\ ~Taken(j)')
    BY <1>3, <2>1, <2>3 DEF Taken
  <2> QED
    BY <2>2, <2>4, <2>5, NothingTaken
<1>6. CASE ~txn[t].saw
  <2> DEFINE h == [intent[i] EXCEPT !.st = "succeeded"]
             s == tender[p].sim + intent[i].amt
             w == [tender[p] EXCEPT !.sim = s]
  <2>1. h.st = "succeeded" /\ h.late = intent[i].late /\ h.o = p /\ h.amt = intent[i].amt
    BY <1>3 DEF IntentRow
  <2>2. w.sim = s
    <3> HIDE DEF s
    <3> QED
      BY <1>3 DEF TenderRow
  <2>3. intent' = [intent EXCEPT ![i] = h] /\ tender' = [tender EXCEPT ![p] = w]
    BY <1>1, <1>2, <1>6 DEF ConfirmCommit
  <2> HIDE DEF h, w
  <2>4. intent'[i] = h /\ \A j \in Intents \ {i} : intent'[j] = intent[j]
    BY <1>3, <2>3
  <2>5. tender'[p] = w /\ \A o \in Orders \ {p} : tender'[o] = tender[o]
    BY <1>3, <2>3
  <2>6. Used' = Used
    BY <1>3, <2>1, <2>4 DEF Used
  <2>7. CaptureLands(p, i)
    <3>1. i \in Intents \ TakenOn(p)
      BY <1>3 DEF TakenOn
    <3>2. TakenOn(p)' = TakenOn(p) \cup {i}
      BY <1>3, <1>4, <2>1, <2>4 DEF TakenOn
    <3>3. \A j \in TakenOn(p) \cup {i} : intent'[j].amt = intent[j].amt
      BY <2>1, <2>4 DEF TakenOn
    <3>4. tender'[p].sim = s
      BY <2>2, <2>5
    <3> QED
      BY <3>1, <3>2, <3>3, <3>4 DEF CaptureLands
  <2>8. ASSUME NEW o \in Orders \ {p} PROVE CapturesStay(o)
    <3>1. TakenOn(o)' = TakenOn(o)
      BY <1>3, <2>1, <2>4 DEF TakenOn
    <3>2. \A j \in TakenOn(o) : intent'[j].amt = intent[j].amt
      BY <2>1, <2>4 DEF TakenOn
    <3> QED
      BY <2>5, <3>1, <3>2 DEF CapturesStay
  <2> QED
    BY <2>6, <2>7, <2>8
<1> QED
  BY <1>5, <1>6

CapturesMove ==
  /\ \A o \in Orders : CapturesStay(o) \/ \E i \in Intents : CaptureLands(o, i)
  /\ \E i : Used' \subseteq Used \cup {i}

\* Every step leaves the captures of an order alone or lands one more on it,
\* and brings at most one new intent into use.
LEMMA CaptureStep ==
  ASSUME IInv, [Next]_vars
  PROVE  CapturesMove
<1>1. ASSUME UNCHANGED intent, \A o \in Orders : tender'[o].sim = tender[o].sim PROVE CapturesMove
  <2>1. Used' \subseteq Used \cup {None}
    BY <1>1 DEF Used
  <2> QED
    BY <1>1, <2>1, NothingTaken DEF CapturesMove
<1>2. CASE UNCHANGED <<tender, intent>>
  BY <1>1, <1>2
<1>3. ASSUME NEW t \in Txns, NEW pay \in Payments, NEW d \in Discounts, FinalizeCommit(t, pay, d)
      PROVE  CapturesMove
  <2>1. PICK o \in Orders : o = txn[t].o
    BY <1>3, OnOrder DEF FinalizeCommit, Running
  <2> DEFINE c == tender[o].cash + pay[1]
             e == tender[o].other + pay[2]
             paid == [tender[o] EXCEPT !.cash = c, !.other = e]
  <2>2. tender' = [tender EXCEPT ![o] = paid] /\ UNCHANGED intent
    BY <1>3, <2>1 DEF FinalizeCommit
  <2>3. tender \in [Orders -> TenderRow] /\ tender[o] \in TenderRow
    BY DEF IInv, TypeOK
  <2>4. paid.sim = tender[o].sim
    <3> HIDE DEF c, e
    <3> QED
      BY <2>3 DEF TenderRow
  <2> HIDE DEF paid
  <2>5. \A p \in Orders : tender'[p].sim = tender[p].sim
    BY <2>2, <2>3, <2>4
  <2> QED
    BY <1>1, <2>2, <2>5
<1>4. ASSUME NEW t \in Txns, NEW i \in Intents, NEW amt \in Charges, CreateIntentCommit(t, i, amt)
      PROVE  CapturesMove
  <2> DEFINE x == ExpireDue(txn[t].o)
             h == [st |-> "pending", o |-> txn[t].o, amt |-> amt, due |-> FALSE, late |-> FALSE]
  <2>1. UNCHANGED tender /\ intent[i].st = "none" /\ intent' = [x EXCEPT ![i] = h]
    BY <1>4 DEF CreateIntentCommit
  <2>2. \A j \in Intents : \/ x[j] = intent[j]
                           \/ x[j].st = "expired" /\ intent[j].st = "pending"
    BY DEF ExpireDue, ActiveIntents, IInv, TypeOK, IntentRow
  <2>3. DOMAIN x = Intents /\ h.st = "pending"
    BY DEF ExpireDue
  <2> HIDE DEF x, h
  <2>4. \A j \in Intents \ {i} : intent'[j] = intent[j] \/ (intent'[j].st = "expired" /\ intent[j].st = "pending")
    BY <2>1, <2>2, <2>3
  <2>5. intent'[i].st = "pending"
    BY <2>1, <2>3
  <2>6. Used' \subseteq Used \cup {i}
    BY <2>4 DEF Used
  <2>7. \A j \in Intents : intent'[j] = intent[j] \/ (~Taken(j) /\ ~Taken(j)')
    BY <2>1, <2>4, <2>5 DEF Taken
  <2> QED
    BY <2>1, <2>6, <2>7, NothingTaken DEF CapturesMove
<1>5. ASSUME NEW t \in Txns, ConfirmCommit(t) PROVE CapturesMove
  BY <1>5, ConfirmLands DEF CapturesMove
<1>6. ASSUME NEW i \in Intents, IntentEvent(i) PROVE CapturesMove
  <2>1. UNCHANGED tender /\ intent[i].st = "pending" /\ intent[i] \in IntentRow
    BY <1>6 DEF IntentEvent, Timeout, expireIfDue, CancelIntent, DeclineIntent, IInv, TypeOK
  <2>2. intent'[i].st # "succeeded" /\ \A j \in Intents \ {i} : intent'[j] = intent[j]
    BY <1>6, <2>1 DEF IntentEvent, Timeout, expireIfDue, CancelIntent, DeclineIntent, IInv, TypeOK, IntentRow
  <2>3. Used' \subseteq Used \cup {i}
    BY <2>2 DEF Used
  <2>4. \A j \in Intents : intent'[j] = intent[j] \/ (~Taken(j) /\ ~Taken(j)')
    BY SMTT(40), <2>1, <2>2 DEF Taken
  <2> QED
    BY <2>1, <2>3, <2>4, NothingTaken DEF CapturesMove
<1>7. ASSUME NEW t \in Txns, LineStep(t) \/ OrderStep(t) \/ Abort(t) PROVE UNCHANGED <<tender, intent>>
  BY ZenonT(60), <1>7 DEF LineStep, AddLineRead, RemoveLineRead, VoidLineRead, UpdateLineRead, AddLineWrite,
      assertBillHasNoPayments, UpdateLineWrite, RemoveLineWrite, VoidLineWrite,
      OrderStep, SendRead, DiscardRead, SendWrite, DiscardWrite, Abort, tables
<1>8. ASSUME NEW t \in Txns, BillStep(t)
      PROVE  UNCHANGED <<tender, intent>> \/ \E pay \in Payments, d \in Discounts : FinalizeCommit(t, pay, d)
  BY <1>8 DEF BillStep, CreateBillRead, CreateBillWrite, RefreshRead, RefreshWrite, FinalizeLock, tables
<1>9. ASSUME NEW t \in Txns, IntentStep(t)
      PROVE  \/ UNCHANGED <<tender, intent>> \/ ConfirmCommit(t)
             \/ \E i \in Intents, amt \in Charges : CreateIntentCommit(t, i, amt)
  BY <1>9 DEF IntentStep, CreateIntentLock, ConfirmLock, tables
<1>10. CASE SetSimulator \/ UNCHANGED vars
  BY <1>2, <1>10 DEF SetSimulator, vars
<1>11. ASSUME NEW t \in Txns, LineStep(t) \/ OrderStep(t) \/ BillStep(t) \/ IntentStep(t) \/ Abort(t)
       PROVE  CapturesMove
  BY <1>2, <1>3, <1>4, <1>5, <1>7, <1>8, <1>9, <1>11
<1> QED
  BY <1>6, <1>10, <1>11 DEF Next

\* Every captured intent is accounted for exactly once, as part of its bill's
\* simulated tenders or flagged for refund on a finalized bill, however many
\* intents there are and however their confirmations race the settlement.
THEOREM CapturesExact == Spec => []CapturesAccounted
<1>1. Init => CaptureInv
  <2> SUFFICES ASSUME Init PROVE CaptureInv
    OBVIOUS
  <2>1. Used = {} /\ \A o \in Orders : TakenOn(o) = {} /\ tender[o].sim = 0
    BY DEF Init, Used, TakenOn
  <2> QED
    BY <2>1, FS_EmptySet, SumEmpty DEF CaptureInv
<1>2. ASSUME IInv, CaptureInv, [Next]_vars PROVE CaptureInv'
  <2>1. \A o \in Orders : (tender[o].sim = SumFunctionOnSet(Amounts, TakenOn(o)))'
    BY <1>2, CaptureStep, StaySum, LandSum DEF CapturesMove
  <2>2. PICK i : Used' \subseteq Used \cup {i}
    BY <1>2, CaptureStep DEF CapturesMove
  <2>3. IsFiniteSet(Used \cup {i})
    BY <1>2, FS_AddElement DEF CaptureInv
  <2>4. IsFiniteSet(Used')
    BY <2>2, <2>3, FS_Subset
  <2> QED
    BY <2>1, <2>4 DEF CaptureInv
<1>3. IInv /\ CaptureInv /\ [Next]_vars => CaptureInv'
  BY <1>2
<1>4. IInv /\ CaptureInv => CapturesAccounted
  BY DEF IInv, TxnInv, CaptureInv, CapturesAccounted, Amounts, TakenOn
<1> QED
  BY <1>1, <1>3, <1>4, Invariance, PTL DEF Spec
=============================================================================
