--------------------------- MODULE BillSettlement ---------------------------
(***************************************************************************)
(* The money path of the POS: order lines, the bill of an order, payment   *)
(* intents, tenders and the gapless bill number of one outlet              *)
(* (pos/orders, pos/bills, pos/payments).                                  *)
(*                                                                         *)
(* Every endpoint is one Postgres transaction at READ COMMITTED: each      *)
(* statement sees what had committed when it started, writes appear at     *)
(* commit, and only lockBill() (SELECT ... FOR UPDATE) makes one request   *)
(* wait for another.  A request is therefore a slot t \in Txns that reads  *)
(* in one step (...Read, ...Lock), possibly waits, and writes and commits  *)
(* in a later one (...Write, ...Commit); between the two other requests    *)
(* run.  A request that fails a check, or whose connection breaks, rolls   *)
(* back: Abort.  Requests that are a single compare-and-swap statement are *)
(* one step.                                                               *)
(***************************************************************************)
EXTENDS Money, FiniteSets, FiniteSetsExt

CONSTANTS
  Orders,      \* the orders of one outlet
  Lines,       \* order line rows that may come to exist
  Intents,     \* payment intent rows that may come to exist
  Txns,        \* concurrent requests
  None,        \* no order / no row
  OrderOf,     \* the order a line row belongs to
  Price,       \* a line's unit price with its modifiers
  MaxQty,      \* bound: largest quantity on a line
  TaxProfile,  \* the tenant's tax registration
  Payments,    \* bound: the <<cash, other>> amounts a finalize may post
  Discounts,   \* bound: the discounts a finalize may ask for
  Charges,     \* bound: the amounts a card intent may ask for
  MaxMinor     \* largest value of a money column; storing more fails

ASSUME BillSettlementAssumption ==
  /\ OrderOf \in [Lines -> Orders]
  /\ Price \in [Lines -> Nat]
  /\ MaxQty \in Nat /\ MaxMinor \in Nat
  /\ TaxProfile \in TaxProfiles
  /\ Payments \subseteq Nat \X Nat
  /\ Discounts \subseteq Nat /\ 0 \in Discounts
  /\ Charges \subseteq Nat \ {0}
  /\ None \notin Orders \cup Lines \cup Intents

VARIABLES
  order,       \* orders.status, or "discarded" once the row is deleted
  line,        \* order_lines: is it there, how many, does the kitchen have it
  bill,        \* bills, one per order at most
  tender,      \* sums of a bill's tenders: cash, other manual, simulated card
  intent,      \* payment_intents
  lastNumber,  \* bill_number_counters.last_number of the outlet
  simulator,   \* paymentsSimulatorFor(): the switch, or Test mode
  tenantStatus,\* tenants.status: a first sale makes a provisioning tenant active
  txn          \* the requests under way

tables == <<order, line, bill, tender, intent, lastNumber, simulator, tenantStatus>>
vars == <<order, line, bill, tender, intent, lastNumber, simulator, tenantStatus, txn>>

Minor == 0..MaxMinor
OrderStatus == {"open", "sent", "closed", "discarded"}
IntentStatus == {"none", "pending", "succeeded", "failed", "cancelled", "expired"}
Reductions == {"updateLine", "removeLine", "voidLine"}
Handlers == {"addLine", "send", "resend", "createBill", "refresh", "createIntent",
             "confirm", "finalize", "discard", "discardVoided"} \cup Reductions

Idle == [op |-> "none", stage |-> "write", o |-> None, ref |-> None,
         locked |-> FALSE, subtotal |-> 0, n |-> 0, saw |-> FALSE]

NoBill == [status |-> "none", subtotal |-> 0, tax |-> 0, discount |-> 0,
           roundOff |-> 0, number |-> 0]

LineRow == [st : {"absent", "live", "voided", "removed"}, qty : 0..MaxQty, fired : BOOLEAN]
BillRow == [status : {"none", "open", "finalized"}, subtotal : Minor, tax : Minor,
            discount : Minor, roundOff : Int, number : Nat]
TenderRow == [cash : Minor, other : Minor, sim : Minor]
IntentRow == [st : IntentStatus, o : Orders \cup {None}, amt : Minor,
              due : BOOLEAN, late : BOOLEAN]
RequestRow == [op : Handlers \cup {"none"}, stage : {"check", "write"},
               o : Orders \cup {None}, ref : Lines \cup Intents \cup {None},
               locked : BOOLEAN, subtotal : Minor, n : Nat, saw : BOOLEAN]

TypeOK ==
  /\ order \in [Orders -> OrderStatus]
  /\ line \in [Lines -> LineRow]
  /\ bill \in [Orders -> BillRow]
  /\ tender \in [Orders -> TenderRow]
  /\ intent \in [Intents -> IntentRow]
  /\ lastNumber \in Nat
  /\ simulator \in BOOLEAN
  /\ tenantStatus \in {"provisioning", "active"}
  /\ txn \in [Txns -> RequestRow]
  /\ \A t \in Txns : txn[t].op = "updateLine" => txn[t].n \in 0..MaxQty

Init ==
  /\ order = [o \in Orders |-> "open"]
  /\ line = [l \in Lines |-> [st |-> "absent", qty |-> 0, fired |-> FALSE]]
  /\ bill = [o \in Orders |-> NoBill]
  /\ tender = [o \in Orders |-> [cash |-> 0, other |-> 0, sim |-> 0]]
  /\ intent = [i \in Intents |-> [st |-> "none", o |-> None, amt |-> 0,
                                  due |-> FALSE, late |-> FALSE]]
  /\ lastNumber = 0
  /\ simulator \in BOOLEAN
  /\ tenantStatus = "provisioning"
  /\ txn = [t \in Txns |-> Idle]
-----------------------------------------------------------------------------
(* What the handlers compute from the rows. *)

LinesOf(o) == {l \in Lines : OrderOf[l] = o}

LiveLines(o) == {l \in LinesOf(o) : line[l].st = "live"}

computeSubtotal(o) == MapThenSumSet(LAMBDA l : line[l].qty * Price[l], LiveLines(o))

computeTaxOn(taxable) == computeTax(TaxProfile, taxable).taxMinor

PricesIncludeTax == computeTax(TaxProfile, 0).pricesIncludeTax

Total(subtotal, tax, discount) == computeTotalMinor(subtotal, tax, discount, PricesIncludeTax)

BillTotal(o) == Total(bill[o].subtotal, bill[o].tax, bill[o].discount)

Tendered(o) == tender[o].cash + tender[o].other + tender[o].sim

\* status in ACTIVE_INTENT_STATUSES (a new row is written as 'pending').
ActiveIntents(o) == {i \in Intents : intent[i].o = o /\ intent[i].st = "pending"}

\* Nobody else holds the bill's row lock.
LockFree(o) == \A t \in Txns : ~(txn[t].locked /\ txn[t].o = o)

\* fireOnSend(): every live line the kitchen does not have yet gets a ticket.
fireOnSend(o) ==
  [l \in Lines |-> IF l \in LiveLines(o) THEN [line[l] EXCEPT !.fired = TRUE] ELSE line[l]]

Unfired(o) == {l \in LiveLines(o) : ~line[l].fired}
-----------------------------------------------------------------------------
(* Bookkeeping of the request slots. *)

Begin(t, request) ==
  /\ txn[t] = Idle
  /\ txn' = [txn EXCEPT ![t] = request]

End(t) == txn' = [txn EXCEPT ![t] = Idle]

Running(t, op, stage) == txn[t].op = op /\ txn[t].stage = stage

Request(op, o) == [Idle EXCEPT !.op = op, !.o = o]

\* A slip: the bill number a failed finalize had reserved stays used up.
Mut_Abort(t) ==
  /\ txn[t] # Idle
  /\ End(t)
  /\ lastNumber' = lastNumber + IF txn[t].op = "finalize" THEN 1 ELSE 0
  /\ UNCHANGED <<order, line, bill, tender, intent, simulator, tenantStatus>>

\* A failed check, a constraint violation or a lost connection: rolled back.
Abort(t) ==
  /\ txn[t] # Idle
  /\ End(t)
  /\ UNCHANGED tables
-----------------------------------------------------------------------------
(* Order lines (order-lines.service.ts).  A combo is one line here: it is  *)
(* added, removed and voided whole.                                        *)

OrderOpen(o) == order[o] \in {"open", "sent"}

\* addLine(), addCombo(): the order is read as not closed; the bill is not looked at.
AddLineRead(t, l) ==
  /\ OrderOpen(OrderOf[l])
  /\ line[l].st = "absent"
  /\ \A u \in Txns : txn[u].ref # l  \* every insert has its own fresh id
  /\ Begin(t, [Request("addLine", OrderOf[l]) EXCEPT !.ref = l])
  /\ UNCHANGED tables

AddLineWrite(t, q) ==
  /\ Running(t, "addLine", "write")
  /\ order[txn[t].o] # "discarded"  \* foreign key to orders
  /\ line' = [line EXCEPT ![txn[t].ref] = [st |-> "live", qty |-> q, fired |-> FALSE]]
  /\ End(t)
  /\ UNCHANGED <<order, bill, tender, intent, lastNumber, simulator, tenantStatus>>

\* updateLine(): a smaller quantity than the one just read (or a cheaper set
\* of modifiers) must pass assertBillHasNoPayments first, a larger need not.
UpdateLineRead(t, l, q) ==
  /\ OrderOpen(OrderOf[l])
  /\ line[l].st = "live" /\ ~line[l].fired
  /\ Begin(t, [Request("updateLine", OrderOf[l]) EXCEPT !.ref = l, !.n = q,
                  !.stage = IF q < line[l].qty THEN "check" ELSE "write"])
  /\ UNCHANGED tables

RemoveLineRead(t, l) ==
  /\ OrderOpen(OrderOf[l])
  /\ line[l].st = "live" /\ ~line[l].fired
  /\ Begin(t, [Request("removeLine", OrderOf[l]) EXCEPT !.ref = l, !.stage = "check"])
  /\ UNCHANGED tables

VoidLineRead(t, l) ==
  /\ OrderOpen(OrderOf[l])
  /\ line[l].st = "live" /\ line[l].fired
  /\ Begin(t, [Request("voidLine", OrderOf[l]) EXCEPT !.ref = l, !.stage = "check"])
  /\ UNCHANGED tables

HasPayments(o) == Tendered(o) > 0 \/ ActiveIntents(o) # {}

\* A slip: the payment counts are read without waiting for the bill's lock.
Mut_assertBillHasNoPayments(t) ==
  /\ txn[t].op \in Reductions /\ txn[t].stage = "check"
  /\ ~HasPayments(txn[t].o)
  /\ txn' = [txn EXCEPT ![t] = [@ EXCEPT !.stage = "write",
                                     !.saw = bill[txn[t].o].status # "none"]]
  /\ UNCHANGED tables

\* No bill: nothing to protect and nothing to lock.  Otherwise the counts are
\* read under the bill's lock, which is kept until the request commits.
assertBillHasNoPayments(t) ==
  LET o == txn[t].o
  IN  /\ txn[t].op \in Reductions /\ txn[t].stage = "check"
      /\ \/ /\ bill[o].status = "none"
            /\ txn' = [txn EXCEPT ![t].stage = "write"]
         \/ /\ bill[o].status # "none"
            /\ LockFree(o)
            /\ ~HasPayments(o)
            /\ txn' = [txn EXCEPT ![t] = [@ EXCEPT !.stage = "write", !.locked = TRUE, !.saw = TRUE]]
      /\ UNCHANGED tables

UpdateLineWrite(t) ==
  /\ Running(t, "updateLine", "write")
  /\ line[txn[t].ref].st # "removed"
  /\ line' = [line EXCEPT ![txn[t].ref].qty = txn[t].n]
  /\ End(t)
  /\ UNCHANGED <<order, bill, tender, intent, lastNumber, simulator, tenantStatus>>

RemoveLineWrite(t) ==
  /\ Running(t, "removeLine", "write")
  /\ line[txn[t].ref].st # "removed"
  /\ ~line[txn[t].ref].fired  \* foreign key from ticket_lines
  /\ line' = [line EXCEPT ![txn[t].ref].st = "removed"]
  /\ End(t)
  /\ UNCHANGED <<order, bill, tender, intent, lastNumber, simulator, tenantStatus>>

\* The manager's PIN was right (otherwise Abort).
VoidLineWrite(t) ==
  /\ Running(t, "voidLine", "write")
  /\ line' = [line EXCEPT ![txn[t].ref].st = "voided"]
  /\ End(t)
  /\ UNCHANGED <<order, bill, tender, intent, lastNumber, simulator, tenantStatus>>
-----------------------------------------------------------------------------
(* Order status (orders.service.ts). *)

\* updateStatus(): open->sent, or sent->sent to fire what was added since.
SendRead(t, o) ==
  /\ OrderOpen(o)
  /\ Begin(t, Request(IF order[o] = "open" THEN "send" ELSE "resend", o))
  /\ UNCHANGED tables

\* The status is written by id, whatever it has become since it was read.
SendWrite(t) ==
  LET o == txn[t].o
  IN  /\ \/ Running(t, "send", "write") /\ order' = [order EXCEPT ![o] = "sent"]
         \/ Running(t, "resend", "write") /\ Unfired(o) # {} /\ UNCHANGED order
      /\ order[o] # "discarded"
      /\ line' = fireOnSend(o)
      /\ End(t)
      /\ UNCHANGED <<bill, tender, intent, lastNumber, simulator, tenantStatus>>

\* discard(): nothing live on the order, its bill (if any) open and untouched.
DiscardRead(t, o) ==
  /\ OrderOpen(o)
  /\ LiveLines(o) = {}
  /\ bill[o].status # "none" =>
       bill[o].status = "open" /\ Tendered(o) = 0 /\ \A i \in Intents : intent[i].o # o
  /\ Begin(t, [Request(IF \E l \in LinesOf(o) : line[l].st = "voided"
                         THEN "discardVoided" ELSE "discard", o)
                 EXCEPT !.saw = bill[o].status # "none"])
  /\ UNCHANGED tables

\* The bill row seen is deleted by id: only the foreign keys still protect it.
DiscardWrite(t) ==
  LET o == txn[t].o
  IN  /\ txn[t].op \in {"discard", "discardVoided"}
      /\ order[o] # "discarded"
      /\ IF txn[t].saw
         THEN /\ LockFree(o)
              /\ bill[o].status # "none"
              /\ Tendered(o) = 0 /\ \A i \in Intents : intent[i].o # o
              /\ bill' = [bill EXCEPT ![o] = NoBill]
         ELSE UNCHANGED bill
      /\ \/ /\ txn[t].op = "discard"
            /\ bill'[o].status = "none"
            /\ \A l \in LinesOf(o) : line[l].st \in {"absent", "removed"}
            /\ order' = [order EXCEPT ![o] = "discarded"]
         \/ /\ txn[t].op = "discardVoided"
            /\ order' = [order EXCEPT ![o] = "closed"]
      /\ End(t)
      /\ UNCHANGED <<line, tender, intent, lastNumber, simulator, tenantStatus>>
-----------------------------------------------------------------------------
(* Bills (bill-core.ts, bills.service.ts). *)

\* createBill() of an order without a bill; with one it is a refresh (below).
CreateBillRead(t, o) ==
  /\ bill[o].status = "none"
  /\ OrderOpen(o)
  /\ computeSubtotal(o) \in Minor
  /\ Begin(t, [Request("createBill", o) EXCEPT !.subtotal = computeSubtotal(o)])
  /\ UNCHANGED tables

\* A slip: the loser of a race replaces the winner's row.
Mut_CreateBillWrite(t) ==
  /\ Running(t, "createBill", "write")
  /\ order[txn[t].o] # "discarded"
  /\ computeTaxOn(txn[t].subtotal) \in Minor
  /\ bill' = [bill EXCEPT ![txn[t].o] =
                [NoBill EXCEPT !.status = "open", !.subtotal = txn[t].subtotal,
                               !.tax = computeTaxOn(txn[t].subtotal)]]
  /\ End(t)
  /\ UNCHANGED <<order, line, tender, intent, lastNumber, simulator, tenantStatus>>

\* The unique order_id makes the loser of a race return the winner's bill.
CreateBillWrite(t) ==
  LET o == txn[t].o
      tax == computeTaxOn(txn[t].subtotal)
  IN  /\ Running(t, "createBill", "write")
      /\ order[o] # "discarded"  \* foreign key to orders
      /\ \/ /\ bill[o].status = "none"
            /\ tax \in Minor
            /\ bill' = [bill EXCEPT ![o] = [NoBill EXCEPT !.status = "open",
                                             !.subtotal = txn[t].subtotal, !.tax = tax]]
         \/ bill[o].status # "none" /\ UNCHANGED bill
      /\ End(t)
      /\ UNCHANGED <<order, line, tender, intent, lastNumber, simulator, tenantStatus>>

\* refreshOpenBillTotals() outside a lock: getBill(), getInvoice(), printBill()
\* and createBill() of a billed order read an open bill whose lines moved on ...
RefreshRead(t, o) ==
  /\ bill[o].status = "open"
  /\ computeSubtotal(o) \in Minor
  /\ \/ bill[o].subtotal # computeSubtotal(o)
     \/ bill[o].tax # computeTaxOn(computeSubtotal(o))
  /\ Begin(t, [Request("refresh", o) EXCEPT !.subtotal = computeSubtotal(o)])
  /\ UNCHANGED tables

\* ... and then update it by id, waiting for a lock but not re-reading the status.
RefreshWrite(t) ==
  LET o == txn[t].o
      tax == computeTaxOn(txn[t].subtotal)
  IN  /\ Running(t, "refresh", "write")
      /\ bill[o].status # "none"
      /\ LockFree(o)
      /\ tax \in Minor
      /\ bill' = [bill EXCEPT ![o] = [@ EXCEPT !.subtotal = txn[t].subtotal, !.tax = tax]]
      /\ End(t)
      /\ UNCHANGED <<order, line, tender, intent, lastNumber, simulator, tenantStatus>>

\* A slip: the bill is read without its row lock.
Mut_FinalizeLock(t, o) ==
  /\ bill[o].status = "open"
  /\ computeSubtotal(o) \in Minor
  /\ Begin(t, [Request("finalize", o) EXCEPT !.locked = TRUE, !.subtotal = computeSubtotal(o)])
  /\ UNCHANGED tables

\* finalize(): lock, then refresh and check the bill under the lock.
FinalizeLock(t, o) ==
  /\ LockFree(o)
  /\ bill[o].status = "open"
  /\ computeSubtotal(o) \in Minor
  /\ Begin(t, [Request("finalize", o) EXCEPT !.locked = TRUE, !.subtotal = computeSubtotal(o)])
  /\ UNCHANGED tables

\* What the cash part is rounded by when the tenders do not make the exact total.
RoundOff(total, paid) ==
  LET sum == paid.cash + paid.other + paid.sim
  IN  IF sum = total \/ paid.cash = 0 THEN 0
      ELSE cashRoundOffMinor(total - (sum - paid.cash), TaxProfile.country)

\* A slip: the round-off is allowed for without looking at the tenders.
Mut_Settles(total, paid) ==
  paid.cash + paid.other + paid.sim >= total + RoundOff(total, paid)

\* Tender-sum validation: the exact total, or the total with the cash rounded.
Settles(total, paid) ==
  paid.cash + paid.other + paid.sim = total + RoundOff(total, paid)

\* A slip: any active intent blocks the bill, expired by the clock or not.
Mut_PaymentPending(o) == ActiveIntents(o) # {}

\* An intent still waiting on the terminal, by the clock, blocks the bill.
PaymentPending(o) == \E i \in ActiveIntents(o) : ~intent[i].due

\* A slip: the counter is read, and moves only from its first value.
Mut_NextBillNumber == IF lastNumber = 0 THEN 1 ELSE lastNumber

\* The upsert on bill_number_counters: created as 1, then incremented.
NextBillNumber == lastNumber + 1

\* finalize() posts its tenders and commitFinalize() validates them, takes the
\* next number, swaps the status open->finalized, fires what is left, closes
\* the order and takes a provisioning tenant live.
FinalizeCommit(t, pay, discount) ==
  LET o == txn[t].o
      subtotal == txn[t].subtotal
      tax == computeTaxOn(subtotal - discount)
      total == Total(subtotal, tax, discount)
      paid == [tender[o] EXCEPT !.cash = @ + pay[1], !.other = @ + pay[2]]
  IN  /\ Running(t, "finalize", "write")
      /\ ~PaymentPending(o)
      /\ simulator \/ tender[o].sim = 0
      /\ discount <= subtotal
      /\ tax \in Minor
      /\ paid.cash \in Minor /\ paid.other \in Minor
      /\ Settles(total, paid)
      /\ bill[o].status = "open"  \* compare-and-swap
      /\ lastNumber' = NextBillNumber
      /\ tender' = [tender EXCEPT ![o] = paid]
      /\ bill' = [bill EXCEPT ![o] =
                    [status |-> "finalized", subtotal |-> subtotal, tax |-> tax,
                     discount |-> discount, roundOff |-> RoundOff(total, paid),
                     number |-> NextBillNumber]]
      /\ line' = fireOnSend(o)
      /\ order' = [order EXCEPT ![o] = "closed"]
      /\ tenantStatus' = "active"
      /\ End(t)
      /\ UNCHANGED <<intent, simulator>>
-----------------------------------------------------------------------------
(* Payment intents (intents.service.ts, intent-core.ts). *)

\* createIntent(): refreshes and reads what is still due under the lock.
CreateIntentLock(t, o) ==
  /\ simulator
  /\ LockFree(o)
  /\ bill[o].status = "open"
  /\ computeSubtotal(o) \in Minor
  /\ Begin(t, [Request("createIntent", o) EXCEPT !.locked = TRUE,
                  !.subtotal = computeSubtotal(o), !.n = Tendered(o)])
  /\ UNCHANGED tables

\* expireIfDue() of a stale active intent frees the one-active-per-bill index.
ExpireDue(o) ==
  [j \in Intents |-> IF j \in ActiveIntents(o) /\ intent[j].due
                     THEN [intent[j] EXCEPT !.st = "expired"] ELSE intent[j]]

CreateIntentCommit(t, i, amt) ==
  LET o == txn[t].o
      tax == computeTaxOn(txn[t].subtotal)
  IN  /\ Running(t, "createIntent", "write")
      /\ intent[i].st = "none"
      /\ tax \in Minor /\ amt \in Minor
      /\ amt <= Total(txn[t].subtotal, tax, 0) - txn[t].n
      /\ ~PaymentPending(o)
      /\ intent' = [ExpireDue(o) EXCEPT ![i] = [st |-> "pending", o |-> o, amt |-> amt,
                                                 due |-> FALSE, late |-> FALSE]]
      /\ bill' = [bill EXCEPT ![o] = [@ EXCEPT !.subtotal = txn[t].subtotal, !.tax = tax]]
      /\ End(t)
      /\ UNCHANGED <<order, line, tender, lastNumber, simulator, tenantStatus>>

\* The clock passes expiresAt.
Timeout(i) ==
  /\ intent[i].st = "pending" /\ ~intent[i].due
  /\ intent' = [intent EXCEPT ![i].due = TRUE]
  /\ UNCHANGED <<order, line, bill, tender, lastNumber, simulator, tenantStatus, txn>>

\* Lazy expiry on a read: getIntent(), listPendingForOutlet(), or a repeated
\* createIntent() with the same key.
expireIfDue(i) ==
  /\ intent[i].st = "pending" /\ intent[i].due
  /\ intent' = [intent EXCEPT ![i].st = "expired"]
  /\ UNCHANGED <<order, line, bill, tender, lastNumber, simulator, tenantStatus, txn>>

\* cancelIntent(): one found past due is expired instead (expireIfDue), but the
\* compare-and-swap only asks for an active one, and the clock runs on meanwhile.
CancelIntent(i) ==
  /\ intent[i].st = "pending"
  /\ intent' = [intent EXCEPT ![i].st = "cancelled"]
  /\ UNCHANGED <<order, line, bill, tender, lastNumber, simulator, tenantStatus, txn>>

\* simulate(failure) and failIntent(), a compare-and-swap like the one above.
DeclineIntent(i) ==
  /\ simulator
  /\ intent[i].st = "pending"
  /\ intent' = [intent EXCEPT ![i].st = "failed"]
  /\ UNCHANGED <<order, line, bill, tender, lastNumber, simulator, tenantStatus, txn>>

\* A slip: a capture that was already taken may be confirmed again.
Mut_Capturable(i) == intent[i].st \in {"pending", "expired", "succeeded"}

\* The states a capture may still flip: ADR-011 lets a late one land.
Capturable(i) == intent[i].st \in {"pending", "expired"}

\* A slip: the bill's row is not locked before its status is read.
Mut_ConfirmLock(t, i) ==
  /\ simulator
  /\ Capturable(i)
  /\ Begin(t, [Request("confirm", intent[i].o) EXCEPT !.ref = i,
                  !.saw = bill[intent[i].o].status = "finalized"])
  /\ UNCHANGED tables

\* simulate(success) and confirmIntent(): the lock, then the bill's status.
ConfirmLock(t, i) ==
  /\ simulator
  /\ Capturable(i)
  /\ LockFree(intent[i].o)
  /\ Begin(t, [Request("confirm", intent[i].o) EXCEPT !.ref = i, !.locked = TRUE,
                  !.saw = bill[intent[i].o].status = "finalized"])
  /\ UNCHANGED tables

\* Compare-and-swap to succeeded; the winner writes the tender, or flags the
\* capture for a refund when the bill was already settled.
ConfirmCommit(t) ==
  LET i == txn[t].ref
      o == txn[t].o
  IN  /\ Running(t, "confirm", "write")
      /\ Capturable(i)
      /\ \/ /\ txn[t].saw
            /\ intent' = [intent EXCEPT ![i] = [@ EXCEPT !.st = "succeeded", !.late = TRUE]]
            /\ UNCHANGED tender
         \/ /\ ~txn[t].saw
            /\ tender[o].sim + intent[i].amt \in Minor
            /\ intent' = [intent EXCEPT ![i].st = "succeeded"]
            /\ tender' = [tender EXCEPT ![o].sim = @ + intent[i].amt]
      /\ End(t)
      /\ UNCHANGED <<order, line, bill, lastNumber, simulator, tenantStatus>>

\* The PAYMENTS_SIMULATOR switch, or the tenant's Test/Live mode, is changed.
SetSimulator ==
  /\ simulator' = ~simulator
  /\ UNCHANGED <<order, line, bill, tender, intent, lastNumber, tenantStatus, txn>>
-----------------------------------------------------------------------------
LineStep(t) ==
  \/ \E l \in Lines : AddLineRead(t, l) \/ RemoveLineRead(t, l) \/ VoidLineRead(t, l)
  \/ \E l \in Lines, q \in 1..MaxQty : UpdateLineRead(t, l, q)
  \/ \E q \in 1..MaxQty : AddLineWrite(t, q)
  \/ assertBillHasNoPayments(t)
  \/ UpdateLineWrite(t) \/ RemoveLineWrite(t) \/ VoidLineWrite(t)

OrderStep(t) ==
  \/ \E o \in Orders : SendRead(t, o) \/ DiscardRead(t, o)
  \/ SendWrite(t) \/ DiscardWrite(t)

BillStep(t) ==
  \/ \E o \in Orders : CreateBillRead(t, o) \/ RefreshRead(t, o) \/ FinalizeLock(t, o)
  \/ CreateBillWrite(t) \/ RefreshWrite(t)
  \/ \E pay \in Payments, d \in Discounts : FinalizeCommit(t, pay, d)

IntentStep(t) ==
  \/ \E o \in Orders : CreateIntentLock(t, o)
  \/ \E i \in Intents, amt \in Charges : CreateIntentCommit(t, i, amt)
  \/ \E i \in Intents : ConfirmLock(t, i)
  \/ ConfirmCommit(t)

IntentEvent(i) == Timeout(i) \/ expireIfDue(i) \/ CancelIntent(i) \/ DeclineIntent(i)

Next ==
  \/ \E t \in Txns : LineStep(t) \/ OrderStep(t) \/ BillStep(t) \/ IntentStep(t) \/ Abort(t)
  \/ \E i \in Intents : IntentEvent(i)
  \/ SetSimulator

Spec == Init /\ [][Next]_vars

\* The clock is the only thing that is sure to move: nobody has to poll an
\* intent, and no guest, cashier or terminal has to act.
FairSpec == Spec /\ \A i \in Intents : WF_vars(Timeout(i))
-----------------------------------------------------------------------------
(* Properties. *)

Finalized(o) == bill[o].status = "finalized"

\* No two finalized bills of the outlet carry the same number, and none is
\* ahead of the counter commitFinalize() increments.
UniqueBillNumbers ==
  \A o \in Orders : Finalized(o) =>
    /\ bill[o].number \in 1..lastNumber
    /\ \A p \in Orders \ {o} : Finalized(p) => bill[p].number # bill[o].number

\* Reserve-then-commit numbering: every number handed out is on a finalized
\* bill (bill-core.ts commitFinalize, "Either way, no gap.").
GaplessNumbers == {bill[o].number : o \in {p \in Orders : Finalized(p)}} = 1..lastNumber

\* A bill becomes finalized only with tenders that make its total, or its
\* total with the cash part rounded, and the round-off it stores says which:
\* no capture, refresh or second finalize gets in between.
SettlesExactly ==
  [][\A o \in Orders : bill'[o].status = "finalized" /\ ~Finalized(o) =>
       /\ Tendered(o)' = BillTotal(o)' + bill'[o].roundOff
       /\ bill'[o].roundOff # 0 =>
            tender'[o].cash > 0 /\ tender'[o].cash % CashUnit(TaxProfile.country) = 0]_vars

\* Once a bill is finalized its tenders, its number, its discount and its
\* round-off never change, whichever captures and settlements arrive late.
TendersFrozen ==
  [][\A o \in Orders : Finalized(o) =>
       /\ tender'[o] = tender[o]
       /\ bill'[o].status = "finalized" =>
            /\ bill'[o].number = bill[o].number
            /\ bill'[o].discount = bill[o].discount
            /\ bill'[o].roundOff = bill[o].roundOff]_vars

\* Every captured intent is accounted for exactly once: as part of its bill's
\* simulated tenders, or flagged late_capture_refund_due on a finalized bill.
CapturesAccounted ==
  /\ \A o \in Orders :
       tender[o].sim = SumFunctionOnSet([i \in Intents |-> intent[i].amt],
         {i \in Intents : intent[i].o = o /\ intent[i].st = "succeeded" /\ ~intent[i].late})
  /\ \A i \in Intents : intent[i].late => intent[i].st = "succeeded" /\ Finalized(intent[i].o)

\* assertBillHasNoPayments() is still true when the line is reduced: a request
\* that found the bill unpaid changes the line before any payment gets in.
BilledLinesProtected ==
  [][\A t \in Txns : txn[t].op \in Reductions /\ txn[t].saw /\ line' # line /\ txn'[t] # txn[t]
       => ~HasPayments(txn[t].o)]_vars

WorksOnOpenBill(t) ==
  txn[t].op \in {"finalize", "createIntent"} \/ (txn[t].op = "confirm" /\ ~txn[t].saw)

\* Two requests never hold one bill's lock, and the bill a finalize, a capture
\* or an intent is working on stays in the state it was locked in.
LockInv ==
  \A t \in Txns :
    /\ txn[t].locked => \A u \in Txns \ {t} : txn[u].locked => txn[u].o # txn[t].o
    /\ WorksOnOpenBill(t) => txn[t].locked /\ bill[txn[t].o].status = "open"

\* The tables keep their types (no handler writes an amount its column cannot
\* hold) and the bill locks do their work.
LocksSound == TypeOK /\ LockInv

\* A payment waiting on a terminal never blocks its bill for good: after
\* expiresAt commitFinalize() ignores it, whether or not anyone polled it.
IntentUnblocks == \A o \in Orders : PaymentPending(o) ~> ~PaymentPending(o)

Ledger == INSTANCE BillLedger WITH
  status <- [o \in Orders |-> bill[o].status],
  paid <- [o \in Orders |-> Tendered(o)],
  number <- [o \in Orders |-> bill[o].number],
  last <- lastNumber

\* The handlers implement the ledger: one bill per order, settled once with
\* the next number, paid on only while open, dropped only when unpaid.
LedgerSpec == Ledger!Spec

(* What the repository says of this code, and the interleavings refute. *)

\* bill-core.ts refreshOpenBillTotals: "a finalized bill is immutable".
FinalizedImmutable ==
  [][\A o \in Orders : Finalized(o) /\ bill'[o].status = "finalized" => bill'[o] = bill[o]]_vars

\* docs/api/paid-line-protection.md: a reduction is refused when the order's
\* open bill has any tender or active payment intent.
PaidLinesProtected ==
  [][\A o \in Orders : bill[o].status = "open" /\ HasPayments(o)
       => computeSubtotal(o)' >= computeSubtotal(o)]_vars

\* orders.service.ts FORWARD_TRANSITIONS: the status moves forward only.
ClosedStaysClosed ==
  [][\A o \in Orders : order[o] = "closed" => order'[o] \in {"closed", "discarded"}]_vars
=============================================================================
