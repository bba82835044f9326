------------------------------ MODULE Refunds ------------------------------
(***************************************************************************)
(* Credit notes against one finalized bill (bills.service.ts refund()).    *)
(*                                                                         *)
(* A refund names lines and quantities, or nothing, which means all that   *)
(* is left.  It takes the bill's row lock, reads the order's lines and the *)
(* earlier credit notes, checks that no line is refunded past its          *)
(* quantity, and writes one note whose subtotal and tax are its share of   *)
(* what was paid, allocated cumulatively.  Two requests may be under way   *)
(* at once; an addLine that read the order before the bill closed it may   *)
(* still commit (AddLineLate).                                             *)
(***************************************************************************)
EXTENDS Money, Sequences, FiniteSets, Functions

CONSTANTS
  Lines,      \* the order's line rows
  Late,       \* those whose insert commits after the bill is finalized
  Parent,     \* the combo line a line belongs to, or None
  Per,        \* how many of a combo's item go into one combo
  Price,      \* a line's unit price with its modifiers
  MaxQty,     \* bound: largest quantity on a line that is no combo item
  Discounts,  \* bound: the discounts the bill may have been given
  TaxProfile, \* the tenant's tax registration
  MaxTargets, \* bound: how many lines one request names
  Txns,       \* concurrent requests
  None        \* no parent, no request

Roots == {l \in Lines : Parent[l] = None}

ItemsOf(l) == {c \in Lines : Parent[c] = l}

ASSUME RefundsAssumption ==
  /\ IsFiniteSet(Lines)
  /\ Late \subseteq Roots /\ \A l \in Late : ItemsOf(l) = {}
  /\ Parent \in [Lines -> Lines \cup {None}] /\ \A l \in Lines \ Roots : Parent[l] \in Roots
  /\ Per \in [Lines -> Nat \ {0}] /\ Price \in [Lines -> Nat]
  /\ MaxQty \in Nat \ {0} /\ MaxTargets \in Nat
  /\ Discounts \subseteq Nat /\ TaxProfile \in TaxProfiles
  /\ None \notin Lines

VARIABLES
  qty,      \* order_lines.quantity
  present,  \* the lines on the order
  bill,     \* the finalized bill: subtotal, discount, tax
  notes,    \* credit_notes with their lines, in the order they were written
  txn       \* the refund requests under way

vars == <<qty, present, bill, notes, txn>>

(***************************************************************************)
(* The lines of a request and of a note are rows with a line l and a       *)
(* quantity q.  A row's key is <<i, l>>: the i-th line the request named   *)
(* brought in l, itself or an item of its combo; i is 0 when the request   *)
(* named none.                                                             *)
(***************************************************************************)
Units(rows, l) == SumFunction([k \in DOMAIN rows |-> IF rows[k].l = l THEN rows[k].q ELSE 0])

\* What the rows cost on the bill, before its discount.
Gross(rows) == SumFunction([k \in DOMAIN rows |-> rows[k].q * Price[rows[k].l]])

\* refundedSoFar and priorGrossMinor: of all credit notes ns of the bill.
Credited(ns, l) == SumFunction([n \in DOMAIN ns |-> Units(ns[n].lines, l)])

PriorGross(ns) == SumFunction([n \in DOMAIN ns |-> Gross(ns[n].lines)])

NotedSubtotal(ns) == SumFunction([n \in DOMAIN ns |-> ns[n].subtotal])

NotedTax(ns) == SumFunction([n \in DOMAIN ns |-> ns[n].tax])

Net == bill.subtotal - bill.discount

\* commitFinalize() left a bill of the lines it saw; the late ones are not in it.
Init ==
  /\ \E whole \in [Roots -> 1..MaxQty] :
       qty = [l \in Lines |-> IF l \in Roots THEN whole[l] ELSE Per[l] * whole[Parent[l]]]
  /\ present = Lines \ Late
  /\ \E d \in Discounts :
       LET subtotal == SumFunction([l \in Lines \ Late |-> qty[l] * Price[l]])
       IN  /\ d <= subtotal
           /\ bill = [subtotal |-> subtotal, discount |-> d,
                      tax |-> computeTax(TaxProfile, subtotal - d).taxMinor]
  /\ notes = << >>
  /\ txn = [t \in Txns |-> None]

Target == [l : Roots, q : 1..MaxQty]

\* dto.lines: absent (the empty sequence), or up to MaxTargets lines, the same
\* one twice if the caller says so.  An item inside a combo is refused.
Asked == UNION {[1..k -> Target] : k \in 0..MaxTargets}

AddLineLate(l) ==
  /\ l \in Late \ present
  /\ present' = present \cup {l}
  /\ UNCHANGED <<qty, bill, notes, txn>>

\* A slip: earlier notes are read without waiting for the bill's lock.
Mut_RefundLock(t, asked) ==
  /\ txn[t] = None
  /\ txn' = [txn EXCEPT ![t] = [asked |-> asked, lines |-> present, notes |-> notes]]
  /\ UNCHANGED <<qty, present, bill, notes>>

\* lockBill(), then the order's lines and the earlier credit notes.
RefundLock(t, asked) ==
  /\ \A u \in Txns : txn[u] = None
  /\ txn' = [txn EXCEPT ![t] = [asked |-> asked, lines |-> present, notes |-> notes]]
  /\ UNCHANGED <<qty, present, bill, notes>>

\* All that is left, or what was named and each named combo's items.
Targets(r) ==
  IF r.asked = << >>
  THEN [k \in {0} \X {l \in r.lines : qty[l] > Credited(r.notes, l)} |->
          [l |-> k[2], q |-> qty[k[2]] - Credited(r.notes, k[2])]]
  ELSE [k \in {j \in (DOMAIN r.asked) \X Lines : r.asked[j[1]].l \in {j[2], Parent[j[2]]}} |->
          LET named == r.asked[k[1]]
          IN  [l |-> k[2], q |-> IF k[2] = named.l THEN named.q
                                                   ELSE (named.q * qty[k[2]]) \div qty[named.l]]]

\* The rows that may be written last: what was named comes in the order it was
\* named, then the items in that order; the order's lines come in any order.
LastOf(rows) ==
  LET place(k) == IF k[1] = 0 THEN 0 ELSE IF k[2] \in Roots THEN k[1] ELSE MaxTargets + k[1]
  IN  {k \in DOMAIN rows : \A j \in DOMAIN rows : place(j) <= place(k)}

\* A slip: each target is checked on its own, not against the ones before it.
Mut_Refundable(r, targets) ==
  \A k \in DOMAIN targets :
    LET x == targets[k] IN x.l \in r.lines /\ Credited(r.notes, x.l) + x.q <= qty[x.l]

\* Every target is a line of the bill's order, and all targets of one line
\* together stay within what earlier notes have left of it.
Refundable(r, targets) ==
  \A k \in DOMAIN targets :
    LET l == targets[k].l
    IN  l \in r.lines /\ Credited(r.notes, l) + Units(targets, l) <= qty[l]

\* A slip: each note is prorated on its own, so the roundings add up.
Mut_NoteShare(cumGross, gross, of, prior) == prorate(gross, of, bill.subtotal)

\* Everything refunded so far, this note included, less what earlier notes took.
NoteShare(cumGross, gross, of, prior) == maxZero(prorate(cumGross, of, bill.subtotal) - prior)

\* Each row's share of the note by its gross, rounded down; the last takes the rest.
LineAmounts(rows, last, subtotal) ==
  LET gross == Gross(rows)
      share == [k \in DOMAIN rows |->
                  IF gross = 0 THEN 0 ELSE (subtotal * (rows[k].q * Price[rows[k].l])) \div gross]
  IN  [k \in DOMAIN rows |->
         IF k = last THEN subtotal - SumFunctionOnSet(share, DOMAIN rows \ {last}) ELSE share[k]]

\* The manager's PIN was right (otherwise Abort); the note is written.
RefundCommit(t) ==
  LET r == txn[t]
      targets == Targets(r)
      gross == Gross(targets)
      cumGross == PriorGross(r.notes) + gross
      subtotal == NoteShare(cumGross, gross, Net, NotedSubtotal(r.notes))
      tax == NoteShare(cumGross, gross, bill.tax, NotedTax(r.notes))
  IN  /\ r # None
      /\ DOMAIN targets # {}
      /\ Refundable(r, targets)
      /\ \E last \in LastOf(targets) :
           notes' = Append(notes,
             [subtotal |-> subtotal, tax |-> tax,
              lines |-> [k \in DOMAIN targets |->
                           [l |-> targets[k].l, q |-> targets[k].q,
                            amount |-> LineAmounts(targets, last, subtotal)[k]]]])
      /\ txn' = [txn EXCEPT ![t] = None]
      /\ UNCHANGED <<qty, present, bill>>

\* Nothing to refund, over_refund, a wrong PIN, a lost connection: rolled back.
Abort(t) ==
  /\ txn[t] # None
  /\ txn' = [txn EXCEPT ![t] = None]
  /\ UNCHANGED <<qty, present, bill, notes>>

Next ==
  \/ \E l \in Late : AddLineLate(l)
  \/ \E t \in Txns : \/ \E asked \in Asked : RefundLock(t, asked)
                     \/ RefundCommit(t)
                     \/ Abort(t)

Spec == Init /\ [][Next]_vars
-----------------------------------------------------------------------------
\* No line is ever refunded past its quantity, by repeated targets of one
\* request, by several notes, or by two refunds at once; and the items of a
\* combo are refunded with it, in proportion.
NoLineOverRefunded ==
  /\ \A l \in Lines : Credited(notes, l) <= qty[l]
  /\ \A c \in Lines \ Roots :
       Credited(notes, c) * qty[Parent[c]] = Credited(notes, Parent[c]) * qty[c]

OnlyBilledLines == present \subseteq Lines \ Late

ReturnedAtMostPaid == NotedSubtotal(notes) <= Net /\ NotedTax(notes) <= bill.tax

\* As long as the order holds the lines its bill was made of, partial refunds
\* never add up to more than was paid, neither the net subtotal nor the tax.
WithinPaid == OnlyBilledLines => ReturnedAtMostPaid

\* When every unit of the bill has been refunded, in however many notes and
\* in whatever order, exactly what was paid has been returned.
FullRefundIsExact ==
  OnlyBilledLines /\ (\A l \in present : Credited(notes, l) = qty[l]) =>
    NotedSubtotal(notes) = Net /\ NotedTax(notes) = bill.tax

\* The lines of every note add up to its subtotal, and none is negative.
NoteLinesAddUp ==
  \A n \in DOMAIN notes :
    LET rows == notes[n].lines
    IN  /\ SumFunction([k \in DOMAIN rows |-> rows[k].amount]) = notes[n].subtotal
        /\ \A k \in DOMAIN rows : rows[k].amount >= 0

\* The notes are right to the last paisa, line by line and all together.
NotesAreExact == FullRefundIsExact /\ NoteLinesAddUp

(* What the repository says of this code, and a late line refutes. *)

\* bills.service.ts refund(), SE-1: "so partial refunds never add up to more
\* than was paid".
PartialRefundsWithinPaid == NotedSubtotal(notes) <= Net
=============================================================================
