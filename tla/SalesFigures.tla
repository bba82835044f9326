---------------------------- MODULE SalesFigures ----------------------------
(***************************************************************************)
(* The same sales as four readers show them: the payments report           *)
(* (admin/reports), the owner's dashboard (admin/dashboard), the till's    *)
(* payments of today and the printed invoice (pos/bills).  Each derives    *)
(* its figures from the rows of bills, tenders, credit notes and order     *)
(* lines; a day is the outlet's own calendar day.                          *)
(*                                                                         *)
(* A bill is paid in parts (a guest's share first, the rest when it is     *)
(* finalized) and may be refunded in parts, on any later day.  How a bill  *)
(* is totalled, settled and refunded is the business of Money,             *)
(* BillSettlement and Refunds; here a sale is one of a few priced orders.  *)
(***************************************************************************)
EXTENDS Money, Sequences, FiniteSets, Functions

CONSTANTS
  Branches,
  Offset,       \* per outlet: its time zone, in hours ahead of the server
  DayLength,    \* hours of a day
  Lookback,     \* the 48 hours a reader looks back before it asks which day a row is of
  MaxHour,      \* bound
  Bills,
  Orders,       \* priced orders: lines, tax, discount, cash round-off
  Inclusive,    \* the country's prices include tax
  Methods,
  MaxCredits    \* bound: credit notes of a bill

\* The sum of a sequence or of any other function.
Sum(f) == SumFunctionOnSet(f, DOMAIN f)

\* Order lines carry their own quantity and unit price; the picks of a combo
\* are lines of their own that name it as their parent (0: none).
computeSubtotal(order) == Sum([i \in DOMAIN order.lines |-> order.lines[i].qty * order.lines[i].unit])

\* What addLine(), addCombo() and commitFinalize() leave of an order: a quantity
\* is positive, a pick's is so many per combo, and the discount is no more than
\* the subtotal.
Priced(order) ==
  /\ order.lines \in Seq([qty : Nat \ {0}, unit : Nat, parent : Nat])
  /\ \A i \in DOMAIN order.lines : order.lines[i].parent # 0 =>
       /\ order.lines[i].parent \in DOMAIN order.lines
       /\ order.lines[order.lines[i].parent].parent = 0
       /\ \E each \in 1..order.lines[i].qty : order.lines[i].qty = order.lines[order.lines[i].parent].qty * each
  /\ order.tax \in Nat /\ order.roundOff \in Int
  /\ order.discount \in Nat /\ order.discount <= computeSubtotal(order)

ASSUME SalesAssumption ==
  /\ IsFiniteSet(Bills) /\ Bills \subseteq Nat /\ IsFiniteSet(Methods) /\ Branches # {} /\ Orders # {}
  /\ \A r \in Orders : Priced(r)
  /\ DayLength \in Nat \ {0} /\ Lookback = 2 * DayLength /\ MaxHour \in Nat /\ MaxCredits \in Nat
  /\ Offset \in [Branches -> 0..(DayLength - 1)]
  /\ Inclusive \in BOOLEAN

VARIABLES
  hour,
  sales    \* per bill: its status, outlet, order, finalized_at, tenders and notes

salesVars == <<hour, sales>>

NoBill == [st |-> "none", outlet |-> CHOOSE o \in Branches : TRUE, order |-> CHOOSE r \in Orders : TRUE,
           at |-> 0, tenders |-> << >>, notes |-> << >>]

SalesInit == hour = DayLength /\ sales = [b \in Bills |-> NoBill]

totalOf(order) == computeTotalMinor(computeSubtotal(order), order.tax, order.discount, Inclusive)

Paid(b) == Sum([i \in DOMAIN sales[b].tenders |-> sales[b].tenders[i].amount])
Tender(m, n) == [method |-> m, amount |-> n, at |-> hour]

-----------------------------------------------------------------------------
\* What happens to the rows

HourPasses ==
  /\ hour < MaxHour
  /\ hour' = hour + 1
  /\ UNCHANGED sales

OpenBill(b, o, order) ==
  /\ sales[b].st = "none"
  /\ \A c \in Bills : c < b => sales[c].st # "none"
  /\ sales' = [sales EXCEPT ![b] = [st |-> "open", outlet |-> o, order |-> order,
                                  at |-> 0, tenders |-> << >>, notes |-> << >>]]
  /\ UNCHANGED hour

PayShare(b, m, n) ==
  /\ sales[b].st = "open" /\ sales[b].tenders = << >>
  /\ n < totalOf(sales[b].order)
  /\ sales' = [sales EXCEPT ![b] = [st |-> "open", outlet |-> @.outlet, order |-> @.order,
                                  at |-> 0, tenders |-> <<Tender(m, n)>>, notes |-> << >>]]
  /\ UNCHANGED hour

\* What is still due, cash round-off included, is tendered with it.
Finalize(b, m) ==
  LET due == totalOf(sales[b].order) + sales[b].order.roundOff - Paid(b) IN
  /\ sales[b].st = "open"
  /\ sales' = [sales EXCEPT ![b] = [st |-> "finalized", outlet |-> @.outlet, order |-> @.order,
                                  at |-> hour, tenders |-> Append(@.tenders, Tender(m, due)), notes |-> << >>]]
  /\ UNCHANGED hour

\* A note for one of `of' equal parts of what is left; the last takes it all.
Refund(b, of) ==
  LET notes == sales[b].notes
      left(total, taken(_)) == total - Sum([i \in DOMAIN notes |-> taken(notes[i])])
      net == left(computeSubtotal(sales[b].order) - sales[b].order.discount, LAMBDA n : n.subtotal)
      tax == left(sales[b].order.tax, LAMBDA n : n.tax)
  IN  /\ sales[b].st = "finalized" /\ net > 0
      /\ Len(notes) < MaxCredits
      /\ sales' = [sales EXCEPT ![b] = [st |-> "finalized", outlet |-> @.outlet, order |-> @.order,
                                      at |-> @.at, tenders |-> @.tenders,
                                      notes |-> Append(notes, [subtotal |-> net \div of, tax |-> tax \div of])]]
      /\ net \div of > 0
      /\ UNCHANGED hour

SalesNext ==
  \/ HourPasses
  \/ \E b \in Bills, o \in Branches, r \in Orders : OpenBill(b, o, r)
  \/ \E b \in Bills, m \in Methods : PayShare(b, m, 1) \/ Finalize(b, m)
  \/ \E b \in Bills, of \in 1..2 : Refund(b, of)

SalesSpec == SalesInit /\ [][SalesNext]_salesVars

-----------------------------------------------------------------------------
\* What is shown

localDateKey(t, o) == (t + Offset[o]) \div DayLength

noteAmount(note) == IF Inclusive THEN note.subtotal ELSE note.subtotal + note.tax
CreditedMinor(b) == Sum([i \in DOMAIN sales[b].notes |-> noteAmount(sales[b].notes[i])])

\* The report: finalized bills of an outlet between two instants.
paymentsWhere(o, from, to) ==
  {b \in Bills : sales[b].st = "finalized" /\ sales[b].outlet = o /\ sales[b].at \in from..to}

\* The report's own copy of the total, and the dashboard's below: neither calls
\* the bill's computeTotalMinor().
reportTotal(order) ==
  IF Inclusive THEN computeSubtotal(order) - order.discount
               ELSE computeSubtotal(order) + order.tax - order.discount

\* A row of the list and of the CSV export.
toPaymentRow(b) ==
  [total |-> reportTotal(sales[b].order), roundOff |-> sales[b].order.roundOff,
   tendered |-> Paid(b), refunded |-> CreditedMinor(b)]

\* The CSV: every row of the range, no pages.
exportPaymentsCsv(o, from, to) == [b \in paymentsWhere(o, from, to) |-> toPaymentRow(b)]

totalsFor(bills) ==
  LET total == Sum([b \in bills |-> reportTotal(sales[b].order)])
      refunded == Sum([b \in bills |-> CreditedMinor(b)])
  IN  [count |-> Cardinality(bills), total |-> total, refunded |-> refunded, net |-> total - refunded,
       roundOff |-> Sum([b \in bills |-> sales[b].order.roundOff]), tendered |-> Sum([b \in bills |-> Paid(b)])]

\* The dashboard: what was finalized in the last 48 hours, and of it today's.
recentBills == {b \in Bills : sales[b].st = "finalized" /\ sales[b].at + Lookback >= hour}
isToday(t, o) == localDateKey(t, o) = localDateKey(hour, o)

\* A slip: the tax is forgotten.
Mut_grossMinor(order) == computeSubtotal(order) - order.discount

grossMinor(order) ==
  IF Inclusive THEN computeSubtotal(order) - order.discount
               ELSE computeSubtotal(order) + order.tax - order.discount

todayFor(o) ==
  LET today == {b \in recentBills : sales[b].outlet = o /\ isToday(sales[b].at, o)}
      gross == Sum([b \in today |-> grossMinor(sales[b].order)])
      refunded == Sum([b \in today |-> CreditedMinor(b)])
      taken(b, m) == Sum([i \in DOMAIN sales[b].tenders |->
                            IF sales[b].tenders[i].method = m THEN sales[b].tenders[i].amount ELSE 0])
  IN  [count |-> Cardinality(today), gross |-> gross, refunded |-> refunded, net |-> gross - refunded,
       byMethod |-> [m \in Methods |-> Sum([b \in today |-> taken(b, m)])]]

\* The till: tenders of finalized bills that were taken today.
listPaymentsToday(o) ==
  LET takenToday(b) == {i \in DOMAIN sales[b].tenders :
                          /\ sales[b].tenders[i].at + Lookback >= hour
                          /\ isToday(sales[b].tenders[i].at, o)}
  IN  UNION {{<<b, i>> : i \in takenToday(b)} : b \in {c \in Bills : sales[c].st = "finalized" /\ sales[c].outlet = o}}

\* The invoice prints a combo as one line with its picks underneath; an open
\* bill prints as a pro-forma without tenders.
invoiceLines(order) ==
  LET top == {i \in DOMAIN order.lines : order.lines[i].parent = 0}
      of(i) == order.lines[i].qty * order.lines[i].unit
      total(i) == of(i) + Sum([j \in {k \in DOMAIN order.lines : order.lines[k].parent = i} |-> of(j)])
  IN  [i \in top |-> [qty |-> order.lines[i].qty, total |-> total(i), unit |-> total(i) \div order.lines[i].qty]]

buildInvoiceView(b) ==
  [lines |-> invoiceLines(sales[b].order),
   subtotal |-> computeSubtotal(sales[b].order),
   total |-> totalOf(sales[b].order),
   credited |-> CreditedMinor(b),
   tendered |-> IF sales[b].st = "finalized" THEN Paid(b) ELSE 0]

-----------------------------------------------------------------------------
DayStart(o) == CHOOSE t \in 0..hour : isToday(t, o) /\ \A s \in 0..hour : isToday(s, o) => t <= s

\* "One definition of a day's sales" (dashboard.service.ts): the dashboard and
\* the report of the same day agree on every figure, and so does the sum of the
\* exported rows; the money taken by method is what was tendered, that is the
\* totals and the cash round-off, and no refund takes a day below zero; the
\* till's list is short of that only by what was paid before the bill's own
\* day; and an invoice prints the report's total, with lines that add up, unit
\* by unit, to its subtotal.
SalesAgree ==
  /\ \A o \in Branches :
       LET day == todayFor(o)
           report == totalsFor(paymentsWhere(o, DayStart(o), hour))
           takings == Sum(day.byMethod)
           early == Sum([b \in paymentsWhere(o, DayStart(o), hour) |->
                           Sum([i \in DOMAIN sales[b].tenders |->
                                  IF isToday(sales[b].tenders[i].at, o) THEN 0 ELSE sales[b].tenders[i].amount])])
           csv == exportPaymentsCsv(o, DayStart(o), hour)
           till == Sum([p \in listPaymentsToday(o) |-> sales[p[1]].tenders[p[2]].amount])
       IN  /\ <<day.count, day.gross, day.refunded, day.net>> =
                <<report.count, report.total, report.refunded, report.net>>
           /\ <<report.total, report.tendered, report.refunded>> =
                <<Sum([b \in DOMAIN csv |-> csv[b].total]), Sum([b \in DOMAIN csv |-> csv[b].tendered]),
                  Sum([b \in DOMAIN csv |-> csv[b].refunded])>>
           /\ takings = report.tendered
           /\ report.tendered = report.total + report.roundOff
           /\ report.refunded <= report.total
           /\ till + early = takings
  /\ \A b \in Bills : sales[b].st # "none" =>
       LET invoice == buildInvoiceView(b) IN
       /\ Sum([i \in DOMAIN invoice.lines |-> invoice.lines[i].total]) = invoice.subtotal
       /\ \A i \in DOMAIN invoice.lines : invoice.lines[i].unit * invoice.lines[i].qty = invoice.lines[i].total
       /\ sales[b].st = "finalized" =>
            <<invoice.total, invoice.tendered, invoice.credited>> =
              <<toPaymentRow(b).total, toPaymentRow(b).tendered, toPaymentRow(b).refunded>>
=============================================================================
