------------------------------ MODULE GuestShares ------------------------------
(***************************************************************************)
(* Guests of one table paying their bill by shares or all at once          *)
(* (guest/bills) while staff add dishes, take dishes off, or settle it at  *)
(* the counter.  Creating and reading the bill re-derive the shares; they  *)
(* hold the bill's row only if they also had to write its totals, whereas  *)
(* payments lock it first.  Prices include tax, so the total is the sum of *)
(* the lines.                                                              *)
(***************************************************************************)
EXTENDS Integers, Sequences, FiniteSets, Functions

CONSTANTS
  Payers,     \* the guests with lines on the order, in the order their shares are created
  Spent,      \* what each guest's own lines come to
  Extra,      \* the price of a dish staff add, which is no guest's
  MaxExtras,  \* bound: dishes staff add
  Requests

Guests == {Payers[i] : i \in DOMAIN Payers}

ASSUME GuestSharesAssumption ==
  /\ Payers \in Seq(Guests) /\ Payers # << >> /\ "all" \notin Guests
  /\ \A i, j \in DOMAIN Payers : i # j => Payers[i] # Payers[j]
  /\ Spent \in [Guests -> Nat] /\ Extra \in Nat /\ MaxExtras \in Nat

VARIABLES
  weight,    \* guest -> total of the lines with that guest_id
  extras,    \* staff-added lines
  bill,      \* status and stored total
  share,     \* bill_shares
  tender,    \* guest -> the tenders written for this guest's share, "all" for payAll
  atCounter, \* what staff took
  session,   \* the table session is active
  req        \* requests under way

shareVars == <<weight, extras, bill, share, tender, atCounter, session, req>>

NoShare == [st |-> "none", amt |-> 0]
NoRequest == [op |-> "none", locked |-> FALSE, total |-> 0, plan |-> [g \in {} |-> 0], missing |-> {}]

ShareInit ==
  /\ weight = Spent /\ extras = 0
  /\ bill = [st |-> "none", total |-> 0]
  /\ share = [g \in Guests |-> NoShare]
  /\ tender = [g \in Guests \cup {"all"} |-> << >>]
  /\ atCounter = 0
  /\ session = TRUE
  /\ req = [r \in Requests |-> NoRequest]

SumOf(f, S) == SumFunctionOnSet(f, S)
LineTotal == SumOf(weight, Guests) + Extra * extras
Rank(g) == CHOOSE i \in DOMAIN Payers : Payers[i] = g
With(st) == {g \in Guests : share[g].st = st}
PaidMinor == SumOf([g \in Guests |-> share[g].amt], With("paid"))
Tendered == [g \in DOMAIN tender |-> SumOf(tender[g], DOMAIN tender[g])]
Taken == atCounter + SumOf(Tendered, DOMAIN tender)

\* Everybody but the last outstanding guest pays in proportion, rounded down.
Mut_SplitDue(due, out) ==
  LET totalWeight == SumOf(weight, out) IN
  [g \in out |-> IF totalWeight = 0 THEN 0 ELSE (due * weight[g]) \div totalWeight]

SplitDue(due, out) ==
  LET totalWeight == SumOf(weight, out)
      floor == [g \in out |-> IF totalWeight = 0 THEN 0 ELSE (due * weight[g]) \div totalWeight]
      last == CHOOSE g \in out : \A h \in out : Rank(h) <= Rank(g)
  IN  [g \in out |-> IF g = last THEN due - SumOf(floor, out \ {g}) ELSE floor[g]]

\* syncShares() on what is in the table now: the guests without a share yet,
\* and the amounts the outstanding shares are to have.
Missing == {g \in With("none") : weight[g] > 0}
Outstanding == With("outstanding") \cup Missing
BillChanged(total) == total < PaidMinor \/ (total > PaidMinor /\ Outstanding = {})
SharePlan(total) == SplitDue(total - PaidMinor, Outstanding)

\* The shares once a plan made earlier is written, by id.
Synced(plan, missing) ==
  [g \in Guests |->
    IF g \in missing THEN [st |-> "outstanding", amt |-> plan[g]]
    ELSE IF g \in DOMAIN plan THEN [share[g] EXCEPT !.amt = plan[g]]
    ELSE share[g]]

LockFree == \A r \in Requests : ~ req[r].locked
End(r) == req' = [req EXCEPT ![r] = NoRequest]

Refuse(r) ==
  /\ req[r] # NoRequest
  /\ End(r)
  /\ UNCHANGED <<weight, extras, bill, share, tender, atCounter, session>>

-----------------------------------------------------------------------------
\* createBill() needs an active session, getBill() a bill.  Totals that are up
\* to date are not written, and then nothing is locked.
ViewRead(r) ==
  /\ req[r] = NoRequest
  /\ bill.st = "none" => session
  /\ bill.st # "finalized" /\ ~ BillChanged(LineTotal)
  /\ bill.st = "open" /\ bill.total # LineTotal => LockFree
  /\ req' = [req EXCEPT ![r] =
       [op |-> "view", locked |-> bill.st = "open" /\ bill.total # LineTotal,
        total |-> LineTotal, plan |-> SharePlan(LineTotal), missing |-> Missing]]
  /\ UNCHANGED <<weight, extras, bill, share, tender, atCounter, session>>

\* A share another request created meanwhile is refused by its unique key.
ViewWrite(r) ==
  /\ req[r].op = "view"
  /\ req[r].missing \subseteq With("none")
  /\ share' = Synced(req[r].plan, req[r].missing)
  /\ bill' = IF bill.st = "none" THEN [st |-> "open", total |-> req[r].total]
             ELSE IF req[r].locked THEN [bill EXCEPT !.total = req[r].total]
             ELSE bill
  /\ End(r)
  /\ UNCHANGED <<weight, extras, tender, atCounter, session>>

\* The POS reads the bill: totals are refreshed, shares are not.
StaffRefresh ==
  /\ bill.st = "open" /\ LockFree
  /\ bill' = [bill EXCEPT !.total = LineTotal]
  /\ UNCHANGED <<weight, extras, share, tender, atCounter, session, req>>

\* lockBill(), then the totals as they are behind the lock.
PayLock(r) ==
  /\ req[r] = NoRequest
  /\ bill.st = "open" /\ session /\ LockFree
  /\ req' = [req EXCEPT ![r] =
       [op |-> "pay", locked |-> TRUE, total |-> LineTotal, plan |-> NoRequest.plan, missing |-> {}]]
  /\ UNCHANGED <<weight, extras, bill, share, tender, atCounter, session>>

Mut_Settles(total, taken) == TRUE

\* commitFinalize() refuses tenders that do not make the total.
Settles(total, taken) == taken = total

Complete(total, taken) ==
  /\ Settles(total, taken)
  /\ bill' = [st |-> "finalized", total |-> total]
  /\ session' = FALSE

Mut_Payable(g) == share[g].st # "none" \/ g \in Missing

Payable(g) == g \in Outstanding

payShare(r, g) ==
  LET total == req[r].total  plan == SharePlan(total) IN
  /\ req[r].op = "pay"
  /\ ~ BillChanged(total)
  /\ Payable(g)
  /\ LET paid == [Synced(plan, Missing) EXCEPT ![g].st = "paid"]
     IN  /\ share' = paid
         /\ tender' = [tender EXCEPT ![g] = Append(@, paid[g].amt)]
         /\ IF \E h \in Guests : paid[h].st = "outstanding"
            THEN bill' = [bill EXCEPT !.total = total] /\ UNCHANGED session
            ELSE Complete(total, Taken + paid[g].amt)
  /\ End(r)
  /\ UNCHANGED <<weight, extras, atCounter>>

\* By UPI at a table, by card intent and confirmIntent() at a kiosk.
payAll(r) ==
  LET total == req[r].total IN
  /\ req[r].op = "pay"
  /\ ~ BillChanged(total)
  /\ With("paid") = {}
  /\ share' = [g \in Guests |-> [Synced(SharePlan(total), Missing)[g] EXCEPT
                                   !.st = IF g \in Outstanding THEN "paid" ELSE "none"]]
  /\ tender' = [tender EXCEPT !["all"] = Append(@, total)]
  /\ Complete(total, Taken + total)
  /\ End(r)
  /\ UNCHANGED <<weight, extras, atCounter>>

-----------------------------------------------------------------------------
AddDish ==
  /\ bill.st # "finalized" /\ extras < MaxExtras
  /\ extras' = extras + 1
  /\ UNCHANGED <<weight, bill, share, tender, atCounter, session, req>>

\* assertBillHasNoPayments(), under the bill's lock.
RemoveDish(g) ==
  /\ bill.st # "finalized" /\ weight[g] > 0
  /\ bill.st = "open" => LockFree /\ Taken = 0 /\ With("paid") = {}
  /\ weight' = [weight EXCEPT ![g] = 0]
  /\ UNCHANGED <<extras, bill, share, tender, atCounter, session, req>>

FinalizeAtCounter ==
  /\ bill.st = "open" /\ LockFree /\ LineTotal >= Taken
  /\ atCounter' = LineTotal - Taken
  /\ bill' = [st |-> "finalized", total |-> LineTotal]
  /\ UNCHANGED <<weight, extras, share, tender, session, req>>

EndSession ==
  /\ session
  /\ session' = FALSE
  /\ UNCHANGED <<weight, extras, bill, share, tender, atCounter, req>>

ShareNext ==
  \/ \E r \in Requests : ViewRead(r) \/ ViewWrite(r) \/ PayLock(r) \/ payAll(r) \/ Refuse(r)
  \/ \E r \in Requests, g \in Guests : payShare(r, g)
  \/ \E g \in Guests : RemoveDish(g)
  \/ StaffRefresh \/ AddDish \/ FinalizeAtCounter \/ EndSession

ShareSpec == ShareInit /\ [][ShareNext]_shareVars

-----------------------------------------------------------------------------
(* Double taps, a guest paying for another, one paying for all: nobody is  *)
(* charged for a share twice, and nobody's share once somebody paid for    *)
(* the whole table (payShare, payAll).                                     *)
ChargedOnce ==
  /\ \A g \in DOMAIN tender : Len(tender[g]) <= 1
  /\ tender["all"] # << >> => \A g \in Guests : tender[g] = << >>

(* When the guests settle a bill themselves, the shares, the tenders       *)
(* behind them and the total agree, whatever dishes, views and rewritten   *)
(* shares came in between (syncShares, completeBill).                      *)
SettledBySharesExactly ==
  [][bill.st = "open" /\ bill'.st = "finalized" /\ session # session' =>
       Taken' = bill'.total /\ PaidMinor' = bill'.total]_shareVars

(* "Split ... in proportion to their own line totals, the last absorbing   *)
(* any rounding remainder": a plan makes exactly the amount due, and       *)
(* nobody is off their exact proportion by as much as one unit per guest   *)
(* (syncShares).                                                           *)
PlanIsFair ==
  ~ BillChanged(LineTotal) /\ Outstanding # {} =>
    LET due == LineTotal - PaidMinor  plan == SharePlan(LineTotal)  W == SumOf(weight, Outstanding) IN
    /\ SumOf(plan, Outstanding) = due
    /\ W > 0 => \A g \in Outstanding :
         LET off == plan[g] * W - due * weight[g] IN
         off < Cardinality(Outstanding) * W /\ -off < W

(* "Paid shares never change": once a guest paid, the amount of the share  *)
(* stays what was paid.                                                    *)
PaidSharesNeverChange ==
  [][\A g \in Guests : share[g].st = "paid" => share'[g] = share[g]]_shareVars
=============================================================================
