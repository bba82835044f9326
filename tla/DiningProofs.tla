---------------------------- MODULE DiningProofs ----------------------------
(***************************************************************************)
(* Proofs about what happens around a table for every number of guests,    *)
(* dishes, requests and stations: nobody is charged twice, shares make the *)
(* bill and are fair, and dishes reach the kitchen.                        *)
(***************************************************************************)
EXTENDS Kitchen, GuestShares, Sums, FiniteSetTheorems, TLAPS

-----------------------------------------------------------------------------
(* Guests paying by shares: what every variable holds, *)

RequestType ==
  [op : {"none", "view", "pay"}, locked : BOOLEAN, total : Int,
   plan : UNION {[S -> Int] : S \in SUBSET Guests}, missing : SUBSET Guests]

ShareTypes ==
  /\ weight \in [Guests -> Nat] /\ extras \in Nat
  /\ bill \in [st : {"none", "open", "finalized"}, total : Int]
  /\ share \in [Guests -> [st : {"none", "outstanding", "paid"}, amt : Int]]
  /\ tender \in [Guests \cup {"all"} -> Seq(Int)]
  /\ atCounter \in Int /\ session \in BOOLEAN
  /\ req \in [Requests -> RequestType]
  /\ \A r \in Requests : req[r].missing \subseteq DOMAIN req[r].plan

(* and how the charges hang together: whoever has a tender has paid, one   *)
(* payment for all ends the bill, and one request at a time holds the lock *)
(* of an open bill.                                                        *)
Charges ==
  /\ \A g \in Guests : Len(tender[g]) <= 1 /\ (tender[g] # << >> => share[g].st = "paid")
  /\ Len(tender["all"]) <= 1
  /\ tender["all"] # << >> => bill.st = "finalized" /\ \A g \in Guests : tender[g] = << >>

Locks ==
  /\ \A r \in Requests : req[r].op = "pay" => req[r].locked
  /\ \A r \in Requests : req[r].locked => bill.st = "open"
  /\ \A r, q \in Requests : req[r].locked /\ req[q].locked => r = q

ShareInv == ShareTypes /\ Charges /\ Locks

\* The guests of a table are finitely many.
LEMMA GuestsFinite == IsFiniteSet(Guests)
<1>1. Payers \in Seq(Guests)
  BY GuestSharesAssumption
<1>2. DOMAIN Payers = 1..Len(Payers) /\ Len(Payers) \in Nat
  BY <1>1
<1>3. IsFiniteSet(1..Len(Payers))
  BY <1>2, FS_Interval
<1>4. Payers \in [1..Len(Payers) -> Guests] /\ \A g \in Guests : \E i \in 1..Len(Payers) : Payers[i] = g
  BY <1>1, <1>2 DEF Guests
<1>5. Payers \in Surjection(1..Len(Payers), Guests)
  BY <1>4 DEF Surjection
<1> QED
  BY <1>3, <1>5, FS_Surjection

\* Of any guests, one comes last: syncShares() gives that one the remainder.
LEMMA SomeoneIsLast ==
  ASSUME NEW out \in SUBSET Guests, out # {}
  PROVE  \E g \in out : \A h \in out : Rank(h) <= Rank(g)
<1>1. Payers \in Seq(Guests)
  BY GuestSharesAssumption
<1>2. DOMAIN Payers = 1..Len(Payers) /\ Len(Payers) \in Nat
  BY <1>1
<1>3. \A g \in Guests : Rank(g) \in 1..Len(Payers)
  BY <1>2 DEF Rank, Guests
<1> DEFINE T == {n \in Nat : \E g \in out : n = Len(Payers) - Rank(g)}
<1>4. PICK x \in out : TRUE
  OBVIOUS
<1>5. Len(Payers) - Rank(x) \in T
  BY <1>2, <1>3, <1>4
<1>6. PICK n \in T : \A m \in T : n <= m
  BY <1>5, LeastNatural
<1>7. PICK g \in out : n = Len(Payers) - Rank(g)
  BY <1>6
<1>8. ASSUME NEW h \in out PROVE Rank(h) <= Rank(g)
  <2>1. Len(Payers) - Rank(h) \in T
    BY <1>2, <1>3
  <2>2. n <= Len(Payers) - Rank(h)
    BY <1>6, <2>1
  <2>3. Rank(h) \in Int /\ Rank(g) \in Int
    BY <1>3
  <2> QED
    BY <1>2, <1>7, <2>2, <2>3
<1> QED
  BY <1>8

\* The part of a guest who is not the last.
Part(due, w, W) == IF W = 0 THEN 0 ELSE (due * w) \div W

SplitsAs(due, out, last, floor) ==
  /\ \A h \in out : floor[h] = Part(due, weight[h], SumOf(weight, out))
  /\ SumOf(floor, out \ {last}) \in Int
  /\ SplitDue(due, out) = [h \in out |-> IF h = last THEN due - SumOf(floor, out \ {last}) ELSE floor[h]]
  /\ SplitDue(due, out) \in [out -> Int]
  /\ SumOf(weight, out) \in Nat

\* What a split consists of: somebody last, whose amount is what the parts of
\* the others leave.
LEMMA SplitParts ==
  ASSUME weight \in [Guests -> Nat], NEW due \in Int, NEW out \in SUBSET Guests, out # {}
  PROVE  \E last \in out, floor \in [out -> Int] : SplitsAs(due, out, last, floor)
<1>1. IsFiniteSet(out)
  BY GuestsFinite, FS_Subset
<1>2. SumOf(weight, out) \in Nat
  <2>1. out \in SUBSET out /\ \A g \in out : weight[g] \in Nat
    OBVIOUS
  <2> QED
    BY <1>1, <2>1, SumNaturals DEF SumOf
<1>3. PICK W \in Nat : W = SumOf(weight, out)
  BY <1>2
<1> DEFINE floor == [g \in out |-> IF W = 0 THEN 0 ELSE (due * weight[g]) \div W]
           last == CHOOSE g \in out : \A h \in out : Rank(h) <= Rank(g)
<1>4. last \in out
  BY SomeoneIsLast
<1>5. SplitDue(due, out) = [g \in out |-> IF g = last THEN due - SumOf(floor, out \ {g}) ELSE floor[g]]
  BY <1>3 DEF SplitDue
<1> HIDE DEF last
<1>6. floor \in [out -> Int] /\ \A g \in out : floor[g] = Part(due, weight[g], W)
  <2>1. \A g \in out : W # 0 => (due * weight[g]) \div W \in Int
    <3> TAKE g \in out
    <3>1. PICK d \in Int : d = due * weight[g]
      OBVIOUS
    <3>2. W # 0 => d \div W \in Int
      OBVIOUS
    <3> QED
      BY <3>1, <3>2
  <2> QED
    BY <2>1 DEF Part
<1> HIDE DEF floor
<1>7. SumOf(floor, out \ {last}) \in Int
  <2>1. out \ {last} \in SUBSET out /\ \A g \in out : floor[g] \in Int
    BY <1>6
  <2> QED
    BY <1>1, <2>1, SumIntegers DEF SumOf
<1>8. SplitDue(due, out) = [h \in out |-> IF h = last THEN due - SumOf(floor, out \ {last}) ELSE floor[h]]
  BY <1>5
<1>9. SplitDue(due, out) \in [out -> Int]
  BY <1>6, <1>7, <1>8
<1> QED
  BY <1>3, <1>4, <1>6, <1>7, <1>8, <1>9 DEF SplitsAs

\* The amounts of a split come to exactly what is due (syncShares).
LEMMA SplitAddsUp ==
  ASSUME weight \in [Guests -> Nat], NEW due \in Int, NEW out \in SUBSET Guests, out # {}
  PROVE  SplitDue(due, out) \in [out -> Int] /\ SumOf(SplitDue(due, out), out) = due
<1>1. PICK last \in out, floor \in [out -> Int] : SplitsAs(due, out, last, floor)
  BY SplitParts
<1>2. PICK plan \in [out -> Int] : plan = SplitDue(due, out)
  BY <1>1 DEF SplitsAs
<1>3. IsFiniteSet(out) /\ IsFiniteSet(out \ {last})
  BY GuestsFinite, FS_Subset
<1>4. PICK rest \in Int : rest = SumOf(floor, out \ {last})
  BY <1>1 DEF SplitsAs
<1>5. plan[last] = due - rest /\ \A g \in out \ {last} : plan[g] = floor[g]
  BY <1>1, <1>2, <1>4 DEF SplitsAs
<1>6. SumOf(plan, out \ {last}) = rest
  BY <1>3, <1>4, <1>5, SumSame DEF SumOf
<1>7. SumOf(plan, out) = plan[last] + SumOf(plan, out \ {last})
  <2>1. out \in SUBSET out /\ \A g \in out : plan[g] \in Int
    OBVIOUS
  <2> QED
    BY <1>3, <2>1, SumTakes DEF SumOf
<1>8. SumOf(plan, out) = due
  BY <1>5, <1>6, <1>7
<1> QED
  BY <1>2, <1>8

\* Nobody's amount is off the exact proportion by as much as one unit per guest
\* (syncShares).
LEMMA SplitFair ==
  ASSUME weight \in [Guests -> Nat], NEW due \in Int, NEW out \in SUBSET Guests,
         NEW W \in Nat \ {0}, W = SumOf(weight, out), NEW g \in out
  PROVE  LET off == SplitDue(due, out)[g] * W - due * weight[g]
         IN  off < Cardinality(out) * W /\ -off < W
<1>0. out # {}
  OBVIOUS
<1>1. PICK last \in out, floor \in [out -> Int] : SplitsAs(due, out, last, floor)
  BY <1>0, SplitParts
<1>2. IsFiniteSet(out) /\ IsFiniteSet(out \ {last})
  BY GuestsFinite, FS_Subset
<1>3. PICK n \in Nat : n = Cardinality(out \ {last}) /\ Cardinality(out) = n + 1
  <2>1. Cardinality(out) \in Nat /\ Cardinality(out \ {last}) \in Nat
    BY <1>2, FS_CardinalityType
  <2>2. Cardinality(out \ {last}) = Cardinality(out) - 1
    BY <1>2, FS_RemoveElement
  <2> QED
    BY <2>1, <2>2
<1>4. (n + 1) * W = n * (W - 1) + n + W /\ n * (W - 1) \in Int /\ 0 <= n * (W - 1)
  OBVIOUS
<1>5. \A h \in out : floor[h] = (due * weight[h]) \div W
  BY <1>1 DEF Part, SplitsAs
<1>6. PICK w \in Nat, p \in Int : w = weight[g] /\ p = SplitDue(due, out)[g]
  BY <1>1 DEF SplitsAs
<1>7. CASE g # last
  <2>1. p = (due * w) \div W /\ due * w \in Int
    BY <1>1, <1>5, <1>6, <1>7 DEF SplitsAs
  <2>2. 0 <= due * w - W * p /\ due * w - W * p <= W - 1
    BY <2>1, RoundedDown
  <2>3. PICK x \in Int, y \in Int : x = due * w /\ y = W * p /\ p * W = y
    OBVIOUS
  <2>4. y - x < W /\ -(y - x) < W /\ W <= (n + 1) * W
    BY <1>4, <2>2, <2>3
  <2> QED
    BY <1>3, <1>4, <1>6, <2>3, <2>4
<1>8. CASE g = last
  <2>1. PICK f \in Int : f = SumOf(floor, out \ {last})
    BY <1>1 DEF SplitsAs
  <2>2. p = due - f
    BY <1>1, <1>6, <1>8, <2>1 DEF SplitsAs
  <2>3. PICK S \in Int : S = SumOf(weight, out \ {last}) /\ W = w + S
    <3>1. out \in SUBSET out /\ out \ {last} \in SUBSET out /\ \A h \in out : weight[h] \in Int
      OBVIOUS
    <3>2. SumOf(weight, out \ {last}) \in Int /\ SumOf(weight, out) = weight[last] + SumOf(weight, out \ {last})
      BY <1>2, <3>1, SumTakes DEF SumOf
    <3> QED
      BY <1>6, <1>8, <3>2
  <2> DEFINE U == out \ {last}
             ws == [h \in U |-> weight[h]]
             fs == [h \in U |-> floor[h]]
  <2>4. ws \in [U -> Nat] /\ fs \in [U -> Int] /\ \A h \in U : fs[h] = (due * ws[h]) \div W
    BY <1>5
  <2>5. SumFunctionOnSet(ws, U) = S
    <3>1. \A h \in U : ws[h] = weight[h]
      OBVIOUS
    <3> HIDE DEF ws
    <3> QED
      BY <1>2, <2>3, <3>1, SumSame DEF SumOf
  <2>6. SumFunctionOnSet(fs, U) = f
    <3>1. \A h \in U : fs[h] = floor[h]
      OBVIOUS
    <3> HIDE DEF fs
    <3> QED
      BY <1>2, <2>1, <3>1, SumSame DEF SumOf
  <2>7. IsFiniteSet(U) /\ Cardinality(U) = n
    BY <1>2, <1>3
  <2> HIDE DEF U, ws, fs
  <2>8. LET short == due * SumFunctionOnSet(ws, U) - W * SumFunctionOnSet(fs, U)
        IN  0 <= short /\ short <= Cardinality(U) * (W - 1)
    BY <2>4, <2>7, ShortOfProportion
  <2>9. 0 <= due * S - W * f /\ due * S - W * f <= n * (W - 1)
    BY <2>5, <2>6, <2>7, <2>8
  <2>10. p * W - due * w = due * S - W * f
    <3>1. (due - f) * W = due * W - W * f
      OBVIOUS
    <3>2. due * (w + S) = due * w + due * S
      OBVIOUS
    <3>3. due * w \in Int /\ due * S \in Int /\ W * f \in Int /\ due * W \in Int
      OBVIOUS
    <3>4. due * W = due * w + due * S
      BY <2>3, <3>2
    <3> QED
      BY <2>2, <3>1, <3>3, <3>4
  <2>11. PICK o \in Int, m \in Int : o = p * W - due * w /\ m = n * (W - 1)
    OBVIOUS
  <2>12. 0 <= o /\ o <= m
    BY <2>9, <2>10, <2>11
  <2>13. PICK q \in Int : q = (n + 1) * W
    OBVIOUS
  <2>14. q = m + n + W
    BY <1>4, <2>11, <2>13
  <2>15. o < q /\ -o < W
    BY <2>12, <2>14
  <2> QED
    BY <1>3, <1>6, <2>11, <2>13, <2>15
<1> QED
  BY <1>7, <1>8

-----------------------------------------------------------------------------
(* Amounts are integers, plans are for guests *)

\* What is paid, what is on the order and what was taken are integers.
LEMMA AmountsAreIntegers ==
  ASSUME ShareTypes
  PROVE  PaidMinor \in Int /\ LineTotal \in Int /\ Taken \in Int /\ Tendered \in [Guests \cup {"all"} -> Int]
<1>1. IsFiniteSet(Guests) /\ IsFiniteSet(Guests \cup {"all"})
  BY GuestsFinite, FS_AddElement
<1>2. PaidMinor \in Int
  <2> DEFINE amts == [g \in Guests |-> share[g].amt]
  <2>1. \A g \in Guests : amts[g] \in Int
    BY DEF ShareTypes
  <2> HIDE DEF amts
  <2>2. With("paid") \in SUBSET Guests
    BY DEF With
  <2>3. SumFunctionOnSet(amts, With("paid")) \in Int
    BY <1>1, <2>1, <2>2, SumIntegers
  <2> QED
    BY <2>3 DEF PaidMinor, SumOf, amts
<1>3. LineTotal \in Int
  <2>1. SumFunctionOnSet(weight, Guests) \in Int
    <3>1. Guests \in SUBSET Guests /\ \A g \in Guests : weight[g] \in Int
      BY DEF ShareTypes
    <3> QED
      BY <1>1, <3>1, SumIntegers
  <2>2. Extra * extras \in Int
    BY GuestSharesAssumption DEF ShareTypes
  <2> QED
    BY <2>1, <2>2 DEF LineTotal, SumOf
<1>4. DOMAIN tender = Guests \cup {"all"}
  BY DEF ShareTypes
<1>5. Tendered \in [Guests \cup {"all"} -> Int]
  <2>1. ASSUME NEW g \in Guests \cup {"all"} PROVE SumOf(tender[g], DOMAIN tender[g]) \in Int
    <3>1. tender[g] \in Seq(Int)
      BY DEF ShareTypes
    <3>2. DOMAIN tender[g] = 1..Len(tender[g]) /\ Len(tender[g]) \in Nat /\ \A i \in DOMAIN tender[g] : tender[g][i] \in Int
      BY <3>1
    <3>3. IsFiniteSet(DOMAIN tender[g]) /\ DOMAIN tender[g] \in SUBSET DOMAIN tender[g]
      BY <3>2, FS_Interval
    <3> QED
      BY <3>2, <3>3, SumIntegers DEF SumOf
  <2> QED
    BY <1>4, <2>1 DEF Tendered
<1>6. SumOf(Tendered, DOMAIN tender) \in Int
  <2>1. DOMAIN tender \in SUBSET (Guests \cup {"all"}) /\ \A g \in Guests \cup {"all"} : Tendered[g] \in Int
    BY <1>4, <1>5
  <2> QED
    BY <1>1, <2>1, SumIntegers DEF SumOf
<1> QED
  BY <1>2, <1>3, <1>5, <1>6 DEF Taken, ShareTypes

\* A plan gives the outstanding guests an amount each.
LEMMA PlansAreForGuests ==
  ASSUME ShareTypes, NEW total \in Int
  PROVE  /\ Outstanding \in SUBSET Guests /\ Missing \in SUBSET Outstanding
         /\ SharePlan(total) \in [Outstanding -> Int]
<1>1. Outstanding \in SUBSET Guests /\ Missing \in SUBSET Outstanding
  BY DEF Outstanding, Missing, With
<1>2. PICK due \in Int : due = total - PaidMinor
  BY AmountsAreIntegers
<1>3. weight \in [Guests -> Nat]
  BY DEF ShareTypes
<1>4. CASE Outstanding = {}
  <2>1. SplitDue(due, {}) \in [{} -> Int]
    BY DEF SplitDue
  <2> QED
    BY <1>1, <1>2, <1>4, <2>1 DEF SharePlan
<1>5. CASE Outstanding # {}
  BY <1>1, <1>2, <1>3, <1>5, SplitAddsUp DEF SharePlan
<1> QED
  BY <1>4, <1>5

\* Writing a plan leaves shares that are shares, and no paid one unpaid.
LEMMA SyncedShares ==
  ASSUME ShareTypes, NEW plan \in UNION {[S -> Int] : S \in SUBSET Guests},
         NEW missing \in SUBSET With("none"), missing \subseteq DOMAIN plan
  PROVE  /\ Synced(plan, missing) \in [Guests -> [st : {"none", "outstanding", "paid"}, amt : Int]]
         /\ \A g \in Guests : share[g].st = "paid" => Synced(plan, missing)[g].st = "paid"
         /\ \A g \in Guests : Synced(plan, missing)[g].st =
              IF g \in missing THEN "outstanding" ELSE share[g].st
         /\ \A g \in DOMAIN plan : Synced(plan, missing)[g].amt = plan[g]
         /\ \A g \in Guests \ DOMAIN plan : Synced(plan, missing)[g] = share[g]
<1>1. \A g \in DOMAIN plan : g \in Guests /\ plan[g] \in Int
  OBVIOUS
<1>2. PICK s : s = Synced(plan, missing)
  OBVIOUS
<1>3. DOMAIN s = Guests /\ s = [g \in Guests |-> s[g]]
  BY <1>2 DEF Synced
<1>4. \A g \in Guests : share[g] \in [st : {"none", "outstanding", "paid"}, amt : Int]
  BY DEF ShareTypes
<1>5. \A g \in missing : g \in Guests /\ g \in DOMAIN plan /\ share[g].st = "none"
  BY DEF With
<1>0. \A g \in missing : s[g] = [st |-> "outstanding", amt |-> plan[g]]
  BY <1>2, <1>5 DEF Synced
<1>14. \A g \in missing : s[g] \in [st : {"none", "outstanding", "paid"}, amt : Int] /\ s[g].st = "outstanding" /\ s[g].amt = plan[g]
  <2> TAKE g \in missing
  <2>1. PICK n \in Int : n = plan[g]
    BY <1>1, <1>5
  <2>2. s[g] = [st |-> "outstanding", amt |-> n]
    BY <1>0, <2>1
  <2> QED
    BY <2>1, <2>2
<1>6. \A g \in Guests : g \notin missing /\ g \in DOMAIN plan => s[g] = [share[g] EXCEPT !.amt = plan[g]]
  BY <1>2 DEF Synced
<1>7. \A g \in Guests : g \notin DOMAIN plan => s[g] = share[g]
  BY <1>2 DEF Synced
<1>8. \A g \in Guests : g \notin missing /\ g \in DOMAIN plan =>
        s[g] \in [st : {"none", "outstanding", "paid"}, amt : Int] /\ s[g].st = share[g].st /\ s[g].amt = plan[g]
  BY ZenonT(60), <1>1, <1>4, <1>6
<1>9. \A g \in Guests : s[g] \in [st : {"none", "outstanding", "paid"}, amt : Int]
  BY <1>4, <1>7, <1>8, <1>14
<1>10. s \in [Guests -> [st : {"none", "outstanding", "paid"}, amt : Int]]
  BY <1>3, <1>9
<1>11. \A g \in Guests : s[g].st = IF g \in missing THEN "outstanding" ELSE share[g].st
  BY <1>5, <1>7, <1>8, <1>14
<1>12. \A g \in Guests : share[g].st = "paid" => s[g].st = "paid"
  BY <1>5, <1>11
<1>13. \A g \in DOMAIN plan : s[g].amt = plan[g]
  BY <1>1, <1>8, <1>14
<1> QED
  BY <1>2, <1>7, <1>10, <1>11, <1>12, <1>13

-----------------------------------------------------------------------------
(* Every action keeps the invariant *)

\* What a request holds next, when one of them changes.
LEMMA OneRequest ==
  ASSUME ShareTypes, Locks, NEW r \in Requests, NEW new \in RequestType,
         new.missing \subseteq DOMAIN new.plan, new.op = "pay" => new.locked,
         req' = [req EXCEPT ![r] = new]
  PROVE  /\ req' \in [Requests -> RequestType]
         /\ \A q \in Requests : req'[q].missing \subseteq DOMAIN req'[q].plan
         /\ \A q \in Requests : req'[q].op = "pay" => req'[q].locked
         /\ \A q \in Requests : req'[q] = IF q = r THEN new ELSE req[q]
<1>1. req \in [Requests -> RequestType]
  BY DEF ShareTypes
<1>2. req' \in [Requests -> RequestType] /\ \A q \in Requests : req'[q] = IF q = r THEN new ELSE req[q]
  BY <1>1
<1> QED
  BY <1>2 DEF ShareTypes, Locks

\* The request that ends.
LEMMA NoRequestType ==
  NoRequest \in RequestType /\ NoRequest.missing \subseteq DOMAIN NoRequest.plan
  /\ NoRequest.op = "none" /\ ~ NoRequest.locked
<1>1. [g \in {} |-> 0] \in [{} -> Int] /\ {} \in SUBSET Guests
  OBVIOUS
<1>2. [g \in {} |-> 0] \in UNION {[S -> Int] : S \in SUBSET Guests}
  BY <1>1
<1> QED
  BY <1>2 DEF NoRequest, RequestType

\* A step that ends a request leaves the other locks as they were.
LEMMA EndLocks ==
  ASSUME ShareTypes, Locks, NEW r \in Requests, End(r),
         \A q \in Requests : q # r /\ req[q].locked => bill'.st = "open"
  PROVE  /\ Locks'
         /\ req' \in [Requests -> RequestType]
         /\ \A q \in Requests : req'[q].missing \subseteq DOMAIN req'[q].plan
<1>1. req' = [req EXCEPT ![r] = NoRequest]
  BY DEF End
<1>2. /\ req' \in [Requests -> RequestType]
      /\ \A q \in Requests : req'[q].missing \subseteq DOMAIN req'[q].plan
      /\ \A q \in Requests : req'[q].op = "pay" => req'[q].locked
      /\ \A q \in Requests : req'[q] = IF q = r THEN NoRequest ELSE req[q]
  BY <1>1, NoRequestType, OneRequest
<1>3. \A q \in Requests : req'[q].locked => q # r /\ req[q].locked
  BY <1>2, NoRequestType
<1> QED
  BY <1>2, <1>3 DEF Locks

\* Reading a bill or locking it for a payment.
LEMMA RequestStarts ==
  ASSUME ShareInv, NEW r \in Requests, ViewRead(r) \/ PayLock(r)
  PROVE  ShareInv'
<1>1. PICK new \in RequestType :
        /\ new.missing \subseteq DOMAIN new.plan
        /\ new.op = "pay" => new.locked
        /\ new.locked => bill.st = "open" /\ LockFree
        /\ req' = [req EXCEPT ![r] = new]
  <2>1. CASE ViewRead(r)
    <3>1. PICK n \in RequestType : n = [op |-> "view", locked |-> bill.st = "open" /\ bill.total # LineTotal,
                                    total |-> LineTotal, plan |-> SharePlan(LineTotal), missing |-> Missing]
      <4>1. LineTotal \in Int
        BY AmountsAreIntegers DEF ShareInv
      <4>2. Outstanding \in SUBSET Guests /\ Missing \in SUBSET Outstanding /\ SharePlan(LineTotal) \in [Outstanding -> Int]
        BY <4>1, PlansAreForGuests DEF ShareInv
      <4>3. SharePlan(LineTotal) \in UNION {[S -> Int] : S \in SUBSET Guests}
        BY <4>2
      <4>4. (bill.st = "open" /\ bill.total # LineTotal) \in BOOLEAN
        OBVIOUS
      <4> QED
        BY <4>1, <4>2, <4>3, <4>4 DEF RequestType
    <3>2. n.missing = Missing /\ n.plan = SharePlan(LineTotal) /\ n.op = "view"
      BY <3>1
    <3>3. Missing \subseteq DOMAIN SharePlan(LineTotal)
      <4>1. LineTotal \in Int
        BY AmountsAreIntegers DEF ShareInv
      <4>2. Outstanding \in SUBSET Guests /\ Missing \in SUBSET Outstanding /\ SharePlan(LineTotal) \in [Outstanding -> Int]
        BY <4>1, PlansAreForGuests DEF ShareInv
      <4> QED
        BY <4>2
    <3>4. n.locked => bill.st = "open" /\ LockFree
      BY <2>1, <3>1 DEF ViewRead
    <3>5. req' = [req EXCEPT ![r] = n]
      BY <2>1, <3>1 DEF ViewRead
    <3> QED
      BY <3>2, <3>3, <3>4, <3>5
  <2>2. CASE PayLock(r)
    <3>1. PICK n \in RequestType : /\ n = [op |-> "pay", locked |-> TRUE, total |-> LineTotal, plan |-> NoRequest.plan, missing |-> {}]
                                   /\ n.missing = {} /\ n.locked
      <4>1. LineTotal \in Int
        BY AmountsAreIntegers DEF ShareInv
      <4>2. PICK none \in UNION {[S -> Int] : S \in SUBSET Guests} : none = NoRequest.plan
        BY NoRequestType DEF RequestType
      <4>3. PICK t \in Int : t = LineTotal
        BY <4>1
      <4>4. PICK n : n = [op |-> "pay", locked |-> TRUE, total |-> t, plan |-> none, missing |-> {}]
        OBVIOUS
      <4>5. n \in RequestType
        BY <4>2, <4>4 DEF RequestType
      <4>6. n.missing = {} /\ n.locked
        BY <4>4
      <4> QED
        BY <4>2, <4>3, <4>4, <4>5, <4>6
    <3>2. req' = [req EXCEPT ![r] = n] /\ bill.st = "open" /\ LockFree
      BY <2>2, <3>1 DEF PayLock
    <3> QED
      BY <3>1, <3>2
  <2> QED
    BY <2>1, <2>2
<1>2. UNCHANGED <<weight, extras, bill, share, tender, atCounter, session>>
  BY DEF ViewRead, PayLock
<1>3. /\ req' \in [Requests -> RequestType]
      /\ \A q \in Requests : req'[q].missing \subseteq DOMAIN req'[q].plan
      /\ \A q \in Requests : req'[q].op = "pay" => req'[q].locked
      /\ \A q \in Requests : req'[q] = IF q = r THEN new ELSE req[q]
  BY <1>1, OneRequest DEF ShareInv
<1>4. ShareTypes'
  BY <1>2, <1>3 DEF ShareInv, ShareTypes
<1>5. Charges'
  BY <1>2 DEF ShareInv, Charges
<1>6. Locks'
  <2>1. \A q \in Requests : req'[q].locked => bill.st = "open"
    BY <1>1, <1>3 DEF ShareInv, Locks
  <2>2. \A p, q \in Requests : req'[p].locked /\ req'[q].locked => p = q
    BY <1>1, <1>3 DEF ShareInv, Locks, LockFree
  <2> QED
    BY <1>2, <1>3, <2>1, <2>2 DEF Locks
<1> QED
  BY <1>4, <1>5, <1>6 DEF ShareInv

\* A view's plan is written, or a request is refused.
LEMMA ViewWriteInv ==
  ASSUME ShareInv, NEW r \in Requests, ViewWrite(r)
  PROVE  ShareInv'
<1>1. PICK q \in RequestType : q = req[r] /\ q.missing \subseteq DOMAIN q.plan
  BY DEF ShareInv, ShareTypes
<1>2. q.plan \in UNION {[S -> Int] : S \in SUBSET Guests} /\ q.total \in Int
  BY DEF RequestType
<1>3. /\ share' = Synced(q.plan, q.missing) /\ q.missing \in SUBSET With("none")
      /\ bill' = IF bill.st = "none" THEN [st |-> "open", total |-> q.total]
                 ELSE IF q.locked THEN [bill EXCEPT !.total = q.total] ELSE bill
      /\ End(r) /\ UNCHANGED <<weight, extras, tender, atCounter, session>>
  BY <1>1 DEF ViewWrite
<1>4. /\ share' \in [Guests -> [st : {"none", "outstanding", "paid"}, amt : Int]]
      /\ \A g \in Guests : share[g].st = "paid" => share'[g].st = "paid"
  BY <1>1, <1>2, <1>3, SyncedShares DEF ShareInv
<1>5. bill' \in [st : {"none", "open", "finalized"}, total : Int]
      /\ bill'.st = IF bill.st = "none" THEN "open" ELSE bill.st
  <2>1. bill \in [st : {"none", "open", "finalized"}, total : Int]
    BY DEF ShareInv, ShareTypes
  <2>2. PICK t \in Int : t = q.total
    BY <1>2
  <2>3. CASE bill.st = "none"
    <3>1. bill' = [st |-> "open", total |-> t]
      BY <1>3, <2>2, <2>3
    <3> QED
      BY <2>3, <3>1
  <2>4. CASE bill.st # "none" /\ q.locked
    <3>1. bill' = [bill EXCEPT !.total = t]
      BY <1>3, <2>2, <2>4
    <3> QED
      BY <2>1, <2>4, <3>1
  <2>5. CASE bill.st # "none" /\ ~ q.locked
    <3>1. bill' = bill
      BY <1>3, <2>5
    <3> QED
      BY <2>1, <2>5, <3>1
  <2> QED
    BY <2>3, <2>4, <2>5
<1>6. \A p \in Requests : p # r /\ req[p].locked => bill'.st = "open"
  BY <1>5 DEF ShareInv, Locks
<1>7. /\ Locks'
      /\ req' \in [Requests -> RequestType]
      /\ \A p \in Requests : req'[p].missing \subseteq DOMAIN req'[p].plan
  BY <1>3, <1>6, EndLocks DEF ShareInv
<1>8. ShareTypes'
  BY <1>3, <1>4, <1>5, <1>7 DEF ShareInv, ShareTypes
<1>9. Charges'
  <2>1. tender' = tender
    BY <1>3
  <2>2. \A g \in Guests : Len(tender[g]) <= 1 /\ (tender[g] # << >> => share'[g].st = "paid")
    BY <1>4 DEF ShareInv, Charges
  <2>3. tender["all"] # << >> => bill'.st = "finalized" /\ \A g \in Guests : tender[g] = << >>
    BY <1>5 DEF ShareInv, Charges
  <2> QED
    BY <2>1, <2>2, <2>3 DEF ShareInv, Charges
<1> QED
  BY <1>7, <1>8, <1>9 DEF ShareInv

\* A refused request leaves everything else as it was.
LEMMA RefuseInv ==
  ASSUME ShareInv, NEW r \in Requests, Refuse(r)
  PROVE  ShareInv'
<1>1. End(r) /\ UNCHANGED <<weight, extras, bill, share, tender, atCounter, session>>
  BY DEF Refuse
<1>2. \A p \in Requests : p # r /\ req[p].locked => bill'.st = "open"
  BY <1>1 DEF ShareInv, Locks
<1>3. /\ Locks'
      /\ req' \in [Requests -> RequestType]
      /\ \A p \in Requests : req'[p].missing \subseteq DOMAIN req'[p].plan
  BY <1>1, <1>2, EndLocks DEF ShareInv
<1>4. ShareTypes'
  BY <1>1, <1>3 DEF ShareInv, ShareTypes
<1>5. Charges'
  BY <1>1 DEF ShareInv, Charges
<1> QED
  BY <1>3, <1>4, <1>5 DEF ShareInv

\* What staff do: read the bill, add or take off dishes, settle it, end the session.
LEMMA StaffInv ==
  ASSUME ShareInv, StaffRefresh \/ AddDish \/ FinalizeAtCounter \/ EndSession \/ \E g \in Guests : RemoveDish(g)
  PROVE  ShareInv'
<1>1. UNCHANGED <<share, tender, req>>
  BY DEF StaffRefresh, AddDish, FinalizeAtCounter, EndSession, RemoveDish
<1>2. LineTotal \in Int /\ Taken \in Int
  BY AmountsAreIntegers DEF ShareInv
<1>3. bill' \in [st : {"none", "open", "finalized"}, total : Int]
      /\ (bill'.st = bill.st \/ (LockFree /\ bill.st = "open" /\ bill'.st = "finalized"))
  <2>1. bill \in [st : {"none", "open", "finalized"}, total : Int]
    BY DEF ShareInv, ShareTypes
  <2>2. PICK t \in Int : t = LineTotal
    BY <1>2
  <2>3. CASE StaffRefresh
    <3>1. bill' = [bill EXCEPT !.total = t]
      BY <2>2, <2>3 DEF StaffRefresh
    <3>2. bill' \in [st : {"none", "open", "finalized"}, total : Int] /\ bill'.st = bill.st
      BY <2>1, <3>1
    <3> QED
      BY <3>2
  <2>4. CASE FinalizeAtCounter
    <3>1. bill' = [st |-> "finalized", total |-> t] /\ LockFree /\ bill.st = "open"
      BY <2>2, <2>4 DEF FinalizeAtCounter
    <3> QED
      BY <3>1
  <2>5. CASE bill' = bill
    <3>1. bill' \in [st : {"none", "open", "finalized"}, total : Int] /\ bill'.st = bill.st
      BY <2>1, <2>5
    <3> QED
      BY <3>1
  <2> QED
    BY <2>3, <2>4, <2>5 DEF AddDish, EndSession, RemoveDish
<1>4. weight' \in [Guests -> Nat] /\ extras' \in Nat /\ atCounter' \in Int /\ session' \in BOOLEAN
  <2>1. weight \in [Guests -> Nat] /\ extras \in Nat /\ atCounter \in Int /\ session \in BOOLEAN
    BY DEF ShareInv, ShareTypes
  <2>2. CASE FinalizeAtCounter
    BY <1>2, <2>1, <2>2 DEF FinalizeAtCounter
  <2>3. CASE StaffRefresh \/ AddDish
    BY <2>1, <2>3 DEF StaffRefresh, AddDish
  <2>4. CASE EndSession
    BY <2>1, <2>4 DEF EndSession
  <2>5. CASE \E g \in Guests : RemoveDish(g)
    BY <2>1, <2>5 DEF RemoveDish
  <2> QED
    BY <2>2, <2>3, <2>4, <2>5
<1>5. ShareTypes'
  BY <1>1, <1>3, <1>4 DEF ShareInv, ShareTypes
<1>6. Charges'
  BY <1>1, <1>3 DEF ShareInv, Charges
<1>7. Locks'
  BY <1>1, <1>3 DEF ShareInv, Locks, LockFree
<1> QED
  BY <1>5, <1>6, <1>7 DEF ShareInv

\* What a payment for all or for one share starts from.
LEMMA PayStarts ==
  ASSUME ShareInv, NEW r \in Requests, req[r].op = "pay"
  PROVE  /\ bill.st = "open" /\ tender["all"] = << >>
         /\ \A q \in Requests : q # r => ~ req[q].locked
         /\ req[r].total \in Int
         /\ Outstanding \in SUBSET Guests /\ Missing \in SUBSET Outstanding /\ Missing \in SUBSET With("none")
         /\ SharePlan(req[r].total) \in [Outstanding -> Int]
         /\ SharePlan(req[r].total) \in UNION {[S -> Int] : S \in SUBSET Guests}
<1>1. bill.st = "open" /\ \A q \in Requests : q # r => ~ req[q].locked
  BY DEF ShareInv, Locks
<1>2. tender["all"] = << >>
  BY <1>1 DEF ShareInv, Charges
<1>3. req[r].total \in Int
  BY DEF ShareInv, ShareTypes, RequestType
<1>4. Outstanding \in SUBSET Guests /\ Missing \in SUBSET Outstanding /\ SharePlan(req[r].total) \in [Outstanding -> Int]
  BY <1>3, PlansAreForGuests DEF ShareInv
<1>5. Missing \in SUBSET With("none")
  BY DEF Missing
<1> QED
  BY <1>1, <1>2, <1>3, <1>4, <1>5

\* What the shares are once a plan made in the same step is written.
LEMMA PlanWritten ==
  ASSUME ShareInv, NEW r \in Requests, req[r].op = "pay"
  PROVE  LET s == Synced(SharePlan(req[r].total), Missing)
         IN  /\ s \in [Guests -> [st : {"none", "outstanding", "paid"}, amt : Int]]
             /\ \A g \in Guests : s[g].st = IF g \in Outstanding THEN "outstanding" ELSE share[g].st
             /\ \A g \in Outstanding : s[g].amt = SharePlan(req[r].total)[g]
             /\ \A g \in Guests \ Outstanding : s[g] = share[g]
<1>1. PICK plan : plan = SharePlan(req[r].total)
  OBVIOUS
<1>2. /\ Outstanding \in SUBSET Guests /\ Missing \in SUBSET Outstanding /\ Missing \in SUBSET With("none")
      /\ plan \in [Outstanding -> Int] /\ plan \in UNION {[S -> Int] : S \in SUBSET Guests}
  BY <1>1, PayStarts
<1>3. DOMAIN plan = Outstanding /\ Missing \subseteq DOMAIN plan
  BY <1>2
<1>4. /\ Synced(plan, Missing) \in [Guests -> [st : {"none", "outstanding", "paid"}, amt : Int]]
      /\ \A g \in Guests : Synced(plan, Missing)[g].st = IF g \in Missing THEN "outstanding" ELSE share[g].st
      /\ \A g \in DOMAIN plan : Synced(plan, Missing)[g].amt = plan[g]
      /\ \A g \in Guests \ DOMAIN plan : Synced(plan, Missing)[g] = share[g]
  BY <1>2, <1>3, SyncedShares DEF ShareInv
<1>5. \A g \in Outstanding : g \in Missing \/ share[g].st = "outstanding"
  BY DEF Outstanding, With
<1>6. \A g \in Guests : Synced(plan, Missing)[g].st = IF g \in Outstanding THEN "outstanding" ELSE share[g].st
  BY <1>2, <1>4, <1>5
<1> QED
  BY <1>1, <1>3, <1>4, <1>6

\* One guest's share is paid.
LEMMA PayShareInv ==
  ASSUME ShareInv, NEW r \in Requests, NEW g \in Guests, payShare(r, g)
  PROVE  ShareInv'
<1>1. PICK total \in Int, s \in [Guests -> [st : {"none", "outstanding", "paid"}, amt : Int]] :
        /\ total = req[r].total /\ s = Synced(SharePlan(total), Missing)
        /\ \A h \in Guests : s[h].st = IF h \in Outstanding THEN "outstanding" ELSE share[h].st
  <2>1. req[r].op = "pay"
    BY DEF payShare
  <2>2. req[r].total \in Int
    BY <2>1, PayStarts
  <2>3. LET s == Synced(SharePlan(req[r].total), Missing)
         IN  /\ s \in [Guests -> [st : {"none", "outstanding", "paid"}, amt : Int]]
             /\ \A h \in Guests : s[h].st = IF h \in Outstanding THEN "outstanding" ELSE share[h].st
    BY <2>1, PlanWritten
  <2> QED
    BY <2>2, <2>3
<1>2. PICK marked : marked = [s EXCEPT ![g].st = "paid"]
  OBVIOUS
<1>3. /\ req[r].op = "pay" /\ g \in Outstanding
      /\ share' = marked /\ tender' = [tender EXCEPT ![g] = Append(@, marked[g].amt)]
      /\ \/ bill' = [bill EXCEPT !.total = total] /\ session' = session
         \/ Complete(total, Taken + marked[g].amt)
      /\ End(r) /\ UNCHANGED <<weight, extras, atCounter>>
  BY <1>1, <1>2 DEF payShare, Payable
<1>4. /\ bill.st = "open" /\ tender["all"] = << >>
      /\ \A q \in Requests : q # r => ~ req[q].locked
  BY <1>3, PayStarts
<1>5. /\ marked \in [Guests -> [st : {"none", "outstanding", "paid"}, amt : Int]]
      /\ marked[g].st = "paid" /\ \A h \in Guests : h # g => marked[h] = s[h]
  BY <1>2
<1>6. /\ tender' \in [Guests \cup {"all"} -> Seq(Int)]
      /\ tender'[g] = Append(tender[g], marked[g].amt)
      /\ \A h \in Guests \cup {"all"} : h # g => tender'[h] = tender[h]
  <2>1. PICK x \in Int : x = marked[g].amt
    BY <1>5
  <2>2. tender \in [Guests \cup {"all"} -> Seq(Int)]
    BY DEF ShareInv, ShareTypes
  <2>3. tender' = [tender EXCEPT ![g] = Append(tender[g], x)]
    BY <1>3, <2>1
  <2>4. Append(tender[g], x) \in Seq(Int)
    BY <2>2
  <2> QED
    BY <2>1, <2>2, <2>3, <2>4
<1>7. bill' \in [st : {"none", "open", "finalized"}, total : Int] /\ session' \in BOOLEAN
  <2>1. bill \in [st : {"none", "open", "finalized"}, total : Int] /\ session \in BOOLEAN
    BY DEF ShareInv, ShareTypes
  <2>2. CASE bill' = [bill EXCEPT !.total = total] /\ session' = session
    <3>1. bill' \in [st : {"none", "open", "finalized"}, total : Int]
      BY <2>1, <2>2
    <3> QED
      BY <2>1, <2>2, <3>1
  <2>3. CASE Complete(total, Taken + marked[g].amt)
    <3>1. bill' = [st |-> "finalized", total |-> total] /\ session' = FALSE
      BY <2>3 DEF Complete
    <3>2. bill' \in [st : {"none", "open", "finalized"}, total : Int]
      BY <3>1
    <3> QED
      BY <3>1, <3>2
  <2> QED
    BY <1>3, <2>2, <2>3
<1>8. /\ Locks'
      /\ req' \in [Requests -> RequestType]
      /\ \A p \in Requests : req'[p].missing \subseteq DOMAIN req'[p].plan
  BY <1>3, <1>4, EndLocks DEF ShareInv
<1>9. ShareTypes'
  BY <1>3, <1>5, <1>6, <1>7, <1>8 DEF ShareInv, ShareTypes
<1>10. Charges'
  <2>1. tender[g] = << >>
    BY <1>3 DEF ShareInv, Charges, Outstanding, Missing, With
  <2>2. Len(tender'[g]) = 1 /\ share'[g].st = "paid"
    BY <1>3, <1>5, <1>6, <2>1
  <2>3. \A h \in Guests : h # g => tender'[h] = tender[h] /\ share'[h] = s[h]
    BY <1>3, <1>5, <1>6
  <2>4. \A h \in Guests : share[h].st = "paid" => s[h].st = "paid"
    BY <1>1 DEF Outstanding, Missing, With
  <2>5. \A h \in Guests : Len(tender'[h]) <= 1 /\ (tender'[h] # << >> => share'[h].st = "paid")
    <3> TAKE h \in Guests
    <3>1. Len(tender[h]) <= 1 /\ (tender[h] # << >> => share[h].st = "paid")
      BY DEF ShareInv, Charges
    <3>2. CASE h = g
      <4>1. Len(tender'[g]) <= 1 /\ (tender'[g] # << >> => share'[g].st = "paid")
        BY <2>2
      <4> QED
        BY <3>2, <4>1
    <3>3. CASE h # g
      BY <2>3, <2>4, <3>1, <3>3
    <3> QED
      BY <3>2, <3>3
  <2>6. tender'["all"] = << >>
    BY <1>4, <1>6, GuestSharesAssumption
  <2> QED
    BY <2>5, <2>6 DEF Charges
<1> QED
  BY <1>8, <1>9, <1>10 DEF ShareInv

\* One guest pays for the whole table.
LEMMA PayAllInv ==
  ASSUME ShareInv, NEW r \in Requests, payAll(r)
  PROVE  ShareInv'
<1>1. PICK total \in Int, s \in [Guests -> [st : {"none", "outstanding", "paid"}, amt : Int]] :
        total = req[r].total /\ s = Synced(SharePlan(total), Missing)
  <2>1. req[r].op = "pay"
    BY DEF payAll
  <2>2. req[r].total \in Int
    BY <2>1, PayStarts
  <2>3. LET s == Synced(SharePlan(req[r].total), Missing)
         IN  s \in [Guests -> [st : {"none", "outstanding", "paid"}, amt : Int]]
    BY <2>1, PlanWritten
  <2> QED
    BY <2>2, <2>3
<1>2. /\ req[r].op = "pay" /\ With("paid") = {}
      /\ share' = [g \in Guests |-> [s[g] EXCEPT !.st = IF g \in Outstanding THEN "paid" ELSE "none"]]
      /\ tender' = [tender EXCEPT !["all"] = Append(@, total)]
      /\ Complete(total, Taken + total)
      /\ End(r) /\ UNCHANGED <<weight, extras, atCounter>>
  BY <1>1 DEF payAll
<1>3. /\ bill.st = "open" /\ tender["all"] = << >>
      /\ \A q \in Requests : q # r => ~ req[q].locked
  BY <1>2, PayStarts
<1>4. share' \in [Guests -> [st : {"none", "outstanding", "paid"}, amt : Int]]
  BY <1>2
<1>5. /\ tender' \in [Guests \cup {"all"} -> Seq(Int)]
      /\ tender'["all"] = Append(tender["all"], total)
      /\ \A h \in Guests \cup {"all"} : h # "all" => tender'[h] = tender[h]
  <2>1. tender \in [Guests \cup {"all"} -> Seq(Int)]
    BY DEF ShareInv, ShareTypes
  <2>2. tender' = [tender EXCEPT !["all"] = Append(tender["all"], total)]
    BY <1>2
  <2>3. Append(tender["all"], total) \in Seq(Int)
    BY <2>1
  <2> QED
    BY <2>1, <2>2, <2>3
<1>6. bill' = [st |-> "finalized", total |-> total] /\ session' = FALSE
  BY <1>2 DEF Complete
<1>7. bill' \in [st : {"none", "open", "finalized"}, total : Int] /\ bill'.st = "finalized"
  BY <1>6
<1>8. /\ Locks'
      /\ req' \in [Requests -> RequestType]
      /\ \A p \in Requests : req'[p].missing \subseteq DOMAIN req'[p].plan
  BY <1>2, <1>3, EndLocks DEF ShareInv
<1>9. ShareTypes'
  <2>1. session' \in BOOLEAN
    BY <1>6
  <2> QED
    BY <1>2, <1>4, <1>5, <1>7, <1>8, <2>1 DEF ShareInv, ShareTypes
<1>10. Charges'
  <2>1. \A g \in Guests : tender[g] = << >>
    BY <1>2 DEF ShareInv, Charges, With
  <2>2. \A g \in Guests : tender'[g] = << >>
    BY <1>5, <2>1, GuestSharesAssumption
  <2>3. Len(tender'["all"]) = 1
    BY <1>3, <1>5
  <2> QED
    BY <1>7, <2>2, <2>3 DEF Charges
<1> QED
  BY <1>8, <1>9, <1>10 DEF ShareInv

\* The tenders, the shares and the locks hang together, and every variable has
\* its type, in every reachable state.
THEOREM SharesInvariance == ShareSpec => []ShareInv
<1>1. ShareInit => ShareInv
  <2> SUFFICES ASSUME ShareInit PROVE ShareInv
    OBVIOUS
  <2>1. req \in [Requests -> RequestType] /\ \A r \in Requests : req[r] = NoRequest
    BY NoRequestType DEF ShareInit
  <2>2. share \in [Guests -> [st : {"none", "outstanding", "paid"}, amt : Int]]
    BY DEF ShareInit, NoShare
  <2>3. ShareTypes
    BY <2>1, <2>2, GuestSharesAssumption, NoRequestType DEF ShareInit, ShareTypes
  <2>4. Charges
    BY DEF ShareInit, Charges
  <2>5. Locks
    BY <2>1, NoRequestType DEF Locks
  <2> QED
    BY <2>3, <2>4, <2>5 DEF ShareInv
<1>2. ShareInv /\ [ShareNext]_shareVars => ShareInv'
  <2> SUFFICES ASSUME ShareInv, [ShareNext]_shareVars PROVE ShareInv'
    OBVIOUS
  <2>1. ASSUME NEW r \in Requests, ViewRead(r) \/ PayLock(r) PROVE ShareInv'
    BY <2>1, RequestStarts
  <2>2. ASSUME NEW r \in Requests, ViewWrite(r) PROVE ShareInv'
    BY <2>2, ViewWriteInv
  <2>3. ASSUME NEW r \in Requests, Refuse(r) PROVE ShareInv'
    BY <2>3, RefuseInv
  <2>4. ASSUME NEW r \in Requests, payAll(r) PROVE ShareInv'
    BY <2>4, PayAllInv
  <2>5. ASSUME NEW r \in Requests, NEW g \in Guests, payShare(r, g) PROVE ShareInv'
    BY <2>5, PayShareInv
  <2>6. CASE StaffRefresh \/ AddDish \/ FinalizeAtCounter \/ EndSession \/ \E g \in Guests : RemoveDish(g)
    BY <2>6, StaffInv
  <2>7. CASE UNCHANGED shareVars
    BY <2>7 DEF shareVars, ShareInv, ShareTypes, Charges, Locks
  <2> QED
    BY <2>1, <2>2, <2>3, <2>4, <2>5, <2>6, <2>7 DEF ShareNext
<1> QED
  BY <1>1, <1>2, PTL DEF ShareSpec

\* Double taps, a guest paying for another, one paying for all: for any number of
\* guests and requests nobody is charged for a share twice, and nobody's share
\* once somebody paid for the whole table (payShare, payAll).
THEOREM SharesChargedOnce == ShareSpec => []ChargedOnce
<1>1. ShareInv => ChargedOnce
  BY DEF ShareInv, ShareTypes, Charges, ChargedOnce
<1> QED
  BY <1>1, SharesInvariance, PTL

\* Whatever is due and whoever still has to pay, a plan makes exactly the amount
\* due and nobody is off their proportion by as much as one unit per guest
\* (syncShares).
THEOREM SplitIsFair == ShareSpec => []PlanIsFair
<1>1. ASSUME ShareInv PROVE PlanIsFair
  <2> SUFFICES ASSUME Outstanding # {}
               PROVE  LET due == LineTotal - PaidMinor  plan == SharePlan(LineTotal)  W == SumOf(weight, Outstanding) IN
                      /\ SumOf(plan, Outstanding) = due
                      /\ W > 0 => \A g \in Outstanding :
                           LET off == plan[g] * W - due * weight[g] IN
                           off < Cardinality(Outstanding) * W /\ -off < W
    BY DEF PlanIsFair
  <2>1. PICK due \in Int : due = LineTotal - PaidMinor
    BY <1>1, AmountsAreIntegers DEF ShareInv
  <2>2. SharePlan(LineTotal) = SplitDue(due, Outstanding)
    BY <2>1 DEF SharePlan
  <2>3. weight \in [Guests -> Nat] /\ Outstanding \in SUBSET Guests
    BY <1>1 DEF ShareInv, ShareTypes, Outstanding, Missing, With
  <2>4. SumOf(SplitDue(due, Outstanding), Outstanding) = due
    BY <2>3, SplitAddsUp
  <2>5. SumOf(weight, Outstanding) \in Nat
    BY <2>1, <2>3, SplitParts DEF SplitsAs
  <2>6. ASSUME SumOf(weight, Outstanding) > 0, NEW g \in Outstanding
        PROVE  LET off == SplitDue(due, Outstanding)[g] * SumOf(weight, Outstanding) - due * weight[g]
               IN  off < Cardinality(Outstanding) * SumOf(weight, Outstanding) /\ -off < SumOf(weight, Outstanding)
    <3>1. PICK W \in Nat \ {0} : W = SumOf(weight, Outstanding)
      BY <2>5, <2>6
    <3>2. LET off == SplitDue(due, Outstanding)[g] * W - due * weight[g]
          IN  off < Cardinality(Outstanding) * W /\ -off < W
      BY <2>3, <2>6, <3>1, SplitFair
    <3> QED
      BY <3>1, <3>2
  <2> QED
    BY <2>1, <2>2, <2>4, <2>6
<1> QED
  BY <1>1, SharesInvariance, PTL

\* One more tender adds its amount to what was taken.
LEMMA TakenGrows ==
  ASSUME ShareTypes, NEW k \in Guests \cup {"all"}, NEW x \in Int,
         tender' = [tender EXCEPT ![k] = Append(tender[k], x)], atCounter' = atCounter
  PROVE  Taken' = Taken + x
<1>1. PICK D : D = Guests \cup {"all"}
  OBVIOUS
<1>2. IsFiniteSet(D) /\ D \in SUBSET D /\ k \in D
  BY <1>1, GuestsFinite, FS_AddElement
<1>3. tender \in [D -> Seq(Int)] /\ DOMAIN tender = D
  BY <1>1 DEF ShareTypes
<1>4. tender' \in [D -> Seq(Int)] /\ DOMAIN tender' = D
      /\ tender'[k] = Append(tender[k], x) /\ \A h \in D : h # k => tender'[h] = tender[h]
  <2>1. Append(tender[k], x) \in Seq(Int)
    BY <1>2, <1>3
  <2> QED
    BY <1>2, <1>3, <2>1
<1>5. PICK t \in [D -> Int] : t = Tendered
  BY <1>1, AmountsAreIntegers
<1>6. PICK n \in Nat : n = Len(tender[k]) /\ DOMAIN tender[k] = 1..n /\ \A i \in 1..n : tender[k][i] \in Int
  BY <1>2, <1>3
<1>7. /\ DOMAIN Append(tender[k], x) = (1..n) \cup {n + 1} /\ n + 1 \notin 1..n
      /\ Append(tender[k], x)[n + 1] = x
      /\ \A i \in 1..n : Append(tender[k], x)[i] = tender[k][i]
  <2>1. tender[k] \in Seq(Int)
    BY <1>2, <1>3
  <2>2. DOMAIN Append(tender[k], x) = 1..(n + 1)
    BY <1>6, <2>1
  <2>3. 1..(n + 1) = (1..n) \cup {n + 1}
    OBVIOUS
  <2> QED
    BY <1>6, <2>1, <2>2, <2>3
<1>8. PICK a : a = Append(tender[k], x)
  OBVIOUS
<1>9. SumOf(a, DOMAIN a) = x + t[k]
  <2>1. IsFiniteSet(1..n)
    BY FS_Interval
  <2>2. \A i \in (1..n) \cup {n + 1} : a[i] \in Int
    BY <1>6, <1>7, <1>8
  <2>3. SumFunctionOnSet(a, (1..n) \cup {n + 1}) = a[n + 1] + SumFunctionOnSet(a, 1..n)
    BY <1>7, <2>1, <2>2, SumAdd
  <2>4. SumFunctionOnSet(a, 1..n) = SumFunctionOnSet(tender[k], 1..n)
    BY <1>7, <1>8, <2>1, SumSame
  <2>5. t[k] = SumFunctionOnSet(tender[k], 1..n)
    BY <1>2, <1>3, <1>5, <1>6 DEF Tendered, SumOf
  <2> QED
    BY <1>7, <1>8, <2>3, <2>4, <2>5 DEF SumOf
<1>10. PICK u : u = [g \in D |-> SumOf(tender'[g], DOMAIN tender'[g])]
  OBVIOUS
<1>11. Tendered' = u
  BY <1>4, <1>10 DEF Tendered
<1>12. u[k] = x + t[k]
  BY <1>2, <1>4, <1>8, <1>9, <1>10
<1>13. \A h \in D \ {k} : u[h] = t[h]
  BY <1>3, <1>4, <1>5, <1>10 DEF Tendered
<1>14. \A h \in D : u[h] \in Int /\ t[h] \in Int
  BY <1>2, <1>12, <1>13
<1>15. SumFunctionOnSet(u, D) = u[k] + SumFunctionOnSet(u, D \ {k})
  BY SMTT(40), <1>2, <1>14, SumTakes
<1>16. SumFunctionOnSet(t, D) = t[k] + SumFunctionOnSet(t, D \ {k}) /\ SumFunctionOnSet(t, D \ {k}) \in Int
  <2>1. D \ {k} \in SUBSET D
    OBVIOUS
  <2> QED
    BY <1>2, <1>14, <2>1, SumTakes
<1>17. SumFunctionOnSet(u, D \ {k}) = SumFunctionOnSet(t, D \ {k})
  <2>1. IsFiniteSet(D \ {k})
    BY <1>2, FS_Subset
  <2> QED
    BY <1>13, <2>1, SumSame
<1>18. PICK b \in Int, c \in Int, e \in Int : b = SumFunctionOnSet(t, D \ {k}) /\ c = atCounter /\ e = t[k]
  BY <1>2, <1>14, <1>16 DEF ShareTypes
<1>19. Taken = c + (e + b)
  BY <1>3, <1>5, <1>16, <1>18 DEF Taken, SumOf
<1>20. Taken' = c + ((x + e) + b)
  BY <1>4, <1>11, <1>12, <1>15, <1>17, <1>18 DEF Taken, SumOf
<1> QED
  BY <1>19, <1>20

\* When the shares of `more' are paid with the amounts of a plan, what the paid
\* shares come to grows by what the plan comes to.
LEMMA PaidGrows ==
  ASSUME ShareTypes, NEW more \in SUBSET Guests, NEW plan \in [more -> Int],
         With("paid") \cap more = {},
         With("paid")' = With("paid") \cup more,
         \A g \in With("paid") : share'[g].amt = share[g].amt,
         \A g \in more : share'[g].amt = plan[g],
         share' \in [Guests -> [st : {"none", "outstanding", "paid"}, amt : Int]]
  PROVE  PaidMinor' = PaidMinor + SumOf(plan, more)
<1>1. PICK a \in [Guests -> Int], b \in [Guests -> Int], P \in SUBSET Guests :
        a = [g \in Guests |-> share[g].amt] /\ b = [g \in Guests |-> share'[g].amt] /\ P = With("paid")
  BY DEF ShareTypes, With
<1>2. P \in SUBSET Guests /\ P \cap more = {} /\ IsFiniteSet(Guests) /\ IsFiniteSet(P)
  BY <1>1, GuestsFinite, FS_Subset DEF With
<1>3. PaidMinor = SumFunctionOnSet(a, P) /\ SumFunctionOnSet(a, P) \in Int
  <2>1. \A g \in Guests : a[g] \in Int
    OBVIOUS
  <2> QED
    BY <1>1, <1>2, <2>1, SumIntegers DEF PaidMinor, SumOf
<1>4. PaidMinor' = SumFunctionOnSet(b, P \cup more)
  BY <1>1 DEF PaidMinor, SumOf
<1>5. SumFunctionOnSet(a, P) = SumFunctionOnSet(b, P)
  <2>1. \A g \in P : a[g] = b[g]
    BY <1>1, <1>2
  <2> QED
    BY <1>2, <2>1, SumSame
<1>6. \A g \in more : b[g] = plan[g] /\ b[g] \in Int
  BY <1>1
<1>7. IsFiniteSet(more) /\ \A y \in Guests : b[y] \in Int
  BY <1>2, FS_Subset
<1>8. SumFunctionOnSet(b, P \cup more) = SumFunctionOnSet(b, P) + SumFunctionOnSet(b, more)
  BY <1>2, <1>7, SumUnion
<1>9. SumFunctionOnSet(b, more) = SumFunctionOnSet(plan, more)
  BY <1>6, <1>7, SumSame
<1> QED
  BY <1>3, <1>4, <1>5, <1>8, <1>9 DEF SumOf

\* A plan that is not refused as changed comes to what is due, also when nobody
\* is left to pay (syncShares).
LEMMA PlanComesToDue ==
  ASSUME ShareInv, NEW total \in Int, ~ BillChanged(total)
  PROVE  /\ PaidMinor \in Int
         /\ SumOf(SharePlan(total), Outstanding) = total - PaidMinor
<1>1. PICK due \in Int, p \in Int : p = PaidMinor /\ due = total - p
  BY AmountsAreIntegers DEF ShareInv
<1>2. CASE Outstanding = {}
  <2>1. SumOf(SharePlan(total), {}) = 0
    BY SumEmpty DEF SumOf
  <2>2. total = p
    BY <1>1, <1>2 DEF BillChanged
  <2> QED
    BY <1>1, <1>2, <2>1, <2>2
<1>3. CASE Outstanding # {}
  <2>1. weight \in [Guests -> Nat] /\ Outstanding \in SUBSET Guests
    BY DEF ShareInv, ShareTypes, Outstanding, Missing, With
  <2>2. SumOf(SplitDue(due, Outstanding), Outstanding) = due
    BY <1>3, <2>1, SplitAddsUp
  <2> QED
    BY <1>1, <2>2 DEF SharePlan
<1> QED
  BY <1>2, <1>3

\* The last share is paid.
LEMMA LastShareSettles ==
  ASSUME ShareInv, NEW r \in Requests, NEW g \in Guests, payShare(r, g), session # session'
  PROVE  Taken' = bill'.total /\ PaidMinor' = bill'.total
<1>0. req[r].op = "pay"
  BY DEF payShare
<1>1. PICK total \in Int, s \in [Guests -> [st : {"none", "outstanding", "paid"}, amt : Int]],
            plan \in {SharePlan(req[r].total)} :
        /\ total = req[r].total /\ plan = SharePlan(total) /\ s = Synced(plan, Missing)
        /\ \A h \in Guests : s[h].st = IF h \in Outstanding THEN "outstanding" ELSE share[h].st
        /\ \A h \in Outstanding : s[h].amt = plan[h]
        /\ \A h \in Guests \ Outstanding : s[h] = share[h]
  <2>2. req[r].total \in Int
    BY <1>0, PayStarts
  <2>3. LET s == Synced(SharePlan(req[r].total), Missing)
         IN  /\ s \in [Guests -> [st : {"none", "outstanding", "paid"}, amt : Int]]
             /\ \A h \in Guests : s[h].st = IF h \in Outstanding THEN "outstanding" ELSE share[h].st
             /\ \A h \in Outstanding : s[h].amt = SharePlan(req[r].total)[h]
             /\ \A h \in Guests \ Outstanding : s[h] = share[h]
    BY <1>0, PlanWritten
  <2> QED
    BY <2>2, <2>3
<1>2. PICK marked : marked = [s EXCEPT ![g].st = "paid"]
  OBVIOUS
<1>3. /\ g \in Outstanding /\ ~ BillChanged(total)
      /\ share' = marked /\ tender' = [tender EXCEPT ![g] = Append(@, marked[g].amt)]
      /\ atCounter' = atCounter
      /\ ~ \E h \in Guests : marked[h].st = "outstanding"
      /\ Complete(total, Taken + marked[g].amt)
  BY <1>1, <1>2 DEF payShare, Payable
<1>4. /\ marked \in [Guests -> [st : {"none", "outstanding", "paid"}, amt : Int]]
      /\ marked[g].st = "paid" /\ marked[g].amt = s[g].amt /\ \A h \in Guests : h # g => marked[h] = s[h]
  BY <1>2
<1>5. bill' = [st |-> "finalized", total |-> total] /\ Taken + marked[g].amt = total
  BY <1>3 DEF Complete, Settles
<1>6. Taken' = total
  <2>1. PICK x \in Int : x = marked[g].amt
    BY <1>4
  <2>2. tender' = [tender EXCEPT ![g] = Append(tender[g], x)]
    BY <1>3, <2>1
  <2>3. Taken' = Taken + x
    BY <1>3, <2>2, TakenGrows DEF ShareInv
  <2> QED
    BY <1>5, <2>1, <2>3
<1>7. Outstanding = {g} /\ Outstanding \in SUBSET Guests
  <2>1. Outstanding \in SUBSET Guests
    BY <1>0, PayStarts
  <2>2. \A h \in Outstanding : h = g
    BY <1>1, <1>3, <1>4, <2>1
  <2> QED
    BY <1>3, <2>1, <2>2
<1>8. plan \in [Outstanding -> Int]
  BY <1>0, <1>1, PayStarts
<1>9. With("paid") \cap Outstanding = {}
  BY DEF Outstanding, Missing, With
<1>10. With("paid")' = With("paid") \cup Outstanding
  <2>1. \A h \in Guests : share'[h].st = "paid" <=> (share[h].st = "paid" \/ h = g)
    BY <1>1, <1>3, <1>4, <1>7
  <2> QED
    BY <1>7, <2>1 DEF With
<1>11. \A h \in With("paid") : share'[h].amt = share[h].amt
  <2>1. \A h \in With("paid") : h \in Guests /\ h \notin Outstanding
    BY <1>9 DEF With
  <2> QED
    BY <1>1, <1>3, <1>4, <1>7, <2>1
<1>12. \A h \in Outstanding : share'[h].amt = plan[h]
  BY <1>1, <1>3, <1>4, <1>7
<1>13. PaidMinor' = PaidMinor + SumOf(plan, Outstanding)
  BY <1>3, <1>4, <1>7, <1>8, <1>9, <1>10, <1>11, <1>12, PaidGrows DEF ShareInv
<1>14. PaidMinor \in Int /\ SumOf(plan, Outstanding) = total - PaidMinor
  BY <1>1, <1>3, PlanComesToDue
<1>15. PaidMinor' = total
  BY <1>13, <1>14
<1> QED
  BY <1>5, <1>6, <1>15

\* One guest pays for all.
LEMMA PayAllSettles ==
  ASSUME ShareInv, NEW r \in Requests, payAll(r)
  PROVE  Taken' = bill'.total /\ PaidMinor' = bill'.total
<1>0. req[r].op = "pay"
  BY DEF payAll
<1>1. PICK total \in Int, s \in [Guests -> [st : {"none", "outstanding", "paid"}, amt : Int]],
            plan \in {SharePlan(req[r].total)} :
        /\ total = req[r].total /\ plan = SharePlan(total) /\ s = Synced(plan, Missing)
        /\ \A h \in Outstanding : s[h].amt = plan[h]
  <2>2. req[r].total \in Int
    BY <1>0, PayStarts
  <2>3. LET s == Synced(SharePlan(req[r].total), Missing)
         IN  /\ s \in [Guests -> [st : {"none", "outstanding", "paid"}, amt : Int]]
             /\ \A h \in Outstanding : s[h].amt = SharePlan(req[r].total)[h]
    BY <1>0, PlanWritten
  <2> QED
    BY <2>2, <2>3
<1>2. /\ With("paid") = {} /\ ~ BillChanged(total)
      /\ share' = [h \in Guests |-> [s[h] EXCEPT !.st = IF h \in Outstanding THEN "paid" ELSE "none"]]
      /\ tender' = [tender EXCEPT !["all"] = Append(tender["all"], total)]
      /\ atCounter' = atCounter
      /\ Complete(total, Taken + total)
  BY <1>1 DEF payAll
<1>3. bill' = [st |-> "finalized", total |-> total] /\ Taken + total = total
  BY <1>2 DEF Complete, Settles
<1>4. Taken' = total
  <2>1. Taken' = Taken + total
    BY <1>2, TakenGrows DEF ShareInv
  <2> QED
    BY <1>3, <2>1
<1>5. Outstanding \in SUBSET Guests /\ plan \in [Outstanding -> Int]
  BY <1>0, <1>1, PayStarts
<1>6. /\ share' \in [Guests -> [st : {"none", "outstanding", "paid"}, amt : Int]]
      /\ \A h \in Guests : share'[h].amt = s[h].amt /\ share'[h].st = IF h \in Outstanding THEN "paid" ELSE "none"
  BY <1>2
<1>7. With("paid")' = With("paid") \cup Outstanding
  BY <1>2, <1>5, <1>6 DEF With
<1>8. \A h \in Outstanding : share'[h].amt = plan[h]
  BY <1>1, <1>5, <1>6
<1>9. PaidMinor' = PaidMinor + SumOf(plan, Outstanding)
  <2>1. With("paid") \cap Outstanding = {} /\ \A h \in With("paid") : share'[h].amt = share[h].amt
    BY <1>2
  <2> QED
    BY <1>5, <1>6, <1>7, <1>8, <2>1, PaidGrows DEF ShareInv
<1>10. PaidMinor \in Int /\ SumOf(plan, Outstanding) = total - PaidMinor
  BY <1>1, <1>2, PlanComesToDue
<1>11. PaidMinor' = total
  BY <1>9, <1>10
<1> QED
  BY <1>3, <1>4, <1>11

\* When the guests settle a bill themselves, the shares, the tenders behind them
\* and the total agree, whatever dishes, views and rewritten shares came in
\* between and however many guests there are (syncShares, completeBill).
THEOREM SharesSettleExactly == ShareSpec => SettledBySharesExactly
<1>1. ASSUME ShareInv, [ShareNext]_shareVars
      PROVE  bill.st = "open" /\ bill'.st = "finalized" /\ session # session' =>
               Taken' = bill'.total /\ PaidMinor' = bill'.total
  <2> SUFFICES ASSUME bill.st = "open", bill'.st = "finalized", session # session'
               PROVE  Taken' = bill'.total /\ PaidMinor' = bill'.total
    OBVIOUS
  <2>1. ASSUME NEW r \in Requests, ViewRead(r) \/ PayLock(r) \/ ViewWrite(r) \/ Refuse(r) PROVE FALSE
    BY <2>1 DEF ViewRead, PayLock, ViewWrite, Refuse
  <2>2. ASSUME NEW r \in Requests, payAll(r) PROVE Taken' = bill'.total /\ PaidMinor' = bill'.total
    BY <1>1, <2>2, PayAllSettles
  <2>3. ASSUME NEW r \in Requests, NEW g \in Guests, payShare(r, g)
        PROVE  Taken' = bill'.total /\ PaidMinor' = bill'.total
    BY <1>1, <2>3, LastShareSettles
  <2>4. ASSUME StaffRefresh \/ AddDish \/ FinalizeAtCounter \/ \E g \in Guests : RemoveDish(g) PROVE FALSE
    BY <2>4 DEF StaffRefresh, AddDish, FinalizeAtCounter, RemoveDish
  <2>5. ASSUME EndSession PROVE FALSE
    BY <2>5 DEF EndSession
  <2>6. ASSUME UNCHANGED shareVars PROVE FALSE
    BY <2>6 DEF shareVars
  <2> QED
    BY <1>1, <2>1, <2>2, <2>3, <2>4, <2>5, <2>6 DEF ShareNext
<1>2. ShareInv /\ [ShareNext]_shareVars =>
        [bill.st = "open" /\ bill'.st = "finalized" /\ session # session' =>
           Taken' = bill'.total /\ PaidMinor' = bill'.total]_shareVars
  BY <1>1
<1> QED
  BY <1>2, SharesInvariance, PTL DEF ShareSpec, SettledBySharesExactly

-----------------------------------------------------------------------------
(* Dishes reaching the kitchen: lists and greatest elements *)

\* SetToSeq lists every element of a finite set once.
LEMMA ListedOnce ==
  ASSUME NEW S, IsFiniteSet(S)
  PROVE  /\ Cardinality(S) \in Nat
         /\ SetToSeq(S) \in [1..Cardinality(S) -> S]
         /\ \A i, j \in 1..Cardinality(S) : SetToSeq(S)[i] = SetToSeq(S)[j] => i = j
         /\ \A x \in S : \E i \in 1..Cardinality(S) : SetToSeq(S)[i] = x
<1>1. PICK n \in Nat : n = Cardinality(S) /\ ExistsBijection(1..n, S)
  BY FS_NatBijection, FS_CountingElements
<1>2. PICK b \in Bijection(1..n, S) : TRUE
  BY <1>1 DEF ExistsBijection
<1>3. b \in [1..n -> S] /\ \A i, j \in 1..n : b[i] = b[j] => i = j
  BY <1>2 DEF Bijection, Injection, IsInjective
<1>4. IsInjective(b)
  BY <1>3 DEF IsInjective
<1> DEFINE f == CHOOSE h \in [1..n -> S] : IsInjective(h)
<1>5. f \in [1..n -> S] /\ IsInjective(f)
  BY <1>3, <1>4
<1>6. SetToSeq(S) = f
  BY <1>1 DEF SetToSeq
<1> HIDE DEF f
<1>7. f \in Injection(1..n, S)
  BY <1>5 DEF Injection, IsInjective
<1>8. Cardinality(1..n) = n /\ IsFiniteSet(1..n)
  BY FS_Interval
<1>9. f \in Surjection(1..n, S)
  BY <1>1, <1>7, <1>8, FS_Injection
<1> QED
  BY <1>1, <1>5, <1>6, <1>9 DEF IsInjective, Surjection

\* The greatest of finitely many naturals is one of them.
LEMMA GreatestIsOne ==
  ASSUME NEW T \in SUBSET Nat, IsFiniteSet(T), T # {}
  PROVE  Max(T) \in T
<1> DEFINE G == {s \in SUBSET T : s = {} \/ \E n \in s : \A m \in s : n >= m}
<1>1. {} \in G
  OBVIOUS
<1>2. ASSUME NEW s \in SUBSET T, NEW x \in T, s \in G, x \notin s PROVE s \cup {x} \in G
  <2>1. CASE s = {}
    BY <2>1
  <2>2. CASE s # {}
    <3>1. PICK n \in s : \A m \in s : n >= m
      BY <1>2, <2>2
    <3>2. n \in Nat /\ x \in Nat /\ \A m \in s : m \in Nat
      OBVIOUS
    <3>3. CASE n >= x
      BY <3>1, <3>2, <3>3
    <3>4. CASE ~(n >= x)
      BY <3>1, <3>2, <3>4
    <3> QED
      BY <3>3, <3>4
  <2> QED
    BY <2>1, <2>2
<1> HIDE DEF G
<1>3. SUBSET T \subseteq G
  BY <1>1, <1>2, SubsetsAll
<1>4. \E n \in T : \A m \in T : n >= m
  BY <1>3 DEF G
<1> QED
  BY <1>4 DEF Max

\* The least of some naturals is one of them.
LEMMA LeastIsOne ==
  ASSUME NEW T \in SUBSET Nat, T # {}
  PROVE  Min(T) \in T
BY LeastNatural DEF Min

-----------------------------------------------------------------------------
(* Dishes reaching the kitchen: the invariant *)

Row == [line : Lines, batch : Nat, voided : BOOLEAN, seen : BOOLEAN]
Ticket == [station : Stations \cup {NoId}, st : {"queued", "bumped"}, lines : Seq(Row)]
Group == [station : Stations \cup {NoId}, to : Nat, batch : Nat, lines : SUBSET Lines]
Station == [st : {"none", "live", "deleted"}, outlet : {Home, Away}, name : Names \cup {NoId}]
Send == [op : {"none", "load", "again", "first", "fire", "pay"}, plan : SUBSET Group]

KitchenTypes ==
  /\ station \in [Stations -> Station] /\ route \in [Lines -> Stations \cup {NoId}]
  /\ edits \in Nat /\ state \in {"open", "sent", "closed"} /\ paid \in BOOLEAN
  /\ line \in [Lines -> {"absent", "live", "voided", "removed"}] /\ late \in SUBSET Lines
  /\ ticket \in Seq(Ticket) /\ \A i \in DOMAIN ticket : ticket[i].lines # << >>
  /\ send \in [Senders -> Send]

AtHome(s) == s # NoId => station[s].st # "none" /\ station[s].outlet = Home

(* What fireOnSend() read stays right until it writes: one group a station, *)
(* a line in one group only, and the ticket to join is that station's.      *)
PlanSound(plan) ==
  /\ plan \in SUBSET Group /\ IsFiniteSet(plan)
  /\ \A g \in plan : g.lines # {} /\ AtHome(g.station)
  /\ \A g \in plan : g.to # 0 => g.to \in DOMAIN ticket /\ ticket[g.to].station = g.station
  /\ \A g, h \in plan : g.station = h.station => g = h
  /\ \A g, h \in plan : g.lines \cap h.lines # {} => g = h

PlansSound == \A k \in Senders :
  PlanSound(send[k].plan) /\ (send[k].op \in {"none", "load", "again"} => send[k].plan = {})

TicketsAtHome == \A i \in DOMAIN ticket : AtHome(ticket[i].station)

(* The rows of a line and the sends about to write one are no more than the *)
(* slots: a line on a ticket is never read as unfired again.                *)
Pending(l) == {k \in Senders : \E g \in send[k].plan : l \in g.lines}
RowsBounded == \A l \in Lines :
  IsFiniteSet(TicketLines(l)) /\ Cardinality(TicketLines(l)) + Cardinality(Pending(l)) <= Cardinality(Senders)

(* A pick goes with its combo, and a row is struck out only with its line.  *)
PicksFollow == \A c, l \in Lines : Parent[c] = l /\ Parent[l] = NoId => line[c] = line[l]
StruckWithLine == \A p \in Rows :
  ticket[p[1]].lines[p[2]].voided => line[ticket[p[1]].lines[p[2]].line] = "voided"

(* What a finalize read as unfired, and what is on a ticket already, are all *)
(* the dishes there were when it began.                                     *)
Due(l) == line[l] = "live" /\ Picks(l) = {} /\ l \notin late
Covered(l, plan) == TicketLines(l) # {} \/ \E g \in plan : l \in g.lines
PaymentCovers ==
  /\ \A k \in Senders : send[k].op = "pay" => \A l \in Lines : Due(l) => Covered(l, send[k].plan)
  /\ paid => \A l \in Lines : Due(l) => TicketLines(l) # {}

KitchenInv ==
  /\ KitchenTypes /\ PlansSound /\ TicketsAtHome /\ RowsBounded
  /\ PicksFollow /\ StruckWithLine /\ PaymentCovers

\* What a row is.
LEMMA RowsAre ==
  /\ \A p \in Rows : p = <<p[1], p[2]>> /\ p[1] \in DOMAIN ticket /\ p[2] \in DOMAIN ticket[p[1]].lines
  /\ \A i \in DOMAIN ticket : \A j \in DOMAIN ticket[i].lines : <<i, j>> \in Rows
BY DEF Rows

\* A dish goes to a station of the order's outlet that is in use, or to none,
\* whatever its item is routed to (routeStationId).
LEMMA RoutedHome ==
  ASSUME KitchenTypes, NEW l \in Lines
  PROVE  routeStationId(l) = NoId \/ routeStationId(l) \in LiveAt(Home)
<1>1. LiveAt(Home) \in SUBSET Nat
  BY KitchenAssumption DEF LiveAt
<1>2. resolveDefaultStationId = NoId \/ resolveDefaultStationId \in LiveAt(Home)
  BY <1>1, LeastIsOne DEF resolveDefaultStationId
<1>3. PICK s : s = route[l]
  OBVIOUS
<1> DEFINE same == {r \in LiveAt(Home) : s # NoId /\ r # s /\ station[r].name = station[s].name}
<1>4. routeStationId(l) = CASE s = NoId -> resolveDefaultStationId
        [] s # NoId /\ s \in LiveAt(Home) -> s
        [] OTHER -> IF same = {} THEN resolveDefaultStationId ELSE CHOOSE r \in same : TRUE
  BY <1>3 DEF routeStationId
<1>5. same # {} => (CHOOSE r \in same : TRUE) \in same
  OBVIOUS
<1>6. \A r \in same : r \in LiveAt(Home)
  OBVIOUS
<1> HIDE DEF same
<1>7. CASE s = NoId
  BY <1>2, <1>4, <1>7
<1>8. CASE s # NoId /\ s \in LiveAt(Home)
  BY <1>4, <1>8
<1>9. CASE s # NoId /\ s \notin LiveAt(Home)
  BY <1>2, <1>4, <1>5, <1>6, <1>9
<1> QED
  BY <1>7, <1>8, <1>9

\* An add-on joins a ticket of the station, with a batch number.
LEMMA AddOnJoins ==
  ASSUME KitchenTypes, NEW s
  PROVE  /\ AddOnTo(s) \in Nat /\ Batch(AddOnTo(s)) \in Nat
         /\ AddOnTo(s) # 0 => AddOnTo(s) \in DOMAIN ticket /\ ticket[AddOnTo(s)].station = s
<1>1. ticket \in Seq(Ticket)
  BY DEF KitchenTypes
<1>2. DOMAIN ticket = 1..Len(ticket) /\ Len(ticket) \in Nat /\ IsFiniteSet(1..Len(ticket))
  BY <1>1, FS_Interval
<1> DEFINE there == {i \in DOMAIN ticket : ticket[i].station = s}
<1>3. there \in SUBSET Nat /\ IsFiniteSet(there)
  BY <1>2, FS_Subset
<1>4. there # {} => Max(there) \in there
  BY <1>3, GreatestIsOne
<1>5. AddOnTo(s) = 0 \/ (AddOnTo(s) = Max(there) /\ there # {})
  BY DEF AddOnTo
<1> HIDE DEF there
<1>6. AddOnTo(s) = 0 \/ AddOnTo(s) \in there
  BY <1>4, <1>5
<1>7. PICK i : i = AddOnTo(s)
  OBVIOUS
<1>8. i \in Nat /\ (i # 0 => i \in DOMAIN ticket /\ ticket[i].station = s)
  BY <1>2, <1>6, <1>7 DEF there
<1>9. Batch(i) \in Nat
  <2>1. CASE i = 0
    BY <2>1 DEF Batch
  <2>2. CASE i # 0
    <3>1. i \in DOMAIN ticket
      BY <1>8, <2>2
    <3>2. ticket[i] \in Ticket /\ ticket[i].lines # << >>
      BY <1>1, <3>1 DEF KitchenTypes
    <3>3. PICK q \in Seq(Row) : q = ticket[i].lines /\ q # << >>
      BY <3>2 DEF Ticket
    <3>4. DOMAIN q = 1..Len(q) /\ Len(q) \in Nat /\ 1 \in DOMAIN q /\ IsFiniteSet(1..Len(q))
      <4>1. DOMAIN q = 1..Len(q) /\ Len(q) \in Nat /\ Len(q) # 0
        BY <3>3
      <4> QED
        BY <4>1, FS_Interval
    <3>5. \A j \in DOMAIN q : q[j].batch \in Nat
      <4>1. \A j \in DOMAIN q : q[j] \in Row
        BY <3>4
      <4> QED
        BY <4>1 DEF Row
    <3> DEFINE B == {q[j].batch : j \in DOMAIN q}
               f == [j \in 1..Len(q) |-> q[j].batch]
    <3>6. f \in Surjection(1..Len(q), B)
      BY <3>4 DEF Surjection
    <3>7. IsFiniteSet(B)
      BY <3>4, <3>6, FS_Surjection
    <3>8. B \in SUBSET Nat /\ B # {}
      BY <3>4, <3>5
    <3> HIDE DEF B
    <3>9. Max(B) \in Nat
      BY <3>7, <3>8, GreatestIsOne
    <3>10. Batch(i) = 1 + Max(B)
      BY <2>2, <3>3 DEF Batch, B
    <3> QED
      BY <3>9, <3>10
  <2> QED
    BY <2>1, <2>2
<1> QED
  BY <1>7, <1>8, <1>9

\* What fireOnSend() reads is sound, has every unfired line and no other.
LEMMA PlanIsSound ==
  ASSUME KitchenTypes
  PROVE  /\ PlanSound(Plan)
         /\ \A l \in Unfired : \E g \in Plan : l \in g.lines
         /\ \A g \in Plan : \A l \in g.lines : l \in Unfired
<1> DEFINE Grp(s) == [station |-> s, to |-> AddOnTo(s), batch |-> Batch(AddOnTo(s)),
                      lines |-> {l \in Unfired : routeStationId(l) = s}]
           F == [l \in Unfired |-> Grp(routeStationId(l))]
<1>1. Unfired \in SUBSET Lines
  BY DEF Unfired
<1>2. Plan = {Grp(s) : s \in {routeStationId(l) : l \in Unfired}}
  BY DEF Plan
<1>3. \A l \in Unfired : Grp(routeStationId(l)) \in Plan
  BY <1>2
<1>4. \A g \in Plan : \E l \in Unfired : g = Grp(routeStationId(l))
  BY <1>2
<1>5. IsFiniteSet(Plan)
  <2>1. F \in Surjection(Unfired, Plan)
    BY <1>3, <1>4 DEF Surjection
  <2>2. IsFiniteSet(Unfired)
    BY <1>1, KitchenAssumption, FS_Subset
  <2> HIDE DEF F
  <2> QED
    BY <2>1, <2>2, FS_Surjection
<1>6. \A g \in Plan : g = Grp(g.station) /\ g.lines \in SUBSET Unfired
  BY <1>4
<1>7. ASSUME NEW l \in Unfired
      PROVE  LET g == Grp(routeStationId(l)) IN
             /\ g \in Group /\ l \in g.lines /\ AtHome(g.station)
             /\ g.to # 0 => g.to \in DOMAIN ticket /\ ticket[g.to].station = g.station
  <2>1. PICK s : s = routeStationId(l)
    OBVIOUS
  <2>2. s = NoId \/ s \in LiveAt(Home)
    BY <1>1, <2>1, RoutedHome
  <2>3. s \in Stations \cup {NoId} /\ AtHome(s)
    BY <2>2 DEF LiveAt, AtHome
  <2>4. /\ AddOnTo(s) \in Nat /\ Batch(AddOnTo(s)) \in Nat
        /\ AddOnTo(s) # 0 => AddOnTo(s) \in DOMAIN ticket /\ ticket[AddOnTo(s)].station = s
    BY AddOnJoins
  <2>5. {m \in Unfired : routeStationId(m) = s} \in SUBSET Lines /\ l \in {m \in Unfired : routeStationId(m) = s}
    BY <1>1, <2>1
  <2>6. PICK g : g = Grp(s)
    OBVIOUS
  <2>7. g \in Group /\ l \in g.lines
    BY <2>3, <2>4, <2>5, <2>6 DEF Group
  <2>8. g.station = s /\ g.to = AddOnTo(s)
    BY <2>6
  <2> HIDE DEF Grp
  <2> QED
    BY <2>1, <2>3, <2>4, <2>6, <2>7, <2>8
<1>8. \A g \in Plan : /\ g \in Group /\ g.lines # {} /\ AtHome(g.station)
                      /\ g.to # 0 => g.to \in DOMAIN ticket /\ ticket[g.to].station = g.station
  <2> TAKE g \in Plan
  <2>1. PICK l \in Unfired : g = Grp(routeStationId(l))
    BY <1>4
  <2> HIDE DEF Grp
  <2> QED
    BY <1>7, <2>1
<1>9. \A g, h \in Plan : g.lines \cap h.lines # {} => g.station = h.station
  <2>1. \A g \in Plan : \A l \in g.lines : routeStationId(l) = g.station
    BY <1>6
  <2> QED
    BY <2>1
<1>10. \A g, h \in Plan : g.station = h.station => g = h
  <2> TAKE g, h \in Plan
  <2>1. g = Grp(g.station) /\ h = Grp(h.station)
    BY <1>6
  <2> HIDE DEF Grp
  <2> QED
    BY <2>1
<1>11. \A g, h \in Plan : g.lines \cap h.lines # {} => g = h
  BY <1>9, <1>10
<1>12. PlanSound(Plan)
  BY <1>5, <1>8, <1>10, <1>11 DEF PlanSound
<1>13. \A l \in Unfired : \E g \in Plan : l \in g.lines
  <2> HIDE DEF Grp
  <2> QED
    BY <1>3, <1>7
<1> QED
  BY <1>6, <1>12, <1>13

-----------------------------------------------------------------------------
(* What fireOnSend() writes *)

\* A ticket has the lines of a group after its first `base' rows.
Carries(t, base, g) ==
  /\ Len(t.lines) = base + Cardinality(g.lines)
  /\ \A c \in 1..Cardinality(g.lines) :
       t.lines[base + c].line = SetToSeq(g.lines)[c] /\ ~ t.lines[base + c].voided

\* One sequence after another.
LEMMA Joining ==
  ASSUME NEW S, NEW a \in Seq(S), NEW b \in Seq(S)
  PROVE  /\ a \o b \in Seq(S) /\ Len(a \o b) = Len(a) + Len(b) /\ DOMAIN (a \o b) = 1..(Len(a) + Len(b))
         /\ \A i \in 1..Len(a) : (a \o b)[i] = a[i]
         /\ \A i \in 1..Len(b) : (a \o b)[Len(a) + i] = b[i]
<1>1. a \o b \in Seq(S) /\ Len(a \o b) = Len(a) + Len(b)
  OBVIOUS
<1>2. DOMAIN (a \o b) = 1..(Len(a) + Len(b))
  BY <1>1
<1>3. \A i \in 1..Len(a) : (a \o b)[i] = a[i]
  OBVIOUS
<1>4. \A i \in 1..Len(b) : (a \o b)[Len(a) + i] = b[i]
  OBVIOUS
<1> QED
  BY <1>1, <1>2, <1>3, <1>4

\* The new rows of a group: one for each line, none struck out.
LEMMA NewLinesAre ==
  ASSUME NEW g \in Group, g.lines # {}, NEW seen \in BOOLEAN
  PROVE  /\ Cardinality(g.lines) \in Nat \ {0}
         /\ NewLines(g, seen) \in Seq(Row) /\ Len(NewLines(g, seen)) = Cardinality(g.lines)
         /\ \A c \in 1..Cardinality(g.lines) :
              NewLines(g, seen)[c].line = SetToSeq(g.lines)[c] /\ ~ NewLines(g, seen)[c].voided
<1>1. g.lines \in SUBSET Lines /\ g.batch \in Nat
  BY DEF Group
<1>2. IsFiniteSet(g.lines)
  BY <1>1, KitchenAssumption, FS_Subset
<1>3. PICK n \in Nat : n = Cardinality(g.lines) /\ n # 0
  BY <1>2, FS_CardinalityType, FS_EmptySet
<1>4. PICK q \in [1..n -> g.lines] : q = SetToSeq(g.lines)
  BY <1>2, <1>3, ListedOnce
<1>5. PICK b \in Nat : b = g.batch
  BY <1>1
<1>6. PICK r : r = [j \in 1..n |-> [line |-> q[j], batch |-> b, voided |-> FALSE, seen |-> seen]]
  OBVIOUS
<1>7. NewLines(g, seen) = r
  BY <1>3, <1>4, <1>5, <1>6 DEF NewLines
<1>8. \A j \in 1..n : r[j] \in Row
  <2>1. \A j \in 1..n : q[j] \in Lines
    BY <1>1
  <2> QED
    BY <1>6, <2>1 DEF Row
<1>9. r \in Seq(Row) /\ Len(r) = n
  BY <1>6, <1>8
<1>10. \A c \in 1..n : r[c].line = q[c] /\ ~ r[c].voided
  BY <1>6
<1> QED
  BY <1>3, <1>4, <1>7, <1>9, <1>10

\* A ticket a group joins keeps its rows and gets those of the group.
LEMMA JoinedIs ==
  ASSUME NEW t \in Ticket, NEW g \in Group, g.lines # {}
  PROVE  /\ Joined(t, g) \in Ticket /\ Joined(t, g).lines # << >>
         /\ Joined(t, g).station = t.station
         /\ Carries(Joined(t, g), Len(t.lines), g)
         /\ \A j \in DOMAIN t.lines : j \in DOMAIN Joined(t, g).lines /\ Joined(t, g).lines[j] = t.lines[j]
<1>1. (t.st = "queued") \in BOOLEAN
  OBVIOUS
<1>2. PICK new : new = NewLines(g, t.st = "queued")
  OBVIOUS
<1>3. PICK n \in Nat \ {0} : n = Cardinality(g.lines)
  BY <1>1, NewLinesAre
<1>4. /\ new \in Seq(Row) /\ Len(new) = n
      /\ \A c \in 1..n : new[c].line = SetToSeq(g.lines)[c] /\ ~ new[c].voided
  BY <1>1, <1>2, <1>3, NewLinesAre
<1>5. PICK old \in Seq(Row) : old = t.lines
  BY DEF Ticket
<1>6. PICK all : all = old \o new
  OBVIOUS
<1>7. PICK m \in Nat : m = Len(old) /\ DOMAIN old = 1..m
  OBVIOUS
<1>8. /\ all \in Seq(Row) /\ Len(all) = m + n /\ DOMAIN all = 1..(m + n) /\ all # << >>
      /\ \A j \in 1..m : all[j] = old[j]
      /\ \A c \in 1..n : all[m + c] = new[c]
  <2>1. /\ all \in Seq(Row) /\ Len(all) = Len(old) + Len(new) /\ DOMAIN all = 1..(Len(old) + Len(new))
        /\ \A i \in 1..Len(old) : all[i] = old[i]
        /\ \A i \in 1..Len(new) : all[Len(old) + i] = new[i]
    <3>1. new \in Seq(Row) /\ old \in Seq(Row)
      BY <1>4
    <3> QED
      BY <1>6, <3>1, Joining
  <2>2. Len(all) # 0
    BY <1>3, <1>4, <1>7, <2>1
  <2>3. all # << >>
    BY <2>2
  <2>4. Len(old) = m /\ Len(new) = n
    BY <1>4, <1>7
  <2>5. \A c \in 1..n : all[m + c] = new[c]
    BY <2>1, <2>4
  <2> QED
    BY <2>1, <2>3, <2>4, <2>5
<1>9. PICK u : u = Joined(t, g)
  OBVIOUS
<1>10. u = [t EXCEPT !.lines = all]
  BY <1>2, <1>5, <1>6, <1>9 DEF Joined
<1>11. u \in Ticket /\ u.station = t.station /\ u.lines = all
  BY <1>8, <1>10 DEF Ticket
<1>12. Carries(u, m, g)
  BY <1>3, <1>4, <1>8, <1>11 DEF Carries
<1> QED
  BY <1>5, <1>7, <1>8, <1>9, <1>11, <1>12

\* A new ticket has the rows of its group.
LEMMA OpenedIs ==
  ASSUME NEW g \in Group, g.lines # {}
  PROVE  /\ Opened(g) \in Ticket /\ Opened(g).lines # << >>
         /\ Opened(g).station = g.station
         /\ Carries(Opened(g), 0, g)
<1>1. PICK new : new = NewLines(g, TRUE)
  OBVIOUS
<1>2. PICK n \in Nat \ {0} : n = Cardinality(g.lines)
  BY NewLinesAre
<1>3. /\ new \in Seq(Row) /\ Len(new) = n
      /\ \A c \in 1..n : new[c].line = SetToSeq(g.lines)[c] /\ ~ new[c].voided
  BY <1>1, <1>2, NewLinesAre
<1>4. PICK s \in Stations \cup {NoId} : s = g.station
  BY DEF Group
<1>5. PICK u : u = Opened(g)
  OBVIOUS
<1>6. u = [station |-> s, st |-> "queued", lines |-> new]
  BY <1>1, <1>4, <1>5 DEF Opened
<1>7. u \in Ticket /\ u.station = s /\ u.lines = new
  BY <1>3, <1>6 DEF Ticket
<1>8. new # << >>
  BY <1>2, <1>3
<1>9. Carries(u, 0, g)
  <2>1. \A c \in 1..n : 0 + c = c
    OBVIOUS
  <2>2. 0 + n = n
    OBVIOUS
  <2> QED
    BY <1>2, <1>3, <1>7, <2>1, <2>2 DEF Carries
<1> QED
  BY <1>4, <1>5, <1>7, <1>8, <1>9

NewRow(T, i, j) ==
  /\ i \in DOMAIN T /\ j \in DOMAIN T[i].lines
  /\ i \in DOMAIN ticket => j \notin DOMAIN ticket[i].lines

(* The tickets once a plan is written: the old rows are where they were, and *)
(* every line of the plan has one new row.                                   *)
FiredAs(T, plan) ==
  /\ T \in Seq(Ticket) /\ \A i \in DOMAIN T : T[i].lines # << >>
  /\ \A i \in DOMAIN ticket :
       /\ i \in DOMAIN T /\ T[i].station = ticket[i].station
       /\ \A j \in DOMAIN ticket[i].lines : j \in DOMAIN T[i].lines /\ T[i].lines[j] = ticket[i].lines[j]
  /\ \A i \in DOMAIN T \ DOMAIN ticket : AtHome(T[i].station)
  /\ \A i, j : NewRow(T, i, j) => ~ T[i].lines[j].voided /\ \E g \in plan : T[i].lines[j].line \in g.lines
  /\ \A i, j, a, b : NewRow(T, i, j) /\ NewRow(T, a, b) /\ T[i].lines[j].line = T[a].lines[b].line => i = a /\ j = b
  /\ \A g \in plan : \A l \in g.lines : \E i, j : NewRow(T, i, j) /\ T[i].lines[j].line = l

\* Writing a sound plan does that.
LEMMA FiredIs ==
  ASSUME KitchenTypes, NEW plan, PlanSound(plan)
  PROVE  FiredAs(Fired(plan), plan)
<1>1. ticket \in Seq(Ticket) /\ \A i \in DOMAIN ticket : ticket[i].lines # << >>
  BY DEF KitchenTypes
<1>2. PICK n \in Nat : n = Len(ticket) /\ DOMAIN ticket = 1..n
  BY <1>1
<1>3. \A i \in 1..n : ticket[i] \in Ticket
  BY <1>1, <1>2
<1>4. \A g \in plan : g \in Group /\ g.lines # {} /\ AtHome(g.station) /\ (g.to # 0 => g.to \in 1..n /\ ticket[g.to].station = g.station)
  BY <1>2 DEF PlanSound
<1> DEFINE New == {g \in plan : g.to = 0}
<1>5. IsFiniteSet(New) /\ Fresh(plan) = SetToSeq(New)
  BY FS_Subset DEF PlanSound, Fresh
<1>6. PICK m \in Nat, F \in {Fresh(plan)} :
        /\ F = Fresh(plan) /\ F \in [1..m -> New]
        /\ \A i, j \in 1..m : F[i] = F[j] => i = j
        /\ \A x \in New : \E i \in 1..m : F[i] = x
  <2>1. /\ Cardinality(New) \in Nat
        /\ SetToSeq(New) \in [1..Cardinality(New) -> New]
        /\ \A i, j \in 1..Cardinality(New) : SetToSeq(New)[i] = SetToSeq(New)[j] => i = j
        /\ \A x \in New : \E i \in 1..Cardinality(New) : SetToSeq(New)[i] = x
    BY <1>5, ListedOnce
  <2> HIDE DEF New
  <2> QED
    BY <1>5, <2>1
<1>7. \A k \in 1..m : F[k] \in plan /\ F[k].to = 0
  BY <1>6
<1>8. \A g \in plan : g.to = 0 => \E k \in 1..m : F[k] = g
  BY <1>6
<1> HIDE DEF New
<1>9. PICK X : X = [i \in 1..n |-> IF \E g \in plan : g.to = i THEN Joined(ticket[i], CHOOSE g \in plan : g.to = i) ELSE ticket[i]]
  OBVIOUS
<1>10. PICK Y : Y = [j \in 1..m |-> Opened(F[j])]
  OBVIOUS
<1>11. PICK T : T = X \o Y
  OBVIOUS
<1>12. Fired(plan) = T
  BY <1>2, <1>6, <1>9, <1>10, <1>11 DEF Fired
<1>13. \A i \in 1..n : \/ X[i] = ticket[i] /\ ~ \E g \in plan : g.to = i
                       \/ \E g \in plan : g.to = i /\ X[i] = Joined(ticket[i], g)
  BY <1>9
<1>14. \A i \in 1..n : \A g \in plan : g.to = i =>
         X[i] \in Ticket /\ X[i].lines # << >> /\ X[i].station = ticket[i].station /\ Carries(X[i], Len(ticket[i].lines), g)
         /\ \A j \in DOMAIN ticket[i].lines : j \in DOMAIN X[i].lines /\ X[i].lines[j] = ticket[i].lines[j]
  <2> SUFFICES ASSUME NEW i \in 1..n, NEW g \in plan, g.to = i
               PROVE  X[i] \in Ticket /\ X[i].lines # << >> /\ X[i].station = ticket[i].station /\ Carries(X[i], Len(ticket[i].lines), g)
                      /\ \A j \in DOMAIN ticket[i].lines : j \in DOMAIN X[i].lines /\ X[i].lines[j] = ticket[i].lines[j]
    OBVIOUS
  <2>1. PICK h \in plan : h.to = i /\ X[i] = Joined(ticket[i], h)
    BY <1>13
  <2>2. g.to # 0 /\ h.to # 0 /\ g.station = h.station
    BY <1>4, <2>1
  <2>3. g = h
    BY <2>2 DEF PlanSound
  <2>4. ticket[i] \in Ticket /\ g \in Group /\ g.lines # {}
    BY <1>3, <1>4
  <2> QED
    BY <2>1, <2>3, <2>4, JoinedIs
<1>15. \A i \in 1..n : X[i] \in Ticket /\ X[i].lines # << >> /\ X[i].station = ticket[i].station
         /\ \A j \in DOMAIN ticket[i].lines : j \in DOMAIN X[i].lines /\ X[i].lines[j] = ticket[i].lines[j]
  <2> TAKE i \in 1..n
  <2>1. CASE \E g \in plan : g.to = i
    BY <1>14, <2>1
  <2>2. CASE X[i] = ticket[i]
    BY <1>1, <1>2, <1>3, <2>2
  <2> QED
    BY <1>13, <2>1, <2>2
<1>16. \A k \in 1..m : Y[k] \in Ticket /\ Y[k].lines # << >> /\ Y[k].station = F[k].station /\ Carries(Y[k], 0, F[k])
  <2> TAKE k \in 1..m
  <2>1. F[k] \in Group /\ F[k].lines # {}
    BY <1>4, <1>7
  <2>2. Y[k] = Opened(F[k])
    BY <1>10
  <2> QED
    BY <2>1, <2>2, OpenedIs
<1>17. X \in Seq(Ticket) /\ Len(X) = n /\ Y \in Seq(Ticket) /\ Len(Y) = m
  BY <1>9, <1>10, <1>15, <1>16
<1>18. /\ T \in Seq(Ticket) /\ DOMAIN T = 1..(n + m)
       /\ \A i \in 1..n : T[i] = X[i]
       /\ \A i \in (n + 1)..(n + m) : i - n \in 1..m /\ T[i] = Y[i - n]
       /\ \A k \in 1..m : n + k \in (n + 1)..(n + m) /\ T[n + k] = Y[k]
  <2>1. /\ T \in Seq(Ticket) /\ DOMAIN T = 1..(Len(X) + Len(Y))
        /\ \A i \in 1..Len(X) : T[i] = X[i]
        /\ \A i \in 1..Len(Y) : T[Len(X) + i] = Y[i]
    <3>1. X \in Seq(Ticket) /\ Y \in Seq(Ticket)
      BY <1>17
    <3> QED
      BY <1>11, <3>1, Joining
  <2>2. \A k \in 1..m : n + k \in (n + 1)..(n + m)
    OBVIOUS
  <2>3. \A i \in (n + 1)..(n + m) : i - n \in 1..m /\ n + (i - n) = i
    OBVIOUS
  <2>4. \A k \in 1..m : T[n + k] = Y[k]
    BY <1>17, <2>1
  <2>5. \A i \in (n + 1)..(n + m) : T[n + (i - n)] = Y[i - n]
    BY <2>3, <2>4
  <2>6. \A i \in (n + 1)..(n + m) : T[i] = Y[i - n]
    BY <2>3, <2>5
  <2> QED
    BY <1>17, <2>1, <2>2, <2>3, <2>4, <2>6
<1>19. \A i \in DOMAIN T : i \in 1..n \/ i \in (n + 1)..(n + m)
  BY <1>18
<1>20. \A i \in DOMAIN T : T[i].lines # << >> /\ T[i] \in Ticket /\ DOMAIN T[i].lines = 1..Len(T[i].lines)
  <2> TAKE i \in DOMAIN T
  <2>1. T[i].lines # << >> /\ T[i] \in Ticket
    <3>1. CASE i \in 1..n
      BY <1>15, <1>18, <3>1
    <3>2. CASE i \in (n + 1)..(n + m)
      BY <1>16, <1>18, <3>2
    <3> QED
      BY <1>19, <3>1, <3>2
  <2>2. T[i].lines \in Seq(Row)
    BY <2>1 DEF Ticket
  <2> QED
    BY <2>1, <2>2
<1>21. \A i \in 1..n : /\ DOMAIN ticket[i].lines = 1..Len(ticket[i].lines) /\ Len(ticket[i].lines) \in Nat
  BY <1>3 DEF Ticket
\* Where the new rows come from, and which.
<1>22. \A g \in plan :
         /\ Cardinality(g.lines) \in Nat
         /\ SetToSeq(g.lines) \in [1..Cardinality(g.lines) -> g.lines]
         /\ \A i, j \in 1..Cardinality(g.lines) : SetToSeq(g.lines)[i] = SetToSeq(g.lines)[j] => i = j
         /\ \A x \in g.lines : \E i \in 1..Cardinality(g.lines) : SetToSeq(g.lines)[i] = x
  <2> TAKE g \in plan
  <2>1. IsFiniteSet(g.lines)
    BY <1>4, KitchenAssumption, FS_Subset DEF Group
  <2> QED
    BY <2>1, ListedOnce
<1> DEFINE From(i, j, g, c) ==
             /\ g \in plan /\ c \in 1..Cardinality(g.lines)
             /\ T[i].lines[j].line = SetToSeq(g.lines)[c] /\ ~ T[i].lines[j].voided
             /\ \/ g.to = i /\ i \in 1..n /\ j = Len(ticket[i].lines) + c
                \/ g.to = 0 /\ i \in (n + 1)..(n + m) /\ F[i - n] = g /\ j = c
<1>23. \A i, j : NewRow(T, i, j) => \E g, c : From(i, j, g, c)
  <2> SUFFICES ASSUME NEW i, NEW j, NewRow(T, i, j) PROVE \E g, c : From(i, j, g, c)
    OBVIOUS
  <2>1. i \in DOMAIN T /\ j \in DOMAIN T[i].lines
    BY DEF NewRow
  <2>2. CASE i \in 1..n
    <3>1. j \notin DOMAIN ticket[i].lines /\ T[i] = X[i]
      BY <1>2, <1>18, <2>2 DEF NewRow
    <3>2. PICK g \in plan : g.to = i
      BY <1>13, <2>1, <2>2, <3>1
    <3>3. Carries(X[i], Len(ticket[i].lines), g)
      BY <1>14, <2>2, <3>2
    <3>4. PICK b \in Nat, w \in Nat : b = Len(ticket[i].lines) /\ w = Cardinality(g.lines)
      BY <1>21, <1>22, <2>2
    <3>5. /\ Len(T[i].lines) = b + w
          /\ \A c \in 1..w : T[i].lines[b + c].line = SetToSeq(g.lines)[c] /\ ~ T[i].lines[b + c].voided
      BY <3>1, <3>3, <3>4 DEF Carries
    <3>6. j \in 1..(b + w) /\ j \notin 1..b
      BY <1>20, <1>21, <2>1, <2>2, <3>1, <3>4, <3>5
    <3>7. j - b \in 1..w /\ b + (j - b) = j
      BY <3>6
    <3>8. From(i, j, g, j - b)
      BY <2>2, <3>2, <3>4, <3>5, <3>7
    <3> HIDE DEF From
    <3> QED
      BY <3>8
  <2>3. CASE i \in (n + 1)..(n + m)
    <3>1. i - n \in 1..m /\ T[i] = Y[i - n]
      BY <1>18, <2>3
    <3>2. PICK g : g = F[i - n]
      OBVIOUS
    <3>3. g \in plan /\ g.to = 0 /\ Carries(T[i], 0, g)
      BY <1>7, <1>16, <3>1, <3>2
    <3>4. PICK w \in Nat : w = Cardinality(g.lines)
      BY <1>22, <3>3
    <3>5. Len(T[i].lines) = 0 + w /\ \A c \in 1..w : T[i].lines[0 + c].line = SetToSeq(g.lines)[c] /\ ~ T[i].lines[0 + c].voided
      BY <3>3, <3>4 DEF Carries
    <3>6. j \in 1..w /\ 0 + j = j
      BY <1>20, <2>1, <3>5
    <3>7. From(i, j, g, j)
      BY <2>3, <3>2, <3>3, <3>4, <3>5, <3>6
    <3> HIDE DEF From
    <3> QED
      BY <3>7
  <2> QED
    BY <1>19, <2>1, <2>2, <2>3
<1>24. ASSUME NEW g \in plan, NEW l \in g.lines PROVE \E i, j : NewRow(T, i, j) /\ T[i].lines[j].line = l
  <2>0. PICK w \in Nat : w = Cardinality(g.lines)
    BY <1>22
  <2>1. PICK c \in 1..Cardinality(g.lines) : w = Cardinality(g.lines) /\ SetToSeq(g.lines)[c] = l
    <3>1. \A x \in g.lines : \E i \in 1..Cardinality(g.lines) : SetToSeq(g.lines)[i] = x
      <4>1. IsFiniteSet(g.lines)
        BY <1>4, KitchenAssumption, FS_Subset DEF Group
      <4> QED
        BY <4>1, ListedOnce
    <3>2. \E i \in 1..Cardinality(g.lines) : SetToSeq(g.lines)[i] = l
      BY <1>24, <3>1
    <3> QED
      BY <2>0, <3>2
  <2>2. CASE g.to # 0
    <3>1. PICK i \in 1..n : i = g.to
      BY <1>4, <2>2
    <3>2. Carries(T[i], Len(ticket[i].lines), g)
      BY <1>14, <1>18, <3>1
    <3>3. PICK b \in Nat : b = Len(ticket[i].lines) /\ DOMAIN ticket[i].lines = 1..b
      BY <1>21
    <3>4. Len(T[i].lines) = b + w /\ T[i].lines[b + c].line = l
      BY <2>1, <3>2, <3>3 DEF Carries
    <3>5. b + c \in 1..(b + w) /\ b + c \notin 1..b
      BY <2>1
    <3>6. i \in DOMAIN T
      BY <1>18
    <3>7. NewRow(T, i, b + c)
      BY <1>20, <3>3, <3>4, <3>5, <3>6 DEF NewRow
    <3> QED
      BY <3>4, <3>7
  <2>3. CASE g.to = 0
    <3>1. PICK k \in 1..m : F[k] = g
      BY <1>8, <2>3
    <3>2. PICK i \in (n + 1)..(n + m) : i = n + k /\ T[i] = Y[k]
      BY <1>18
    <3>3. Carries(T[i], 0, g)
      BY <1>16, <3>1, <3>2
    <3>4. 0 + c = c /\ 0 + w = w /\ c \in 1..w
      BY <2>1
    <3>5. Len(T[i].lines) = w /\ T[i].lines[c].line = l
      <4>1. Len(T[i].lines) = 0 + w /\ T[i].lines[0 + c].line = SetToSeq(g.lines)[c]
        BY <2>1, <3>3 DEF Carries
      <4> QED
        BY <2>1, <3>4, <4>1
    <3>6. i \in DOMAIN T /\ i \notin DOMAIN ticket
      BY <1>2, <1>18
    <3>7. NewRow(T, i, c)
      BY <1>20, <3>4, <3>5, <3>6 DEF NewRow
    <3> QED
      BY <3>5, <3>7
  <2> QED
    BY <2>2, <2>3
<1>25. ASSUME NEW i, NEW j, NEW a, NEW b, NewRow(T, i, j), NewRow(T, a, b), T[i].lines[j].line = T[a].lines[b].line
       PROVE  i = a /\ j = b
  <2>1. PICK g, c : From(i, j, g, c)
    BY <1>23, <1>25
  <2>2. PICK h, d : From(a, b, h, d)
    BY <1>23, <1>25
  <2>3. g \in plan /\ h \in plan /\ SetToSeq(g.lines)[c] \in g.lines /\ SetToSeq(h.lines)[d] \in h.lines
        /\ SetToSeq(g.lines)[c] = SetToSeq(h.lines)[d]
    BY ZenonT(60), <1>22, <1>25, <2>1, <2>2
  <2>4. g = h
    BY <2>3 DEF PlanSound
  <2>5. c = d
    BY <1>22, <2>1, <2>2, <2>3, <2>4
  <2>6. CASE g.to = 0
    <3>1. i \in (n + 1)..(n + m) /\ a \in (n + 1)..(n + m) /\ F[i - n] = F[a - n] /\ j = c /\ b = d
      BY <2>1, <2>2, <2>4, <2>6
    <3>2. i - n \in 1..m /\ a - n \in 1..m
      BY <1>18, <3>1
    <3>3. i - n = a - n
      BY <1>6, <3>1, <3>2
    <3> QED
      BY <2>5, <3>1, <3>3
  <2>7. CASE g.to # 0
    BY <2>1, <2>2, <2>4, <2>5, <2>7
  <2> QED
    BY <2>6, <2>7
<1>26. \A i, j : NewRow(T, i, j) => ~ T[i].lines[j].voided /\ \E g \in plan : T[i].lines[j].line \in g.lines
  <2> SUFFICES ASSUME NEW i, NEW j, NewRow(T, i, j)
               PROVE  ~ T[i].lines[j].voided /\ \E g \in plan : T[i].lines[j].line \in g.lines
    OBVIOUS
  <2>1. PICK g, c : From(i, j, g, c)
    BY <1>23
  <2>2. g \in plan /\ SetToSeq(g.lines)[c] \in g.lines
    BY ZenonT(60), <1>22, <2>1
  <2> QED
    BY <2>1, <2>2
<1> HIDE DEF From
<1>27. \A i \in DOMAIN ticket :
         /\ i \in DOMAIN T /\ T[i].station = ticket[i].station
         /\ \A j \in DOMAIN ticket[i].lines : j \in DOMAIN T[i].lines /\ T[i].lines[j] = ticket[i].lines[j]
  <2> TAKE i \in DOMAIN ticket
  <2>1. i \in 1..n /\ i \in DOMAIN T /\ T[i] = X[i]
    BY <1>2, <1>18
  <2> QED
    BY <1>15, <2>1
<1>28. \A i \in DOMAIN T \ DOMAIN ticket : AtHome(T[i].station)
  <2> TAKE i \in DOMAIN T \ DOMAIN ticket
  <2>1. i - n \in 1..m /\ T[i] = Y[i - n]
    BY <1>2, <1>18, <1>19
  <2>2. T[i].station = F[i - n].station /\ F[i - n] \in plan
    BY <1>7, <1>16, <2>1
  <2> QED
    BY <1>4, <2>2
<1>29. FiredAs(T, plan)
  BY <1>18, <1>20, <1>24, <1>25, <1>26, <1>27, <1>28 DEF FiredAs
<1> QED
  BY <1>12, <1>29

-----------------------------------------------------------------------------
(* Every action keeps the invariant *)

\* A station in use or removed stays with its outlet, a ticket with its station.
StationsKept == \A s \in Stations :
  station[s].st # "none" => station'[s].st # "none" /\ station'[s].outlet = station[s].outlet
TicketsKept == \A i \in DOMAIN ticket : i \in DOMAIN ticket' /\ ticket'[i].station = ticket[i].station

\* A plan read earlier is still sound.
LEMMA PlanStays ==
  ASSUME NEW plan, PlanSound(plan), StationsKept, TicketsKept
  PROVE  PlanSound(plan)'
<1>1. \A g \in plan : g.station \in Stations \cup {NoId}
  BY DEF PlanSound, Group
<1>2. \A g \in plan : AtHome(g.station)'
  BY <1>1 DEF PlanSound, AtHome, StationsKept
<1>3. \A g \in plan : g.to # 0 => g.to \in DOMAIN ticket' /\ ticket'[g.to].station = g.station
  BY DEF PlanSound, TicketsKept
<1> QED
  BY <1>2, <1>3 DEF PlanSound

\* Stations and routes are edited.
LEMMA StationEdits ==
  ASSUME KitchenInv,
         \/ \E s \in Stations, o \in {Home, Away}, n \in Names : createStation(s, o, n)
         \/ \E s \in Stations, n \in Names : updateStation(s, n)
         \/ \E s \in Stations : deleteStation(s)
         \/ \E l \in Lines, s \in Stations \cup {NoId} : setStation(l, s)
  PROVE  KitchenInv'
<1>1. /\ UNCHANGED <<state, paid, line, late, ticket, send>>
      /\ edits' = edits + 1
  BY DEF createStation, updateStation, deleteStation, setStation, Edited
<1>2. station \in [Stations -> Station] /\ route \in [Lines -> Stations \cup {NoId}]
  BY DEF KitchenInv, KitchenTypes
<1>3. /\ station' \in [Stations -> Station] /\ route' \in [Lines -> Stations \cup {NoId}]
      /\ StationsKept
  <2>1. ASSUME NEW s \in Stations, NEW o \in {Home, Away}, NEW n \in Names, createStation(s, o, n)
        PROVE  station' \in [Stations -> Station] /\ route' = route /\ StationsKept
    <3>1. PICK new \in Station : new = [st |-> "live", outlet |-> o, name |-> n]
      BY DEF Station
    <3>2. station' = [station EXCEPT ![s] = new] /\ station[s].st = "none" /\ route' = route
      BY <2>1, <3>1 DEF createStation
    <3> QED
      BY <1>2, <3>2 DEF StationsKept
  <2>2. ASSUME NEW s \in Stations, NEW n \in Names, updateStation(s, n)
        PROVE  station' \in [Stations -> Station] /\ route' = route /\ StationsKept
    <3>1. PICK new : new = [station[s] EXCEPT !.name = n]
      OBVIOUS
    <3>2. new \in Station /\ new.st = station[s].st /\ new.outlet = station[s].outlet
      BY <1>2, <3>1 DEF Station
    <3>3. station' = [station EXCEPT ![s] = new] /\ route' = route
      BY <2>2, <3>1 DEF updateStation
    <3> QED
      BY <1>2, <3>2, <3>3 DEF StationsKept
  <2>3. ASSUME NEW s \in Stations, deleteStation(s)
        PROVE  station' \in [Stations -> Station] /\ route' \in [Lines -> Stations \cup {NoId}] /\ StationsKept
    <3>1. PICK new : new = [[station[s] EXCEPT !.st = "deleted"] EXCEPT !.name = NoId]
      OBVIOUS
    <3>2. new \in Station /\ new.st = "deleted" /\ new.outlet = station[s].outlet
      <4>0. PICK old \in Station : old = station[s]
        BY <1>2
      <4>3. PICK mid : mid = [old EXCEPT !.st = "deleted"]
        OBVIOUS
      <4>4. mid \in Station /\ mid.st = "deleted" /\ mid.outlet = old.outlet
        BY <4>3 DEF Station
      <4>1. mid \in Station /\ mid = [station[s] EXCEPT !.st = "deleted"] /\ mid.st = "deleted" /\ mid.outlet = station[s].outlet
        BY <4>0, <4>3, <4>4
      <4>2. new = [mid EXCEPT !.name = NoId]
        BY <3>1, <4>1
      <4> QED
        BY <4>1, <4>2 DEF Station
    <3>3. station' = [station EXCEPT ![s] = new]
      BY <1>2, <2>3, <3>1 DEF deleteStation
    <3>4. route' \in [Lines -> Stations \cup {NoId}]
      BY <1>2, <2>3 DEF deleteStation
    <3> QED
      BY <1>2, <3>2, <3>3, <3>4 DEF StationsKept
  <2>4. ASSUME NEW l \in Lines, NEW s \in Stations \cup {NoId}, setStation(l, s)
        PROVE  station' = station /\ route' \in [Lines -> Stations \cup {NoId}] /\ StationsKept
    BY <1>2, <2>4 DEF setStation, StationsKept
  <2> QED
    BY <1>2, <2>1, <2>2, <2>3, <2>4
<1>4. TicketsKept
  BY <1>1 DEF TicketsKept
<1>5. KitchenTypes'
  BY <1>1, <1>3 DEF KitchenInv, KitchenTypes
<1>6. PlansSound'
  <2>1. \A k \in Senders : PlanSound(send[k].plan)'
    <3> TAKE k \in Senders
    <3>1. PICK plan : plan = send[k].plan
      OBVIOUS
    <3>2. PlanSound(plan)'
      BY <1>3, <1>4, <3>1, PlanStays DEF KitchenInv, PlansSound
    <3>3. plan = send'[k].plan
      BY <1>1, <3>1
    <3> QED
      BY <3>2, <3>3
  <2> QED
    BY <1>1, <2>1 DEF KitchenInv, PlansSound
<1>7. TicketsAtHome'
  <2>1. \A i \in DOMAIN ticket : ticket[i].station \in Stations \cup {NoId}
    <3>1. \A i \in DOMAIN ticket : ticket[i] \in Ticket
      BY DEF KitchenInv, KitchenTypes
    <3> QED
      BY <3>1 DEF Ticket
  <2> QED
    BY <1>1, <1>3, <2>1 DEF KitchenInv, TicketsAtHome, AtHome, StationsKept
<1>8. RowsBounded'
  BY <1>1 DEF KitchenInv, RowsBounded, Pending, TicketLines, Rows
<1>9. PicksFollow' /\ StruckWithLine'
  BY <1>1 DEF KitchenInv, PicksFollow, StruckWithLine, Rows
<1>10. PaymentCovers'
  BY <1>1 DEF KitchenInv, PaymentCovers, Due, Covered, Picks, TicketLines, Rows
<1> QED
  BY <1>5, <1>6, <1>7, <1>8, <1>9, <1>10 DEF KitchenInv

\* One slot changes: a send loads, reads what to fire, or is refused.
LEMMA OneSend ==
  ASSUME KitchenInv, NEW k \in Senders, NEW new \in Send, send' = [send EXCEPT ![k] = new],
         UNCHANGED <<station, route, edits, state, paid, line, late, ticket>>,
         PlanSound(new.plan), new.op \in {"none", "load", "again"} => new.plan = {},
         \A g \in new.plan : \A l \in g.lines : TicketLines(l) = {},
         new.op = "pay" => \A l \in Lines : Due(l) => Covered(l, new.plan)
  PROVE  KitchenInv'
<1>1. send \in [Senders -> Send]
  BY DEF KitchenInv, KitchenTypes
<1>2. send' \in [Senders -> Send] /\ send'[k] = new /\ \A j \in Senders : j # k => send'[j] = send[j]
  BY <1>1
<1>3. KitchenTypes'
  BY <1>2 DEF KitchenInv, KitchenTypes
<1>4. StationsKept /\ TicketsKept
  BY DEF StationsKept, TicketsKept
<1>5. PlansSound'
  <2> SUFFICES ASSUME NEW j \in Senders
               PROVE  PlanSound(send[j].plan)' /\ (send'[j].op \in {"none", "load", "again"} => send'[j].plan = {})
    BY DEF PlansSound
  <2>1. PICK p, o : p = send'[j].plan /\ o = send'[j].op
    OBVIOUS
  <2>2. PlanSound(p) /\ (o \in {"none", "load", "again"} => p = {})
    BY <1>2, <2>1 DEF KitchenInv, PlansSound
  <2>3. PlanSound(p)'
    BY <1>4, <2>2, PlanStays
  <2> QED
    BY <2>1, <2>2, <2>3
<1>6. TicketsAtHome' /\ PicksFollow' /\ StruckWithLine'
  BY DEF KitchenInv, TicketsAtHome, AtHome, PicksFollow, StruckWithLine, Rows
<1>7. \A l \in Lines : TicketLines(l)' = TicketLines(l)
  BY DEF TicketLines, Rows
<1>8. RowsBounded'
  <2> SUFFICES ASSUME NEW l \in Lines
               PROVE  /\ IsFiniteSet(TicketLines(l)')
                      /\ Cardinality(TicketLines(l)') + Cardinality(Pending(l)') <= Cardinality(Senders)
    BY DEF RowsBounded
  <2>1. PICK t, p, q, S : t = TicketLines(l) /\ p = Pending(l) /\ q = Pending(l)' /\ S = Senders
    OBVIOUS
  <2>2. IsFiniteSet(t) /\ Cardinality(t) + Cardinality(p) <= Cardinality(S)
    BY <2>1 DEF KitchenInv, RowsBounded
  <2>3. IsFiniteSet(S) /\ p \in SUBSET S /\ q \in SUBSET S
    BY <2>1, KitchenAssumption DEF Pending
  <2>4. /\ Cardinality(S) \in Nat /\ Cardinality(p) \in Nat /\ Cardinality(q) \in Nat /\ Cardinality(t) \in Nat
        /\ Cardinality(q) <= Cardinality(S) /\ IsFiniteSet(p)
    BY <2>2, <2>3, FS_Subset, FS_CardinalityType
  <2>5. CASE \E g \in new.plan : l \in g.lines
    <3>1. Cardinality(t) = 0
      BY <2>1, <2>5, FS_EmptySet
    <3> QED
      BY <1>7, <2>1, <2>2, <2>4, <3>1
  <2>6. CASE ~ \E g \in new.plan : l \in g.lines
    <3>1. q \in SUBSET p
      BY <1>2, <2>1, <2>6 DEF Pending
    <3>2. Cardinality(q) <= Cardinality(p)
      BY <2>4, <3>1, FS_Subset
    <3> QED
      BY <1>7, <2>1, <2>2, <2>4, <3>2
  <2> QED
    BY <2>5, <2>6
<1>9. PaymentCovers'
  <2>1. \A l \in Lines : Due(l)' = Due(l)
    BY DEF Due, Picks
  <2>2. \A l \in Lines : \A p : Covered(l, p)' = Covered(l, p)
    BY <1>7 DEF Covered
  <2>3. \A j \in Senders : send'[j].op = "pay" => \A l \in Lines : Due(l) => Covered(l, send'[j].plan)
    BY <1>2 DEF KitchenInv, PaymentCovers
  <2>4. paid' => \A l \in Lines : Due(l)' => TicketLines(l)' # {}
    BY <1>7, <2>1 DEF KitchenInv, PaymentCovers
  <2>5. \A j \in Senders : send'[j].op = "pay" => \A l \in Lines : Due(l)' => Covered(l, send[j].plan)'
    <3> SUFFICES ASSUME NEW j \in Senders, send'[j].op = "pay", NEW l \in Lines, Due(l)' PROVE Covered(l, send[j].plan)'
      OBVIOUS
    <3>1. Covered(l, send'[j].plan)
      BY <2>1, <2>3
    <3> QED
      BY <1>7, <3>1 DEF Covered
  <2> QED
    BY <2>4, <2>5 DEF PaymentCovers
<1> QED
  BY <1>3, <1>5, <1>6, <1>8, <1>9 DEF KitchenInv

\* The reads of a send.
LEMMA SendReads ==
  ASSUME KitchenInv, NEW k \in Senders,
         SendLoad(k) \/ FirstFire(k) \/ AgainFire(k) \/ PayFire(k) \/ SendRefused(k)
  PROVE  KitchenInv'
<1>0. UNCHANGED <<station, route, edits, state, paid, line, late, ticket>>
  BY DEF SendLoad, FirstFire, AgainFire, PayFire, SendRefused
<1>1. /\ PlanSound(Plan)
      /\ \A l \in Unfired : \E g \in Plan : l \in g.lines
      /\ \A g \in Plan : \A l \in g.lines : l \in Unfired
  BY PlanIsSound DEF KitchenInv
<1>2. PlanSound({})
  BY FS_EmptySet DEF PlanSound
<1>3. CASE SendLoad(k) \/ SendRefused(k)
  <2>1. PICK new \in Send : send' = [send EXCEPT ![k] = new] /\ new.op \in {"none", "load", "again"} /\ new.plan = {}
    <3>1. send \in [Senders -> Send]
      BY DEF KitchenInv, KitchenTypes
    <3>2. CASE SendRefused(k)
      <4>1. NoSend \in Send /\ NoSend.op = "none" /\ NoSend.plan = {}
        BY DEF NoSend, Send
      <4> QED
        BY <3>2, <4>1 DEF SendRefused
    <3>3. CASE SendLoad(k)
      <4>1. PICK o \in {"load", "again"} : send' = [send EXCEPT ![k].op = o] /\ send[k] = NoSend
        BY <3>3 DEF SendLoad
      <4>2. [send[k] EXCEPT !.op = o] = [op |-> o, plan |-> {}]
        BY <4>1 DEF NoSend
      <4>3. PICK new \in Send : new = [op |-> o, plan |-> {}]
        BY DEF Send
      <4>4. send' = [send EXCEPT ![k] = new]
        BY <3>1, <4>1, <4>2, <4>3
      <4> QED
        BY <4>3, <4>4
    <3> QED
      BY <1>3, <3>2, <3>3
  <2>2. /\ PlanSound(new.plan) /\ (new.op \in {"none", "load", "again"} => new.plan = {})
        /\ \A g \in new.plan : \A l \in g.lines : TicketLines(l) = {}
        /\ new.op = "pay" => \A l \in Lines : Due(l) => Covered(l, new.plan)
    BY <1>2, <2>1
  <2> QED
    BY <1>0, <2>1, <2>2, OneSend
<1>4. CASE FirstFire(k) \/ AgainFire(k) \/ PayFire(k)
  <2>1. PICK p : p = Plan
    OBVIOUS
  <2>2. PICK o \in {"first", "fire", "pay"} : send' = [send EXCEPT ![k] = [op |-> o, plan |-> p]]
    BY <1>4, <2>1 DEF FirstFire, AgainFire, PayFire
  <2>3. PICK new \in Send : new = [op |-> o, plan |-> p]
    BY <1>1, <2>1 DEF PlanSound, Send
  <2>4. send' = [send EXCEPT ![k] = new] /\ new.op = o /\ new.plan = p
    BY <2>2, <2>3
  <2>5. \A g \in p : \A l \in g.lines : TicketLines(l) = {}
    BY <1>1, <2>1 DEF Unfired
  <2>6. \A l \in Lines : Due(l) => Covered(l, p)
    BY <1>1, <2>1 DEF Due, Covered, Unfired
  <2>7. /\ PlanSound(new.plan) /\ (new.op \in {"none", "load", "again"} => new.plan = {})
        /\ \A g \in new.plan : \A l \in g.lines : TicketLines(l) = {}
        /\ new.op = "pay" => \A l \in Lines : Due(l) => Covered(l, new.plan)
    BY <1>1, <2>1, <2>4, <2>5, <2>6
  <2> QED
    BY <1>0, <2>4, <2>7, OneSend
<1> QED
  BY <1>3, <1>4

\* The rows of a line once a plan is written: the old ones and, for a line of
\* the plan, one more.
LEMMA RowsAfterFiring ==
  ASSUME KitchenTypes, NEW plan, FiredAs(ticket', plan), NEW l \in Lines
  PROVE  /\ TicketLines(l) \subseteq TicketLines(l)'
         /\ (\E g \in plan : l \in g.lines) =>
              \E x : x \in TicketLines(l)' /\ TicketLines(l)' \subseteq TicketLines(l) \cup {x}
         /\ ~ (\E g \in plan : l \in g.lines) => TicketLines(l)' = TicketLines(l)
<1>1. PICK T : T = ticket'
  OBVIOUS
<1>2. FiredAs(T, plan)
  BY <1>1
<1> DEFINE RowsT == UNION {{i} \X DOMAIN T[i].lines : i \in DOMAIN T}
<1>3. TicketLines(l)' = {p \in RowsT : T[p[1]].lines[p[2]].line = l}
  BY <1>1 DEF TicketLines, Rows
<1>4. /\ \A p \in RowsT : p = <<p[1], p[2]>> /\ p[1] \in DOMAIN T /\ p[2] \in DOMAIN T[p[1]].lines
      /\ \A i \in DOMAIN T : \A j \in DOMAIN T[i].lines : <<i, j>> \in RowsT
  OBVIOUS
<1> HIDE DEF RowsT
<1>5. /\ \A p \in Rows : p = <<p[1], p[2]>> /\ p[1] \in DOMAIN ticket /\ p[2] \in DOMAIN ticket[p[1]].lines
      /\ \A i \in DOMAIN ticket : \A j \in DOMAIN ticket[i].lines : <<i, j>> \in Rows
  BY RowsAre
<1>6. \A i \in DOMAIN ticket : i \in DOMAIN T /\ \A j \in DOMAIN ticket[i].lines : j \in DOMAIN T[i].lines /\ T[i].lines[j] = ticket[i].lines[j]
  BY <1>2 DEF FiredAs
<1>7. TicketLines(l) \subseteq TicketLines(l)'
  <2> SUFFICES ASSUME NEW p \in TicketLines(l) PROVE p \in TicketLines(l)'
    OBVIOUS
  <2>1. p \in Rows /\ ticket[p[1]].lines[p[2]].line = l
    BY DEF TicketLines
  <2>2. p = <<p[1], p[2]>> /\ p[1] \in DOMAIN ticket /\ p[2] \in DOMAIN ticket[p[1]].lines
    BY <1>5, <2>1
  <2>3. p[1] \in DOMAIN T /\ p[2] \in DOMAIN T[p[1]].lines /\ T[p[1]].lines[p[2]] = ticket[p[1]].lines[p[2]]
    BY <1>6, <2>2
  <2>4. p \in RowsT
    BY <1>4, <2>2, <2>3
  <2> QED
    BY <1>3, <2>1, <2>3, <2>4
<1>8. \A p \in TicketLines(l)' : p \notin TicketLines(l) =>
        p = <<p[1], p[2]>> /\ NewRow(T, p[1], p[2]) /\ T[p[1]].lines[p[2]].line = l
  <2> SUFFICES ASSUME NEW p \in TicketLines(l)', p \notin TicketLines(l)
               PROVE  p = <<p[1], p[2]>> /\ NewRow(T, p[1], p[2]) /\ T[p[1]].lines[p[2]].line = l
    OBVIOUS
  <2>1. p \in RowsT /\ T[p[1]].lines[p[2]].line = l
    BY <1>3
  <2>2. p = <<p[1], p[2]>> /\ p[1] \in DOMAIN T /\ p[2] \in DOMAIN T[p[1]].lines
    BY <1>4, <2>1
  <2>3. ASSUME p[1] \in DOMAIN ticket, p[2] \in DOMAIN ticket[p[1]].lines PROVE FALSE
    <3>1. <<p[1], p[2]>> \in Rows /\ ticket[p[1]].lines[p[2]].line = l
      BY <1>5, <1>6, <2>1, <2>3
    <3>2. p \in Rows
      BY <2>2, <3>1
    <3> QED
      BY <3>1, <3>2 DEF TicketLines
  <2> QED
    BY <2>1, <2>2, <2>3 DEF NewRow
<1>9. ASSUME NEW g \in plan, l \in g.lines
      PROVE  \E x : x \in TicketLines(l)' /\ TicketLines(l)' \subseteq TicketLines(l) \cup {x}
  <2>1. PICK i, j : NewRow(T, i, j) /\ T[i].lines[j].line = l
    BY <1>2, <1>9 DEF FiredAs
  <2>2. PICK x : x = <<i, j>>
    OBVIOUS
  <2>3. x[1] = i /\ x[2] = j /\ x \in RowsT
    BY <1>4, <2>1, <2>2 DEF NewRow
  <2>4. x \in TicketLines(l)'
    BY <1>3, <2>1, <2>3
  <2>5. ASSUME NEW p \in TicketLines(l)', p \notin TicketLines(l) PROVE p = x
    <3>1. p = <<p[1], p[2]>> /\ NewRow(T, p[1], p[2]) /\ T[p[1]].lines[p[2]].line = l
      BY <1>8, <2>5
    <3>2. p[1] = i /\ p[2] = j
      BY <1>2, <2>1, <3>1 DEF FiredAs
    <3> QED
      BY <2>2, <3>1, <3>2
  <2> QED
    BY <2>4, <2>5
<1>10. ASSUME ~ (\E g \in plan : l \in g.lines) PROVE TicketLines(l)' \subseteq TicketLines(l)
  <2> SUFFICES ASSUME NEW p \in TicketLines(l)', p \notin TicketLines(l) PROVE FALSE
    OBVIOUS
  <2>1. NewRow(T, p[1], p[2]) /\ T[p[1]].lines[p[2]].line = l
    BY <1>8
  <2>2. \E g \in plan : T[p[1]].lines[p[2]].line \in g.lines
    BY <1>2, <2>1 DEF FiredAs
  <2> QED
    BY <1>10, <2>1, <2>2
<1> QED
  BY <1>7, <1>9, <1>10

\* The rows of a plan are written.
LEMMA FireWriteInv ==
  ASSUME KitchenInv, NEW k \in Senders, FireWrite(k)
  PROVE  KitchenInv'
<1>1. PICK plan, o : plan = send[k].plan /\ o = send[k].op
  OBVIOUS
<1>2. /\ o \in {"first", "fire", "pay"} /\ ticket' = Fired(plan)
      /\ paid' = (paid \/ o = "pay")
      /\ state' = CASE o = "pay" -> "closed" [] o = "first" -> "sent" [] o = "fire" -> state
      /\ send' = [send EXCEPT ![k] = NoSend]
      /\ UNCHANGED <<station, route, edits, line, late>>
  BY <1>1 DEF FireWrite
<1>3. PlanSound(plan)
  BY <1>1 DEF KitchenInv, PlansSound
<1>4. FiredAs(Fired(plan), plan)
  BY <1>3, FiredIs DEF KitchenInv
<1>5. PICK T : T = ticket' /\ FiredAs(T, plan)
  BY <1>2, <1>4
<1>6. FiredAs(ticket', plan)
  <2>1. ticket' = Fired(plan)
    BY <1>2
  <2> QED
    BY <1>4, <2>1
<1>7. \A l \in Lines :
         /\ TicketLines(l) \subseteq TicketLines(l)'
         /\ (\E g \in plan : l \in g.lines) =>
              \E x : x \in TicketLines(l)' /\ TicketLines(l)' \subseteq TicketLines(l) \cup {x}
         /\ ~ (\E g \in plan : l \in g.lines) => TicketLines(l)' = TicketLines(l)
  BY <1>6, RowsAfterFiring DEF KitchenInv
<1>8. /\ send' \in [Senders -> Send] /\ send'[k] = NoSend /\ \A j \in Senders : j # k => send'[j] = send[j]
  <2>1. NoSend \in Send
    BY DEF NoSend, Send
  <2>2. send \in [Senders -> Send]
    BY DEF KitchenInv, KitchenTypes
  <2> QED
    BY <1>2, <2>1, <2>2
<1>9. KitchenTypes'
  <2>1. ticket' \in Seq(Ticket) /\ \A i \in DOMAIN ticket' : ticket'[i].lines # << >>
    BY <1>5 DEF FiredAs
  <2>2. state' \in {"open", "sent", "closed"}
    BY <1>2 DEF KitchenInv, KitchenTypes
  <2>3. paid' \in BOOLEAN
    BY <1>2
  <2> QED
    BY <1>2, <1>8, <2>1, <2>2, <2>3 DEF KitchenInv, KitchenTypes
<1>10. StationsKept /\ TicketsKept
  <2>1. \A i \in DOMAIN ticket : i \in DOMAIN T /\ T[i].station = ticket[i].station
    BY <1>5 DEF FiredAs
  <2> QED
    BY <1>2, <1>5, <2>1 DEF StationsKept, TicketsKept
<1>11. PlansSound'
  <2> SUFFICES ASSUME NEW j \in Senders
               PROVE  PlanSound(send[j].plan)' /\ (send'[j].op \in {"none", "load", "again"} => send'[j].plan = {})
    BY DEF PlansSound
  <2>1. PICK p, w : p = send'[j].plan /\ w = send'[j].op
    OBVIOUS
  <2>2. PlanSound(p) /\ (w \in {"none", "load", "again"} => p = {})
    <3>1. CASE j = k
      <4>1. p = {}
        BY <1>8, <2>1, <3>1 DEF NoSend
      <4> QED
        BY <4>1, FS_EmptySet DEF PlanSound
    <3>2. CASE j # k
      BY <1>8, <2>1, <3>2 DEF KitchenInv, PlansSound
    <3> QED
      BY <3>1, <3>2
  <2>3. PlanSound(p)'
    BY <1>10, <2>2, PlanStays
  <2> QED
    BY <2>1, <2>2, <2>3
<1>12. TicketsAtHome'
  <2>1. \A i \in DOMAIN T : AtHome(T[i].station)
    <3> TAKE i \in DOMAIN T
    <3>1. CASE i \in DOMAIN ticket
      BY <1>5, <3>1 DEF FiredAs, KitchenInv, TicketsAtHome
    <3>2. CASE i \notin DOMAIN ticket
      BY <1>5, <3>2 DEF FiredAs
    <3> QED
      BY <3>1, <3>2
  <2> QED
    BY <1>2, <1>5, <2>1 DEF TicketsAtHome, AtHome
<1>13. RowsBounded'
  <2> SUFFICES ASSUME NEW l \in Lines
               PROVE  /\ IsFiniteSet(TicketLines(l)')
                      /\ Cardinality(TicketLines(l)') + Cardinality(Pending(l)') <= Cardinality(Senders)
    BY DEF RowsBounded
  <2>1. PICK t, u, p, q, S : t = TicketLines(l) /\ u = TicketLines(l)' /\ p = Pending(l) /\ q = Pending(l)' /\ S = Senders
    OBVIOUS
  <2>2. IsFiniteSet(t) /\ Cardinality(t) + Cardinality(p) <= Cardinality(S)
    BY <2>1 DEF KitchenInv, RowsBounded
  <2>3. IsFiniteSet(S) /\ p \in SUBSET S
    BY <2>1, KitchenAssumption DEF Pending
  <2>4. Cardinality(S) \in Nat /\ Cardinality(p) \in Nat /\ Cardinality(t) \in Nat /\ IsFiniteSet(p)
    BY <2>2, <2>3, FS_Subset, FS_CardinalityType
  <2>5. q \in SUBSET p /\ k \notin q
    <3>1. NoSend.plan = {}
      BY DEF NoSend
    <3> QED
      BY <1>8, <2>1, <3>1 DEF Pending
  <2>6. CASE \E g \in plan : l \in g.lines
    <3>1. PICK x : u \subseteq t \cup {x}
      BY <1>7, <2>1, <2>6
    <3>2. k \in p
      BY <1>1, <2>1, <2>6 DEF Pending
    <3>3. IsFiniteSet(t \cup {x}) /\ Cardinality(t \cup {x}) <= Cardinality(t) + 1 /\ Cardinality(t \cup {x}) \in Nat
      <4>1. IsFiniteSet(t \cup {x}) /\ Cardinality(t \cup {x}) = IF x \in t THEN Cardinality(t) ELSE Cardinality(t) + 1
        BY <2>2, FS_AddElement
      <4> QED
        BY <2>4, <4>1
    <3>4. IsFiniteSet(u) /\ Cardinality(u) <= Cardinality(t \cup {x}) /\ Cardinality(u) \in Nat
      BY <3>1, <3>3, FS_Subset, FS_CardinalityType
    <3>5. Cardinality(p \ {k}) = Cardinality(p) - 1 /\ IsFiniteSet(p \ {k})
      BY <2>4, <3>2, FS_RemoveElement
    <3>6. q \in SUBSET (p \ {k})
      BY <2>5
    <3>7. Cardinality(q) <= Cardinality(p \ {k}) /\ Cardinality(q) \in Nat
      BY <3>5, <3>6, FS_Subset, FS_CardinalityType
    <3>8. Cardinality(u) + Cardinality(q) <= Cardinality(S)
      BY <2>2, <2>4, <3>3, <3>4, <3>5, <3>7
    <3> QED
      BY <2>1, <3>4, <3>8
  <2>7. CASE ~ \E g \in plan : l \in g.lines
    <3>1. u = t
      BY <1>7, <2>1, <2>7
    <3>2. Cardinality(q) <= Cardinality(p) /\ Cardinality(q) \in Nat
      BY <2>4, <2>5, FS_Subset, FS_CardinalityType
    <3>3. Cardinality(t) + Cardinality(q) <= Cardinality(S)
      BY <2>2, <2>4, <3>2
    <3> QED
      BY <2>1, <2>2, <3>1, <3>3
  <2> QED
    BY <2>6, <2>7
<1>14. PicksFollow'
  BY <1>2 DEF KitchenInv, PicksFollow
<1>15. StruckWithLine'
  <2> DEFINE RowsT == UNION {{i} \X DOMAIN T[i].lines : i \in DOMAIN T}
  <2>1. \A p \in RowsT : p[1] \in DOMAIN T /\ p[2] \in DOMAIN T[p[1]].lines
    OBVIOUS
  <2>2. Rows' = RowsT
    BY <1>5 DEF Rows
  <2> HIDE DEF RowsT
  <2>3. \A p \in RowsT : T[p[1]].lines[p[2]].voided => line[T[p[1]].lines[p[2]].line] = "voided"
    <3> SUFFICES ASSUME NEW p \in RowsT, T[p[1]].lines[p[2]].voided PROVE line[T[p[1]].lines[p[2]].line] = "voided"
      OBVIOUS
    <3>1. PICK i, j : i = p[1] /\ j = p[2]
      OBVIOUS
    <3>2. i \in DOMAIN T /\ j \in DOMAIN T[i].lines /\ T[i].lines[j].voided
      BY <2>1, <3>1
    <3>3. ~ NewRow(T, i, j)
      BY <1>5, <3>2 DEF FiredAs
    <3>4. i \in DOMAIN ticket /\ j \in DOMAIN ticket[i].lines
      BY <3>2, <3>3 DEF NewRow
    <3>5. T[i].lines[j] = ticket[i].lines[j]
      BY <1>5, <3>4 DEF FiredAs
    <3>6. <<i, j>> \in Rows
      BY <3>4, RowsAre
    <3>7. ticket[i].lines[j].voided => line[ticket[i].lines[j].line] = "voided"
      BY <3>6 DEF KitchenInv, StruckWithLine
    <3> QED
      BY <3>1, <3>2, <3>5, <3>7
  <2> QED
    BY <1>2, <1>5, <2>2, <2>3 DEF StruckWithLine
<1>16. PaymentCovers'
  <2>1. \A l \in Lines : Due(l)' = Due(l)
    BY <1>2 DEF Due, Picks
  <2>2. \A l \in Lines : Covered(l, plan) => TicketLines(l)' # {}
    BY <1>7 DEF Covered
  <2>3. \A l \in Lines : TicketLines(l) # {} => TicketLines(l)' # {}
    BY <1>7
  <2>4. ASSUME NEW j \in Senders, send'[j].op = "pay", NEW l \in Lines, Due(l)' PROVE Covered(l, send[j].plan)'
    <3>1. j # k
      BY <1>8, <2>4 DEF NoSend
    <3>2. Covered(l, send[j].plan)
      BY <1>8, <2>1, <2>4, <3>1 DEF KitchenInv, PaymentCovers
    <3> QED
      BY <1>8, <2>3, <3>1, <3>2 DEF Covered
  <2>5. ASSUME paid', NEW l \in Lines, Due(l)' PROVE TicketLines(l)' # {}
    <3>1. CASE o = "pay"
      BY <1>1, <2>1, <2>2, <2>5, <3>1 DEF KitchenInv, PaymentCovers
    <3>2. CASE paid
      BY <2>1, <2>3, <2>5, <3>2 DEF KitchenInv, PaymentCovers
    <3> QED
      BY <1>2, <2>5, <3>1, <3>2
  <2> QED
    BY <2>4, <2>5 DEF PaymentCovers
<1> QED
  BY <1>9, <1>11, <1>12, <1>13, <1>14, <1>15, <1>16 DEF KitchenInv

\* The tickets are the same and carry the same lines.
SameLines ==
  /\ ticket' \in Seq(Ticket) /\ DOMAIN ticket' = DOMAIN ticket
  /\ \A i \in DOMAIN ticket :
       /\ ticket'[i].station = ticket[i].station /\ DOMAIN ticket'[i].lines = DOMAIN ticket[i].lines
       /\ \A j \in DOMAIN ticket[i].lines : ticket'[i].lines[j].line = ticket[i].lines[j].line

\* Then the rows of every line are the same.
LEMMA SameRows ==
  ASSUME SameLines
  PROVE  Rows' = Rows /\ \A l \in Lines : TicketLines(l)' = TicketLines(l)
<1>1. PICK T : T = ticket'
  OBVIOUS
<1>2. /\ DOMAIN T = DOMAIN ticket /\ \A i \in DOMAIN ticket : DOMAIN T[i].lines = DOMAIN ticket[i].lines
      /\ \A i \in DOMAIN ticket : \A j \in DOMAIN ticket[i].lines : T[i].lines[j].line = ticket[i].lines[j].line
  BY <1>1 DEF SameLines
<1>3. UNION {{i} \X DOMAIN T[i].lines : i \in DOMAIN T} = Rows
  BY <1>2 DEF Rows
<1>4. Rows' = Rows
  BY <1>1, <1>3 DEF Rows
<1>5. \A p \in Rows : T[p[1]].lines[p[2]].line = ticket[p[1]].lines[p[2]].line
  BY <1>2, RowsAre
<1>6. ASSUME NEW l \in Lines PROVE TicketLines(l)' = TicketLines(l)
  <2>1. TicketLines(l)' = {p \in Rows : T[p[1]].lines[p[2]].line = l}
    BY <1>1, <1>4 DEF TicketLines
  <2> QED
    BY <1>5, <2>1 DEF TicketLines
<1> QED
  BY <1>4, <1>6

\* What a step that fires nothing has to see to.
LEMMA NothingFired ==
  ASSUME KitchenInv, SameLines, UNCHANGED <<station, route, state, paid, send>>,
         edits' \in Nat, line' \in [Lines -> {"absent", "live", "voided", "removed"}], late' \in SUBSET Lines,
         \A i \in DOMAIN ticket' : ticket'[i].lines # << >>,
         paid \/ Finalizing => \A l \in Lines : Due(l)' => Due(l),
         PicksFollow', StruckWithLine'
  PROVE  KitchenInv'
<1>1. \A l \in Lines : TicketLines(l)' = TicketLines(l)
  BY SameRows
<1>2. StationsKept /\ TicketsKept
  BY DEF StationsKept, TicketsKept, SameLines
<1>3. KitchenTypes'
  BY DEF KitchenInv, KitchenTypes, SameLines
<1>4. PlansSound'
  <2> SUFFICES ASSUME NEW j \in Senders
               PROVE  PlanSound(send[j].plan)' /\ (send'[j].op \in {"none", "load", "again"} => send'[j].plan = {})
    BY DEF PlansSound
  <2>1. PICK p, w : p = send'[j].plan /\ w = send'[j].op
    OBVIOUS
  <2>2. PlanSound(p) /\ (w \in {"none", "load", "again"} => p = {})
    BY <2>1 DEF KitchenInv, PlansSound
  <2>3. PlanSound(p)'
    BY <1>2, <2>2, PlanStays
  <2> QED
    BY <2>1, <2>2, <2>3
<1>5. TicketsAtHome'
  BY DEF KitchenInv, TicketsAtHome, AtHome, SameLines
<1>6. RowsBounded'
  <2>1. \A l \in Lines : Pending(l)' = Pending(l)
    BY DEF Pending
  <2> QED
    BY <1>1, <2>1 DEF KitchenInv, RowsBounded
<1>7. PaymentCovers'
  <2>1. ASSUME NEW j \in Senders, send'[j].op = "pay", NEW l \in Lines, Due(l)' PROVE Covered(l, send[j].plan)'
    <3>1. send[j].op = "pay" /\ Finalizing
      BY <2>1 DEF Finalizing
    <3>2. Due(l)
      BY <2>1, <3>1
    <3>3. Covered(l, send[j].plan)
      BY <3>1, <3>2 DEF KitchenInv, PaymentCovers
    <3> QED
      BY <1>1, <3>3 DEF Covered
  <2>2. ASSUME paid', NEW l \in Lines, Due(l)' PROVE TicketLines(l)' # {}
    <3>1. paid /\ Due(l)
      BY <2>2
    <3> QED
      BY <1>1, <3>1 DEF KitchenInv, PaymentCovers
  <2> QED
    BY <2>1, <2>2 DEF PaymentCovers
<1> QED
  BY <1>3, <1>4, <1>5, <1>6, <1>7 DEF KitchenInv

\* A combo and its picks: whichever line of it is asked for, they go together.
LEMMA WholeTogether ==
  ASSUME KitchenInv, NEW l \in Lines, Parent[l] = NoId, NEW new,
         line' = [c \in Lines |-> IF c \in Whole(l) THEN new ELSE line[c]]
  PROVE  PicksFollow' /\ \A c \in Whole(l) : c \in Lines /\ line[c] = line[l] /\ line'[c] = new
<1>1. NoId \notin Lines
  BY KitchenAssumption
<1>2. \A c \in Lines : c \in Whole(l) <=> (c = l \/ Parent[c] = l)
  BY DEF Whole, Picks
<1>3. \A c \in Whole(l) : c \in Lines
  BY DEF Whole, Picks
<1>4. \A c \in Whole(l) : line[c] = line[l]
  BY <1>2, <1>3 DEF KitchenInv, PicksFollow
<1>5. ASSUME NEW c \in Lines, NEW m \in Lines, Parent[c] = m, Parent[m] = NoId PROVE line'[c] = line'[m]
  <2>1. line[c] = line[m]
    BY <1>5 DEF KitchenInv, PicksFollow
  <2>2. c \in Whole(l) <=> m \in Whole(l)
    BY <1>1, <1>2, <1>5
  <2> QED
    BY <2>1, <2>2
<1> QED
  BY <1>3, <1>4, <1>5 DEF PicksFollow

\* A line is added, or removed before it was sent.
LEMMA LineEdits ==
  ASSUME KitchenInv, NEW l \in Lines, addLine(l) \/ removeLine(l)
  PROVE  KitchenInv'
<1>1. PICK new \in {"live", "removed"} :
        /\ line' = [c \in Lines |-> IF c \in Whole(l) THEN new ELSE line[c]]
        /\ line[l] # "voided" /\ Parent[l] = NoId
        /\ new = "live" => late' = IF Finalizing \/ paid THEN late \cup Whole(l) ELSE late
        /\ new = "removed" => late' = late
        /\ UNCHANGED <<station, route, edits, state, paid, ticket, send>>
  BY DEF addLine, removeLine, Added
<1>2. PicksFollow' /\ \A c \in Whole(l) : c \in Lines /\ line[c] = line[l] /\ line'[c] = new
  BY <1>1, WholeTogether
<1>3. SameLines /\ edits' \in Nat /\ \A i \in DOMAIN ticket' : ticket'[i].lines # << >>
  BY <1>1 DEF SameLines, KitchenInv, KitchenTypes
<1>4. line' \in [Lines -> {"absent", "live", "voided", "removed"}] /\ late' \in SUBSET Lines
  BY <1>1, <1>2 DEF KitchenInv, KitchenTypes
<1>5. ASSUME paid \/ Finalizing, NEW c \in Lines, Due(c)' PROVE Due(c)
  <2>1. line'[c] = "live" /\ c \notin late' /\ Picks(c) = {}
    BY <1>5 DEF Due, Picks
  <2>2. CASE c \in Whole(l)
    BY <1>1, <1>2, <1>5, <2>1, <2>2
  <2>3. CASE c \notin Whole(l)
    <3>1. line'[c] = line[c] /\ (c \in late => c \in late')
      BY <1>1, <2>3
    <3> QED
      BY <2>1, <3>1 DEF Due
  <2> QED
    BY <2>2, <2>3
<1>6. StruckWithLine'
  <2>1. \A p \in Rows : ticket[p[1]].lines[p[2]].voided => line[ticket[p[1]].lines[p[2]].line] = "voided"
    BY DEF KitchenInv, StruckWithLine
  <2>2. \A c \in Lines : line[c] = "voided" => line'[c] = "voided"
    BY <1>1, <1>2
  <2>3. \A p \in Rows : ticket[p[1]].lines[p[2]].line \in Lines
    <3> TAKE p \in Rows
    <3>1. p[1] \in DOMAIN ticket /\ p[2] \in DOMAIN ticket[p[1]].lines
      BY RowsAre
    <3>2. ticket[p[1]] \in Ticket
      BY <3>1 DEF KitchenInv, KitchenTypes
    <3>3. ticket[p[1]].lines \in Seq(Row)
      BY <3>2 DEF Ticket
    <3>4. ticket[p[1]].lines[p[2]] \in Row
      BY <3>1, <3>3
    <3> QED
      BY <3>4 DEF Row
  <2>4. Rows' = Rows
    BY <1>3, SameRows
  <2> QED
    BY <1>1, <2>1, <2>2, <2>3, <2>4 DEF StruckWithLine
<1> QED
  BY <1>1, <1>2, <1>3, <1>4, <1>5, <1>6, NothingFired

\* The rows of one ticket, typed.
LEMMA RowsTyped ==
  ASSUME KitchenTypes, NEW i \in DOMAIN ticket
  PROVE  /\ ticket[i] \in Ticket /\ ticket[i].lines \in Seq(Row) /\ ticket[i].lines # << >>
         /\ DOMAIN ticket[i].lines = 1..Len(ticket[i].lines) /\ Len(ticket[i].lines) \in Nat
         /\ \A j \in DOMAIN ticket[i].lines : ticket[i].lines[j] \in Row
<1>1. ticket[i] \in Ticket /\ ticket[i].lines # << >>
  BY DEF KitchenTypes
<1>2. ticket[i].lines \in Seq(Row)
  BY <1>1 DEF Ticket
<1> QED
  BY <1>1, <1>2

\* A line is voided: its rows are struck out with it.
LEMMA VoidInv ==
  ASSUME KitchenInv, NEW l \in Lines, voidLine(l)
  PROVE  KitchenInv'
<1>1. /\ line[l] = "live" /\ Parent[l] = NoId
      /\ line' = [c \in Lines |-> IF c \in Whole(l) THEN "voided" ELSE line[c]]
      /\ ticket' = [i \in DOMAIN ticket |-> [ticket[i] EXCEPT !.lines =
                      [j \in DOMAIN ticket[i].lines |-> Struck(ticket[i].lines[j], Whole(l))]]]
      /\ UNCHANGED <<station, route, edits, state, paid, late, send>>
  BY DEF voidLine
<1>2. PicksFollow' /\ \A c \in Whole(l) : c \in Lines /\ line[c] = line[l] /\ line'[c] = "voided"
  BY <1>1, WholeTogether
<1>3. PICK T : T = ticket'
  OBVIOUS
<1>4. PICK W : W = Whole(l)
  OBVIOUS
<1>5. \A r \in Row : /\ Struck(r, W) \in Row /\ Struck(r, W).line = r.line
                     /\ Struck(r, W).voided = (r.voided \/ r.line \in W)
  BY DEF Struck, Row
<1>6. DOMAIN T = DOMAIN ticket
  BY <1>1, <1>3
<1>7. ASSUME NEW i \in DOMAIN ticket
      PROVE  /\ T[i] \in Ticket /\ T[i].station = ticket[i].station /\ T[i].lines # << >>
             /\ DOMAIN T[i].lines = DOMAIN ticket[i].lines
             /\ \A j \in DOMAIN ticket[i].lines : T[i].lines[j] = Struck(ticket[i].lines[j], W)
  <2>1. /\ ticket[i] \in Ticket /\ ticket[i].lines # << >> /\ ticket[i].lines \in Seq(Row)
        /\ DOMAIN ticket[i].lines = 1..Len(ticket[i].lines) /\ Len(ticket[i].lines) \in Nat
        /\ \A j \in DOMAIN ticket[i].lines : ticket[i].lines[j] \in Row
    BY RowsTyped DEF KitchenInv
  <2>2. PICK t \in Ticket, n \in Nat : t = ticket[i] /\ n = Len(ticket[i].lines) /\ n # 0
    BY <2>1
  <2>3. PICK q : q = [j \in 1..n |-> Struck(t.lines[j], W)]
    OBVIOUS
  <2>4. q \in Seq(Row) /\ Len(q) = n /\ DOMAIN q = 1..n /\ q # << >>
    <3>1. \A j \in 1..n : Struck(t.lines[j], W) \in Row
      BY <1>5, <2>1, <2>2
    <3>2. q \in Seq(Row) /\ Len(q) = n /\ DOMAIN q = 1..n
      BY <2>3, <3>1
    <3> QED
      BY <2>2, <3>2
  <2>5. T[i] = [t EXCEPT !.lines = q]
    BY <1>1, <1>3, <1>4, <2>1, <2>2, <2>3
  <2>6. T[i] \in Ticket /\ T[i].station = t.station /\ T[i].lines = q
    BY <2>4, <2>5 DEF Ticket
  <2> QED
    BY <2>1, <2>2, <2>3, <2>4, <2>6
<1>8. T \in Seq(Ticket)
  <2>1. DOMAIN T = 1..Len(ticket) /\ Len(ticket) \in Nat
    BY <1>6 DEF KitchenInv, KitchenTypes
  <2>2. T = [i \in 1..Len(ticket) |-> T[i]]
    BY <1>1, <1>3, <2>1
  <2>3. \A i \in 1..Len(ticket) : T[i] \in Ticket
    BY <1>6, <1>7, <2>1
  <2> QED
    BY <2>1, <2>2, <2>3
<1>9. ASSUME NEW i \in DOMAIN ticket, NEW j \in DOMAIN ticket[i].lines
      PROVE  /\ ticket[i].lines[j] \in Row /\ T[i].lines[j].line = ticket[i].lines[j].line
             /\ T[i].lines[j].voided => (ticket[i].lines[j].voided \/ ticket[i].lines[j].line \in W)
  <2>1. ticket[i].lines[j] \in Row
    BY RowsTyped DEF KitchenInv
  <2>2. T[i].lines[j] = Struck(ticket[i].lines[j], W)
    BY <1>7
  <2> QED
    BY <1>5, <2>1, <2>2
<1>10. SameLines
  BY <1>3, <1>6, <1>7, <1>8, <1>9 DEF SameLines
<1>11. \A i \in DOMAIN ticket' : ticket'[i].lines # << >>
  BY <1>3, <1>6, <1>7
<1>12. line' \in [Lines -> {"absent", "live", "voided", "removed"}] /\ late' \in SUBSET Lines /\ edits' \in Nat
  BY <1>1 DEF KitchenInv, KitchenTypes
<1>13. \A c \in Lines : Due(c)' => Due(c)
  <2> SUFFICES ASSUME NEW c \in Lines, Due(c)' PROVE Due(c)
    OBVIOUS
  <2>1. line'[c] = "live" /\ c \notin late /\ Picks(c) = {}
    BY <1>1 DEF Due, Picks
  <2>2. line[c] = "live"
    BY <1>1, <2>1
  <2> QED
    BY <2>1, <2>2 DEF Due
<1>14. StruckWithLine'
  <2>1. ASSUME NEW p \in Rows, T[p[1]].lines[p[2]].voided PROVE line'[T[p[1]].lines[p[2]].line] = "voided"
    <3>1. p[1] \in DOMAIN ticket /\ p[2] \in DOMAIN ticket[p[1]].lines
      BY RowsAre
    <3>2. PICK r \in Row : r = ticket[p[1]].lines[p[2]] /\ T[p[1]].lines[p[2]].line = r.line /\ (r.voided \/ r.line \in W)
      BY SMTT(40), <1>9, <2>1, <3>1
    <3>3. r.line \in Lines /\ (r.voided => line[r.line] = "voided")
      BY <3>2 DEF Row, KitchenInv, StruckWithLine
    <3>4. line'[r.line] = "voided"
      BY <1>1, <1>2, <1>4, <3>2, <3>3
    <3> QED
      BY <3>2, <3>4
  <2>2. Rows' = Rows
    BY <1>10, SameRows
  <2> QED
    BY <1>3, <2>1, <2>2 DEF StruckWithLine
<1> QED
  BY <1>1, <1>2, <1>10, <1>11, <1>12, <1>13, <1>14, NothingFired

\* One ticket is bumped, recalled or fired again.
LEMMA TicketActions ==
  ASSUME KitchenInv, NEW i \in DOMAIN ticket, bump(i) \/ recall(i) \/ refire(i)
  PROVE  KitchenInv'
<1>1. UNCHANGED <<station, route, state, paid, line, late, send>> /\ (edits' = edits \/ edits' = edits + 1)
  BY DEF bump, recall, refire, Edited
<1>2. /\ ticket[i] \in Ticket /\ ticket[i].lines \in Seq(Row) /\ ticket[i].lines # << >>
      /\ DOMAIN ticket[i].lines = 1..Len(ticket[i].lines) /\ Len(ticket[i].lines) \in Nat
      /\ \A j \in DOMAIN ticket[i].lines : ticket[i].lines[j] \in Row
  BY RowsTyped DEF KitchenInv
<1>3. PICK t \in Ticket, n \in Nat : t = ticket[i] /\ n = Len(t.lines) /\ n # 0 /\ DOMAIN t.lines = 1..n
  BY <1>2
<1>4. \A j \in 1..n : t.lines[j] \in Row
  BY <1>2, <1>3
<1>5. PICK u \in Ticket :
        /\ ticket' = [ticket EXCEPT ![i] = u] /\ u.station = t.station /\ u.lines # << >> /\ DOMAIN u.lines = 1..n
        /\ \A j \in 1..n : u.lines[j].line = t.lines[j].line /\ u.lines[j].voided = t.lines[j].voided
  <2>1. CASE bump(i)
    <3>1. PICK u : u = [t EXCEPT !.st = "bumped"]
      OBVIOUS
    <3>2. u \in Ticket /\ u.station = t.station /\ u.lines = t.lines
      BY <3>1 DEF Ticket
    <3>3. ticket' = [ticket EXCEPT ![i] = u]
      BY <1>3, <2>1, <3>1 DEF bump
    <3> QED
      BY <1>2, <1>3, <3>2, <3>3
  <2>2. CASE recall(i) \/ refire(i)
    <3>1. PICK q : q = [j \in 1..n |-> [t.lines[j] EXCEPT !.seen = TRUE]]
      OBVIOUS
    <3>2. \A r \in Row : [r EXCEPT !.seen = TRUE] \in Row /\ [r EXCEPT !.seen = TRUE].line = r.line
                         /\ [r EXCEPT !.seen = TRUE].voided = r.voided
      BY DEF Row
    <3>3. \A j \in 1..n : q[j] \in Row /\ q[j].line = t.lines[j].line /\ q[j].voided = t.lines[j].voided
      BY <1>4, <3>1, <3>2
    <3>4. q \in Seq(Row) /\ DOMAIN q = 1..n /\ q # << >>
      <4>1. q \in Seq(Row) /\ DOMAIN q = 1..n /\ Len(q) = n
        BY <3>1, <3>3
      <4> QED
        BY <1>3, <4>1
    <3>5. PICK mid : mid = [t EXCEPT !.st = "queued"]
      OBVIOUS
    <3>6. mid \in Ticket /\ mid.station = t.station
      BY <3>5 DEF Ticket
    <3>7. PICK u : u = [mid EXCEPT !.lines = q]
      OBVIOUS
    <3>8. u \in Ticket /\ u.station = t.station /\ u.lines = q
      BY <3>4, <3>6, <3>7 DEF Ticket
    <3>9. ticket' = [ticket EXCEPT ![i] = u]
      <4>1. ticket' = Requeued(i)
        BY <2>2 DEF recall, refire
      <4>2. Requeued(i) = [ticket EXCEPT ![i] = u]
        BY <1>3, <3>1, <3>5, <3>7 DEF Requeued
      <4> QED
        BY <4>1, <4>2
    <3> QED
      BY <3>3, <3>4, <3>8, <3>9
  <2> QED
    BY <2>1, <2>2
<1>6. ticket \in Seq(Ticket) /\ DOMAIN ticket = 1..Len(ticket) /\ Len(ticket) \in Nat
  BY DEF KitchenInv, KitchenTypes
<1>7. PICK T : T = ticket'
  OBVIOUS
<1>8. T \in Seq(Ticket) /\ DOMAIN T = DOMAIN ticket /\ T[i] = u /\ \A a \in DOMAIN ticket : a # i => T[a] = ticket[a]
  BY <1>5, <1>6, <1>7
<1>9. \A a \in DOMAIN ticket :
        /\ T[a].station = ticket[a].station /\ DOMAIN T[a].lines = DOMAIN ticket[a].lines /\ T[a].lines # << >>
        /\ \A j \in DOMAIN ticket[a].lines :
             T[a].lines[j].line = ticket[a].lines[j].line /\ T[a].lines[j].voided = ticket[a].lines[j].voided
  <2> TAKE a \in DOMAIN ticket
  <2>1. CASE a = i
    BY <1>3, <1>5, <1>8, <2>1
  <2>2. CASE a # i
    BY <1>8, <2>2 DEF KitchenInv, KitchenTypes
  <2> QED
    BY <2>1, <2>2
<1>10. SameLines
  BY <1>7, <1>8, <1>9 DEF SameLines
<1>11. \A a \in DOMAIN ticket' : ticket'[a].lines # << >>
  BY <1>7, <1>8, <1>9
<1>12. line' \in [Lines -> {"absent", "live", "voided", "removed"}] /\ late' \in SUBSET Lines /\ edits' \in Nat
  BY <1>1 DEF KitchenInv, KitchenTypes
<1>13. \A c \in Lines : Due(c)' => Due(c)
  BY <1>1 DEF Due, Picks
<1>14. PicksFollow'
  BY <1>1 DEF KitchenInv, PicksFollow
<1>15. StruckWithLine'
  <2>1. Rows' = Rows
    BY <1>10, SameRows
  <2>2. \A p \in Rows : T[p[1]].lines[p[2]].line = ticket[p[1]].lines[p[2]].line
                        /\ T[p[1]].lines[p[2]].voided = ticket[p[1]].lines[p[2]].voided
    BY <1>9, RowsAre
  <2> QED
    BY <1>1, <1>7, <2>1, <2>2 DEF KitchenInv, StruckWithLine
<1> QED
  BY <1>1, <1>10, <1>11, <1>12, <1>13, <1>14, <1>15, NothingFired

\* The invariant holds of every reachable state, for any lines, stations and
\* number of sends that overlap.
THEOREM KitchenInvariance == KitchenSpec => []KitchenInv
<1>1. KitchenInit => KitchenInv
  <2> SUFFICES ASSUME KitchenInit PROVE KitchenInv
    OBVIOUS
  <2>1. ticket = << >> /\ DOMAIN ticket = {} /\ Rows = {}
    BY DEF KitchenInit, Rows
  <2>2. \A k \in Senders : send[k] = NoSend /\ send[k].op = "none" /\ send[k].plan = {}
    BY DEF KitchenInit, NoSend
  <2>3. KitchenTypes
    <3>1. NoSend \in Send
      BY DEF NoSend, Send
    <3>2. \A s \in Stations : Setup[s] \in Station
      BY KitchenAssumption DEF Station
    <3>3. station \in [Stations -> Station]
      BY <3>2, KitchenAssumption DEF KitchenInit
    <3>4. route \in [Lines -> Stations \cup {NoId}]
      BY KitchenAssumption DEF KitchenInit
    <3>5. send \in [Senders -> Send]
      BY <3>1 DEF KitchenInit
    <3>6. ticket \in Seq(Ticket) /\ \A i \in DOMAIN ticket : ticket[i].lines # << >>
      BY <2>1
    <3>7. edits \in Nat /\ state \in {"open", "sent", "closed"}
      BY DEF KitchenInit
    <3>8. paid \in BOOLEAN
      BY Zenon DEF KitchenInit
    <3>9. line \in [Lines -> {"absent", "live", "voided", "removed"}] /\ late \in SUBSET Lines
      BY DEF KitchenInit
    <3> QED
      BY <3>3, <3>4, <3>5, <3>6, <3>7, <3>8, <3>9 DEF KitchenTypes
  <2>4. PlansSound
    <3>1. PlanSound({})
      BY FS_EmptySet DEF PlanSound
    <3> QED
      BY <2>2, <3>1 DEF PlansSound
  <2>5. TicketsAtHome /\ StruckWithLine
    BY <2>1 DEF TicketsAtHome, StruckWithLine
  <2>6. RowsBounded
    <3> SUFFICES ASSUME NEW l \in Lines
                 PROVE  IsFiniteSet(TicketLines(l)) /\ Cardinality(TicketLines(l)) + Cardinality(Pending(l)) <= Cardinality(Senders)
      BY DEF RowsBounded
    <3>1. TicketLines(l) = {} /\ Pending(l) = {}
      BY <2>1, <2>2 DEF TicketLines, Pending
    <3>2. Cardinality({}) = 0 /\ IsFiniteSet({}) /\ Cardinality(Senders) \in Nat
      BY KitchenAssumption, FS_EmptySet, FS_CardinalityType
    <3> QED
      BY <3>1, <3>2
  <2>7. PicksFollow
    BY DEF KitchenInit, PicksFollow
  <2>8. PaymentCovers
    BY <2>2 DEF KitchenInit, PaymentCovers
  <2> QED
    BY <2>3, <2>4, <2>5, <2>6, <2>7, <2>8 DEF KitchenInv
<1>2. KitchenInv /\ [KitchenNext]_kitchenVars => KitchenInv'
  <2> SUFFICES ASSUME KitchenInv, [KitchenNext]_kitchenVars PROVE KitchenInv'
    OBVIOUS
  <2>1. CASE \/ \E s \in Stations, o \in {Home, Away}, n \in Names : createStation(s, o, n)
             \/ \E s \in Stations, n \in Names : updateStation(s, n)
             \/ \E s \in Stations : deleteStation(s)
             \/ \E l \in Lines, s \in Stations \cup {NoId} : setStation(l, s)
    BY <2>1, StationEdits
  <2>2. ASSUME NEW k \in Senders, SendLoad(k) \/ FirstFire(k) \/ AgainFire(k) \/ PayFire(k) \/ SendRefused(k)
        PROVE  KitchenInv'
    BY <2>2, SendReads
  <2>3. ASSUME NEW k \in Senders, FireWrite(k) PROVE KitchenInv'
    BY <2>3, FireWriteInv
  <2>4. ASSUME NEW l \in Lines, addLine(l) \/ removeLine(l) PROVE KitchenInv'
    BY <2>4, LineEdits
  <2>5. ASSUME NEW l \in Lines, voidLine(l) PROVE KitchenInv'
    BY <2>5, VoidInv
  <2>6. ASSUME NEW i \in DOMAIN ticket, bump(i) \/ recall(i) \/ refire(i) PROVE KitchenInv'
    BY <2>6, TicketActions
  <2>7. CASE UNCHANGED kitchenVars
    <3>1. UNCHANGED <<station, route, edits, state, paid, line, late, ticket, send>>
      BY <2>7 DEF kitchenVars
    <3>2. KitchenTypes' /\ PlansSound' /\ TicketsAtHome'
      <4>1. KitchenTypes'
        BY <3>1 DEF KitchenInv, KitchenTypes
      <4>2. TicketsAtHome'
        BY <3>1 DEF KitchenInv, TicketsAtHome, AtHome
      <4>3. \A plan : PlanSound(plan) => PlanSound(plan)'
        BY <3>1 DEF PlanSound, AtHome
      <4>4. PlansSound'
        BY <3>1, <4>3 DEF KitchenInv, PlansSound
      <4> QED
        BY <4>1, <4>2, <4>4
    <3>3. RowsBounded' /\ PicksFollow' /\ StruckWithLine'
      <4>1. Rows' = Rows
        BY <3>1 DEF Rows
      <4>2. \A l : TicketLines(l)' = TicketLines(l) /\ Pending(l)' = Pending(l)
        BY <3>1, <4>1 DEF TicketLines, Pending
      <4>3. RowsBounded'
        BY <4>2 DEF KitchenInv, RowsBounded
      <4>4. PicksFollow'
        BY <3>1 DEF KitchenInv, PicksFollow
      <4>5. StruckWithLine'
        BY <3>1, <4>1 DEF KitchenInv, StruckWithLine
      <4> QED
        BY <4>3, <4>4, <4>5
    <3>4. PaymentCovers'
      BY <3>1 DEF KitchenInv, PaymentCovers, Due, Covered, Picks, TicketLines, Rows
    <3> QED
      BY <3>2, <3>3, <3>4 DEF KitchenInv
  <2> QED
    BY <2>1, <2>2, <2>3, <2>4, <2>5, <2>6, <2>7 DEF KitchenNext
<1> QED
  BY <1>1, <1>2, PTL DEF KitchenSpec

\* Whatever station an item is routed to, and whatever is renamed or removed
\* between fireOnSend()'s reads and its writes, no dish is put on a screen of
\* another outlet (routeStationId, PE-21).
THEOREM DishesStayHome == KitchenSpec => []HomeScreens
<1>1. KitchenInv => HomeScreens
  BY DEF KitchenInv, TicketsAtHome, AtHome, HomeScreens
<1> QED
  BY <1>1, KitchenInvariance, PTL

\* A line is on no more ticket rows than there are sends that can overlap: one
\* that starts later never fires it again (fireOnSend).
THEOREM LinesFiredOncePerSender == KitchenSpec => []FiredOncePerSender
<1>1. ASSUME KitchenInv PROVE FiredOncePerSender
  <2> SUFFICES ASSUME NEW l \in Lines PROVE Cardinality(TicketLines(l)) <= Cardinality(Senders)
    BY DEF FiredOncePerSender
  <2>1. IsFiniteSet(TicketLines(l)) /\ Cardinality(TicketLines(l)) + Cardinality(Pending(l)) <= Cardinality(Senders)
    BY <1>1 DEF KitchenInv, RowsBounded
  <2>2. Pending(l) \in SUBSET Senders
    BY DEF Pending
  <2>3. Cardinality(TicketLines(l)) \in Nat /\ Cardinality(Pending(l)) \in Nat /\ Cardinality(Senders) \in Nat
    BY <2>1, <2>2, KitchenAssumption, FS_Subset, FS_CardinalityType
  <2> QED
    BY <2>1, <2>3
<1> QED
  BY <1>1, KitchenInvariance, PTL

\* The backstop in finalize: every dish of a paid order that was there when the
\* payment began is in front of the kitchen (fireOnSend, expo, stationQueue).
THEOREM PaidOrdersReachKitchen == KitchenSpec => []PaidReachesKitchen
<1>1. ASSUME KitchenInv PROVE PaidReachesKitchen
  <2> SUFFICES ASSUME paid, NEW l \in Lines, line[l] = "live", Picks(l) = {}, l \notin late
               PROVE  \E p \in TicketLines(l) :
                        IF ticket[p[1]].st = "bumped" THEN p[1] \in bumped
                        ELSE /\ expo /\ p \in waitingOn
                             /\ l \in allDaySummary
                             /\ \/ \E s \in listStations \cup {NoId} : p[1] \in stationQueue(s)
                                \/ station[ticket[p[1]].station].st = "deleted"
    BY DEF PaidReachesKitchen
  <2>1. PICK p \in TicketLines(l) : TRUE
    BY <1>1 DEF KitchenInv, PaymentCovers, Due
  <2>2. /\ p \in Rows /\ ticket[p[1]].lines[p[2]].line = l
        /\ p[1] \in DOMAIN ticket /\ p[2] \in DOMAIN ticket[p[1]].lines
    BY <2>1, RowsAre DEF TicketLines
  <2>3. PICK i \in DOMAIN ticket : i = p[1]
    BY <2>2
  <2>4. ~ ticket[i].lines[p[2]].voided
    BY <1>1, <2>2, <2>3 DEF KitchenInv, StruckWithLine
  <2>5. PICK t \in Ticket : t = ticket[i]
    BY <1>1, RowsTyped DEF KitchenInv
  <2>6. t.st \in {"queued", "bumped"} /\ t.station \in Stations \cup {NoId}
    BY DEF Ticket
  <2>7. CASE t.st = "bumped"
    <3>1. i \in bumped
      BY <2>3, <2>5, <2>7 DEF bumped, Queued
    <3> QED
      BY <2>1, <2>3, <2>5, <2>7, <3>1
  <2>8. CASE t.st = "queued"
    <3>1. i \in Queued
      BY <2>3, <2>5, <2>8 DEF Queued
    <3>2. expo
      BY <2>3, <3>1 DEF expo
    <3>3. p \in waitingOn
      BY <2>2, <2>3, <2>4, <3>1 DEF waitingOn, LiveRow
    <3>4. l \in allDaySummary
      BY <2>2, <3>3 DEF allDaySummary
    <3>5. \/ \E s \in listStations \cup {NoId} : i \in stationQueue(s)
          \/ station[t.station].st = "deleted"
      <4>1. CASE t.station = NoId
        BY <2>3, <2>5, <2>8, <4>1 DEF stationQueue, resolveStationParam
      <4>2. CASE t.station # NoId
        <5>1. PICK s \in Stations : s = t.station
          BY <2>6, <4>2
        <5>2. station[s].st # "none" /\ station[s].outlet = Home
          BY <1>1, <2>3, <2>5, <4>2, <5>1 DEF KitchenInv, TicketsAtHome, AtHome
        <5>3. station[s].st \in {"none", "live", "deleted"}
          BY <1>1, <5>1 DEF KitchenInv, KitchenTypes, Station
        <5>4. CASE station[s].st = "live"
          <6>1. s \in listStations
            BY <5>2, <5>4 DEF listStations, LiveAt
          <6>2. i \in stationQueue(s)
            BY <2>3, <2>5, <2>8, <5>1, <5>2 DEF stationQueue, resolveStationParam
          <6> QED
            BY <6>1, <6>2
        <5> QED
          BY <5>1, <5>2, <5>3, <5>4
      <4> QED
        BY <4>1, <4>2
    <3> QED
      BY <2>1, <2>3, <2>5, <2>8, <3>2, <3>3, <3>4, <3>5
  <2> QED
    BY <2>6, <2>7, <2>8
<1> QED
  BY <1>1, KitchenInvariance, PTL

=============================================================================
