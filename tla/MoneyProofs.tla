---------------------------- MODULE MoneyProofs -----------------------------
(***************************************************************************)
(* Proofs about money: the tax engine (Money) and the credit notes of a    *)
(* bill (Refunds).                                                         *)
(***************************************************************************)
EXTENDS Refunds, MCMoney, Sums, TLAPS

-----------------------------------------------------------------------------
(* Divisions *)

\* A quotient grows with its numerator.
LEMMA DivisionGrows ==
  ASSUME NEW a \in Int, NEW b \in Int, a <= b, NEW W \in Nat \ {0}
  PROVE  a \div W <= b \div W
<1>1. PICK p \in Int, q \in Int : p = a \div W /\ q = b \div W
  BY RoundedDown
<1>2. 0 <= a - W * p /\ b - W * q <= W - 1
  BY <1>1, RoundedDown
<1>3. CASE p <= q
  BY <1>1, <1>3
<1>4. CASE q + 1 <= p
  <2>1. W * (q + 1) <= W * p
    BY <1>4
  <2>2. W * (q + 1) = W * q + W
    OBVIOUS
  <2>3. PICK x \in Int, y \in Int : x = W * q /\ y = W * p
    OBVIOUS
  <2>4. x + W <= y /\ 0 <= a - y /\ b - x <= W - 1
    BY <1>2, <2>1, <2>2, <2>3
  <2> QED
    BY <2>4
<1> QED
  BY <1>3, <1>4

\* The quotient of a natural is one, and zero of zero.
LEMMA DivisionNat ==
  ASSUME NEW a \in Nat, NEW W \in Nat \ {0}
  PROVE  a \div W \in Nat /\ (a < W => a \div W = 0)
<1>1. PICK q \in Int : q = a \div W
  BY RoundedDown
<1>2. 0 <= a - W * q /\ a - W * q <= W - 1
  BY <1>1, RoundedDown
<1>3. q >= 0
  <2> SUFFICES ASSUME q <= -1 PROVE FALSE
    OBVIOUS
  <2>1. W * q <= W * (-1)
    OBVIOUS
  <2>2. W * (-1) = -W
    OBVIOUS
  <2> QED
    BY <1>2, <2>1, <2>2
<1>4. ASSUME a < W PROVE q = 0
  <2> SUFFICES ASSUME q >= 1 PROVE FALSE
    BY <1>3
  <2>1. W * 1 <= W * q
    OBVIOUS
  <2> QED
    BY <1>2, <1>4, <2>1
<1> QED
  BY <1>1, <1>3, <1>4

-----------------------------------------------------------------------------
(* The tax of a bill *)

\* A tax rounded half up of a natural amount is natural (tax.ts roundHalfUp).
LEMMA HalfUpNat ==
  ASSUME NEW a \in Nat, NEW d \in Nat \ {0}
  PROVE  roundHalfUp(a, d) \in Nat /\ (a = 0 => roundHalfUp(a, d) = 0)
<1>1. roundHalfUp(a, d) = (2 * a + d) \div (2 * d) /\ 2 * a + d \in Nat /\ 2 * d \in Nat \ {0}
  BY DEF roundHalfUp
<1>2. a = 0 => 2 * a + d < 2 * d
  OBVIOUS
<1>3. PICK n \in Nat, W \in Nat \ {0} : n = 2 * a + d /\ W = 2 * d
  BY <1>1
<1> QED
  BY <1>1, <1>2, <1>3, DivisionNat

\* Likewise half even (tax.ts roundHalfEven).
LEMMA HalfEvenNat ==
  ASSUME NEW a \in Nat, NEW d \in Nat \ {0}
  PROVE  roundHalfEven(a, d) \in Nat /\ (a = 0 => roundHalfEven(a, d) = 0)
<1>1. PICK q \in Nat : q = a \div d /\ (a = 0 => q = 0)
  BY DivisionNat
<1>2. HalfEvenOfNat(a, d) \in {q, q + 1}
  <2> HIDE DEF HalfEvenOfNat
  <2>1. HalfEvenOfNat(a, d) = a \div d \/ HalfEvenOfNat(a, d) = (a \div d) + 1
    BY DEF HalfEvenOfNat
  <2> QED
    BY <1>1, <2>1
<1>3. ASSUME a = 0 PROVE HalfEvenOfNat(a, d) = q
  <2>1. a % d = 0
    BY <1>3
  <2>2. ~ 2 * (a % d) > d /\ 2 * (a % d) # d
    BY <2>1
  <2>3. HalfEvenOfNat(a, d) = a \div d
    BY <2>2 DEF HalfEvenOfNat
  <2> QED
    BY <1>1, <2>3
<1> QED
  BY <1>1, <1>2, <1>3 DEF roundHalfEven

\* No tax is negative, and nothing is taxed for nothing (tax.ts computeTax).
LEMMA TaxNat ==
  ASSUME NEW p \in TaxProfiles, NEW n \in Nat
  PROVE  computeTax(p, n).taxMinor \in Nat /\ (n = 0 => computeTax(p, n).taxMinor = 0)
<1>1. PICK r \in Nat : r = p.rateBasis
  BY DEF TaxProfiles
<1>2. PICK a \in Nat : a = n * r /\ (n = 0 => a = 0)
  OBVIOUS
<1>3. CASE computeTax(p, n) = NoTax
  BY <1>3 DEF NoTax, TaxResult
<1>4. CASE computeTax(p, n) = TaxIGST(p, n)
  <2>1. TaxIGST(p, n).taxMinor = roundHalfUp(a, 10000)
    BY <1>1, <1>2 DEF TaxIGST, TaxResult
  <2> QED
    BY <1>2, <1>4, <2>1, HalfUpNat
<1>5. CASE computeTax(p, n) = TaxCgstSgst(p, n)
  <2>1. PICK t \in Nat : t = roundHalfUp(a, 10000) /\ (n = 0 => t = 0)
    BY <1>2, HalfUpNat
  <2>2. PICK u \in Nat : u = roundHalfUp(a, 20000) /\ (n = 0 => u = 0)
    BY <1>2, HalfUpNat
  <2>3. PICK e \in Nat : e = roundHalfEven(a, 20000) /\ (n = 0 => e = 0)
    BY <1>2, HalfEvenNat
  <2>4. LowerHalf(t) \in Int
    BY DEF LowerHalf
  <2>5. CASE p.gstSplitRounding = "exact_total"
    <3>1. TaxCgstSgst(p, n).taxMinor = LowerHalf(t) + (t - LowerHalf(t))
      BY <1>1, <1>2, <2>1, <2>5 DEF TaxCgstSgst, TaxResult
    <3>2. TaxCgstSgst(p, n).taxMinor = t
      BY <2>4, <3>1
    <3> QED
      BY <1>5, <2>1, <3>2
  <2>6. CASE p.gstSplitRounding = "equal_half_up"
    <3>1. TaxCgstSgst(p, n).taxMinor = u + u
      BY <1>1, <1>2, <2>2, <2>6 DEF TaxCgstSgst, TaxResult
    <3> QED
      BY <1>5, <2>2, <3>1
  <2>7. CASE p.gstSplitRounding = "equal_half_even"
    <3>1. TaxCgstSgst(p, n).taxMinor = e + e
      BY <1>1, <1>2, <2>3, <2>7 DEF TaxCgstSgst, TaxResult
    <3> QED
      BY <1>5, <2>3, <3>1
  <2> QED
    BY <2>5, <2>6, <2>7 DEF TaxProfiles, GstSplitRounding
<1>6. CASE computeTax(p, n) = TaxAU(p, n)
  <2>1. PICK d \in Nat \ {0} : d = 10000 + r
    OBVIOUS
  <2>2. PICK b \in Nat : b = n * 10000 /\ (n = 0 => b = 0)
    OBVIOUS
  <2>3. PICK u \in Nat : u = roundHalfUp(b, d) /\ (n = 0 => u = 0)
    BY <2>2, HalfUpNat
  <2>4. TaxAU(p, n).taxMinor = n - u
    BY <1>1, <2>1, <2>2, <2>3 DEF TaxAU, TaxResult
  <2>5. u = (2 * b + d) \div (2 * d)
    BY <2>3 DEF roundHalfUp
  <2>6. PICK W \in Nat \ {0}, m \in Nat : W = 2 * d /\ m = 2 * b + d
    OBVIOUS
  <2>7. 0 <= m - W * u
    <3>1. u = m \div W
      BY <2>5, <2>6
    <3> QED
      BY <3>1, RoundedDown
  <2>8. u <= n
    <3> SUFFICES ASSUME n + 1 <= u PROVE FALSE
      OBVIOUS
    <3>1. W * (n + 1) <= W * u
      OBVIOUS
    <3>2. W * (n + 1) = W * n + W
      OBVIOUS
    <3>3. 2 * b <= W * n
      <4>1. W = 20000 + 2 * r
        BY <2>1, <2>6
      <4>2. W * n = 20000 * n + 2 * a
        BY <1>2, <4>1
      <4> QED
        BY <2>2, <4>2
    <3> QED
      BY <2>6, <2>7, <3>1, <3>2, <3>3
  <2> QED
    BY <1>6, <2>3, <2>4, <2>8
<1> QED
  BY <1>3, <1>4, <1>5, <1>6 DEF computeTax, TaxProfiles

-----------------------------------------------------------------------------
(* What a note is worth *)

Keys == (0..MaxTargets) \X Lines

Row == [l : Lines, q : Nat, amount : Nat]

Note == [subtotal : Nat, tax : Nat, lines : UNION {[K -> Row] : K \in SUBSET Keys}]

\* Finitely many rows, of lines and quantities.
RowsOK(rows) == IsFiniteSet(DOMAIN rows) /\ \A k \in DOMAIN rows : rows[k].l \in Lines /\ rows[k].q \in Nat

\* The keys of rows are finitely many.
LEMMA KeysFinite == \A K \in SUBSET Keys : IsFiniteSet(K)
<1>1. IsFiniteSet(0..MaxTargets) /\ IsFiniteSet(Lines)
  <2>1. MaxTargets \in Nat /\ IsFiniteSet(Lines)
    BY RefundsAssumption
  <2>2. IsFiniteSet(0..MaxTargets)
    BY <2>1, FS_Interval
  <2> QED
    BY <2>1, <2>2
<1>2. IsFiniteSet(Keys)
  BY <1>1, FS_Product DEF Keys
<1> QED
  BY <1>2, FS_Subset

\* The rows of a note are sound.
LEMMA NoteRows ==
  ASSUME NEW n \in Note
  PROVE  RowsOK(n.lines) /\ n.subtotal \in Nat /\ n.tax \in Nat
<1>1. PICK K \in SUBSET Keys : n.lines \in [K -> Row]
  BY DEF Note
<1> QED
  BY <1>1, KeysFinite DEF RowsOK, Row, Note

\* Units and gross of rows are naturals (refundedSoFar, grossMinor).
LEMMA RowSums ==
  ASSUME NEW rows, RowsOK(rows)
  PROVE  Gross(rows) \in Nat /\ \A l : Units(rows, l) \in Nat
<1>1. DOMAIN rows \in SUBSET (DOMAIN rows)
  OBVIOUS
<1>2. Gross(rows) \in Nat
  <2> DEFINE f == [k \in DOMAIN rows |-> rows[k].q * Price[rows[k].l]]
  <2>1. DOMAIN f = DOMAIN rows /\ \A k \in DOMAIN rows : f[k] \in Nat
    BY RefundsAssumption DEF RowsOK
  <2>2. Gross(rows) = SumFunctionOnSet(f, DOMAIN f)
    BY DEF Gross, SumFunction
  <2> HIDE DEF f
  <2> QED
    BY <1>1, <2>1, <2>2, SumNaturals DEF RowsOK
<1>3. ASSUME NEW l PROVE Units(rows, l) \in Nat
  <2> DEFINE f == [k \in DOMAIN rows |-> IF rows[k].l = l THEN rows[k].q ELSE 0]
  <2>1. DOMAIN f = DOMAIN rows /\ \A k \in DOMAIN rows : f[k] \in Nat
    BY DEF RowsOK
  <2>2. Units(rows, l) = SumFunctionOnSet(f, DOMAIN f)
    BY DEF Units, SumFunction
  <2> HIDE DEF f
  <2> QED
    BY <1>1, <2>1, <2>2, SumNaturals DEF RowsOK
<1> QED
  BY <1>2, <1>3

\* Rows that agree in line and quantity have the same units and gross.
LEMMA RowsAlike ==
  ASSUME NEW a, RowsOK(a), NEW b, DOMAIN b = DOMAIN a, \A k \in DOMAIN a : b[k].l = a[k].l /\ b[k].q = a[k].q
  PROVE  Gross(b) = Gross(a) /\ \A l : Units(b, l) = Units(a, l)
<1>1. Gross(b) = Gross(a)
  <2> DEFINE f == [k \in DOMAIN a |-> a[k].q * Price[a[k].l]]
             g == [k \in DOMAIN b |-> b[k].q * Price[b[k].l]]
  <2>1. f = g
    OBVIOUS
  <2> QED
    BY <2>1 DEF Gross
<1>2. ASSUME NEW l PROVE Units(b, l) = Units(a, l)
  <2> DEFINE f == [k \in DOMAIN a |-> IF a[k].l = l THEN a[k].q ELSE 0]
             g == [k \in DOMAIN b |-> IF b[k].l = l THEN b[k].q ELSE 0]
  <2>1. f = g
    OBVIOUS
  <2> QED
    BY <2>1 DEF Units
<1> QED
  BY <1>1, <1>2

\* The units of every line at its price (refund(), restiq-backend#221).
Priced(units) == SumFunctionOnSet([l \in Lines |-> Price[l] * units[l]], Lines)

\* What rows cost is what their units cost line by line.
LEMMA GrossByLine ==
  ASSUME NEW rows, RowsOK(rows)
  PROVE  Gross(rows) = Priced([l \in Lines |-> Units(rows, l)])
<1> DEFINE D == DOMAIN rows
           f == [k \in D |-> rows[k].q * Price[rows[k].l]]
           of == [k \in D |-> rows[k].l]
           In(l) == [k \in D |-> IF of[k] = l THEN f[k] ELSE 0]
           u(l) == [k \in D |-> IF rows[k].l = l THEN rows[k].q ELSE 0]
           A == [l \in Lines |-> SumFunctionOnSet(In(l), D)]
           B == [l \in Lines |-> Price[l] * Units(rows, l)]
<1>1. IsFiniteSet(D) /\ IsFiniteSet(Lines)
  BY RefundsAssumption DEF RowsOK
<1>2. \A k \in D : f[k] \in Int /\ of[k] \in Lines
  BY RefundsAssumption DEF RowsOK
<1>3. Gross(rows) = SumFunctionOnSet(f, D)
  BY DEF Gross, SumFunction
<1>4. SumFunctionOnSet(f, D) = SumFunctionOnSet(A, Lines)
  <2> HIDE DEF f, of, D
  <2> QED
    BY <1>1, <1>2, SumByGroup
<1>5. ASSUME NEW l \in Lines PROVE A[l] = B[l]
  <2>1. Price[l] \in Int
    BY RefundsAssumption
  <2>2. (\A k \in D : u(l)[k] \in Int) /\ Scales(Price[l], u(l), In(l), D)
    <3> SUFFICES ASSUME NEW k \in D PROVE u(l)[k] \in Int /\ In(l)[k] = Price[l] * u(l)[k]
      BY DEF Scales
    <3>1. PICK q \in Nat : q = rows[k].q
      BY DEF RowsOK
    <3>2. CASE rows[k].l = l
      <4>1. u(l)[k] = q /\ In(l)[k] = q * Price[l]
        BY <3>1, <3>2
      <4> QED
        BY <2>1, <4>1
    <3>3. CASE rows[k].l # l
      <4>1. u(l)[k] = 0 /\ In(l)[k] = 0
        BY <3>3
      <4> QED
        BY <2>1, <4>1
    <3> QED
      BY <3>2, <3>3
  <2>3. Units(rows, l) = SumFunctionOnSet(u(l), D)
    BY DEF Units, SumFunction
  <2>4. A[l] = SumFunctionOnSet(In(l), D) /\ B[l] = Price[l] * Units(rows, l)
    OBVIOUS
  <2> HIDE DEF A, B, In, u, D, f, of
  <2>5. SumFunctionOnSet(In(l), D) = Price[l] * SumFunctionOnSet(u(l), D)
    BY <1>1, <2>1, <2>2, SumScale
  <2> QED
    BY <2>3, <2>4, <2>5
<1>6. A = B
  BY <1>5
<1>7. Priced([l \in Lines |-> Units(rows, l)]) = SumFunctionOnSet(B, Lines)
  BY DEF Priced
<1> QED
  BY <1>3, <1>4, <1>6, <1>7

\* A note more adds its units, its gross and its amounts to those of the bill.
LEMMA OneNoteMore ==
  ASSUME NEW ns \in Seq(Note), NEW n \in Note
  PROVE  /\ PriorGross(ns) \in Nat /\ PriorGross(Append(ns, n)) = PriorGross(ns) + Gross(n.lines)
         /\ NotedSubtotal(ns) \in Nat /\ NotedSubtotal(Append(ns, n)) = NotedSubtotal(ns) + n.subtotal
         /\ NotedTax(ns) \in Nat /\ NotedTax(Append(ns, n)) = NotedTax(ns) + n.tax
         /\ \A l : Credited(ns, l) \in Nat /\ Credited(Append(ns, n), l) = Credited(ns, l) + Units(n.lines, l)
<1>1. PICK m \in Nat, a \in Seq(Note) : m = Len(ns) /\ a = Append(ns, n)
  <2>1. Len(ns) \in Nat
    OBVIOUS
  <2>2. Append(ns, n) \in Seq(Note)
    OBVIOUS
  <2> QED
    BY <2>1, <2>2
<1>2. /\ DOMAIN ns = 1..m /\ DOMAIN a = 1..(m + 1) /\ a[m + 1] = n
      /\ \A i \in 1..m : a[i] = ns[i] /\ ns[i] \in Note
  BY <1>1
<1>3. 1..m \in SUBSET (1..m) /\ m + 1 \in 1..(m + 1) /\ \A i \in 1..m : i \in 1..(m + 1)
  OBVIOUS
<1>4. IsFiniteSet(1..m)
  BY FS_Interval
<1>5. ASSUME NEW f, NEW e, \A i \in 1..m : f[i] \in Nat /\ e[i] = f[i], e[m + 1] \in Nat
      PROVE  /\ SumFunctionOnSet(f, 1..m) \in Nat
             /\ SumFunctionOnSet(e, 1..(m + 1)) = SumFunctionOnSet(f, 1..m) + e[m + 1]
  <2>1. (\A i \in 1..m : f[i] \in Int /\ e[i] = f[i]) /\ e[m + 1] \in Int
    BY <1>5
  <2>2. SumFunctionOnSet(f, 1..m) \in Nat
    BY <1>3, <1>4, <1>5, SumNaturals
  <2>3. SumFunctionOnSet(e, 1..(m + 1)) = SumFunctionOnSet(f, 1..m) + e[m + 1]
    BY <2>1, SumNext
  <2> QED
    BY <2>2, <2>3
<1>6. PriorGross(ns) \in Nat /\ PriorGross(a) = PriorGross(ns) + Gross(n.lines)
  <2> DEFINE f == [i \in DOMAIN ns |-> Gross(ns[i].lines)]
             e == [i \in DOMAIN a |-> Gross(a[i].lines)]
  <2>1. (\A i \in 1..m : f[i] \in Nat /\ e[i] = f[i]) /\ e[m + 1] = Gross(n.lines) /\ e[m + 1] \in Nat
    BY <1>2, <1>3, NoteRows, RowSums
  <2>2. PriorGross(ns) = SumFunctionOnSet(f, 1..m) /\ PriorGross(a) = SumFunctionOnSet(e, 1..(m + 1))
    BY <1>2 DEF PriorGross, SumFunction
  <2> HIDE DEF f, e
  <2> QED
    BY <1>5, <2>1, <2>2
<1>7. NotedSubtotal(ns) \in Nat /\ NotedSubtotal(a) = NotedSubtotal(ns) + n.subtotal
  <2> DEFINE f == [i \in DOMAIN ns |-> ns[i].subtotal]
             e == [i \in DOMAIN a |-> a[i].subtotal]
  <2>1. (\A i \in 1..m : f[i] \in Nat /\ e[i] = f[i]) /\ e[m + 1] = n.subtotal /\ e[m + 1] \in Nat
    BY <1>2, <1>3, NoteRows
  <2>2. NotedSubtotal(ns) = SumFunctionOnSet(f, 1..m) /\ NotedSubtotal(a) = SumFunctionOnSet(e, 1..(m + 1))
    BY <1>2 DEF NotedSubtotal, SumFunction
  <2> HIDE DEF f, e
  <2> QED
    BY <1>5, <2>1, <2>2
<1>8. NotedTax(ns) \in Nat /\ NotedTax(a) = NotedTax(ns) + n.tax
  <2> DEFINE f == [i \in DOMAIN ns |-> ns[i].tax]
             e == [i \in DOMAIN a |-> a[i].tax]
  <2>1. (\A i \in 1..m : f[i] \in Nat /\ e[i] = f[i]) /\ e[m + 1] = n.tax /\ e[m + 1] \in Nat
    BY <1>2, <1>3, NoteRows
  <2>2. NotedTax(ns) = SumFunctionOnSet(f, 1..m) /\ NotedTax(a) = SumFunctionOnSet(e, 1..(m + 1))
    BY <1>2 DEF NotedTax, SumFunction
  <2> HIDE DEF f, e
  <2> QED
    BY <1>5, <2>1, <2>2
<1>9. ASSUME NEW l PROVE Credited(ns, l) \in Nat /\ Credited(a, l) = Credited(ns, l) + Units(n.lines, l)
  <2> DEFINE f == [i \in DOMAIN ns |-> Units(ns[i].lines, l)]
             e == [i \in DOMAIN a |-> Units(a[i].lines, l)]
  <2>1. (\A i \in 1..m : f[i] \in Nat /\ e[i] = f[i]) /\ e[m + 1] = Units(n.lines, l) /\ e[m + 1] \in Nat
    BY <1>2, <1>3, NoteRows, RowSums
  <2>2. Credited(ns, l) = SumFunctionOnSet(f, 1..m) /\ Credited(a, l) = SumFunctionOnSet(e, 1..(m + 1))
    BY <1>2 DEF Credited, SumFunction
  <2> HIDE DEF f, e
  <2> QED
    BY <1>5, <2>1, <2>2
<1> QED
  BY <1>1, <1>6, <1>7, <1>8, <1>9

\* The amounts of a note's rows are not negative and come to its subtotal,
\* wherever the remainder goes (refund(), restiq-backend#221).
LEMMA AmountsComeToSubtotal ==
  ASSUME NEW rows, RowsOK(rows), NEW last \in DOMAIN rows, NEW subtotal \in Nat
  PROVE  /\ LineAmounts(rows, last, subtotal) \in [DOMAIN rows -> Nat]
         /\ SumFunctionOnSet(LineAmounts(rows, last, subtotal), DOMAIN rows) = subtotal
<1>1. PICK D : D = DOMAIN rows
  OBVIOUS
<1>2. PICK gross \in Nat : gross = Gross(rows)
  BY RowSums
<1>3. PICK w : w = [k \in D |-> rows[k].q * Price[rows[k].l]]
  OBVIOUS
<1>4. w \in [D -> Nat] /\ gross = SumFunctionOnSet(w, D)
  BY <1>1, <1>2, <1>3, RefundsAssumption DEF RowsOK, Gross, SumFunction
<1>5. PICK share : share = [k \in D |-> IF gross = 0 THEN 0 ELSE (subtotal * w[k]) \div gross]
  OBVIOUS
<1>6. share \in [D -> Nat]
  <2> SUFFICES ASSUME NEW k \in D, gross # 0 PROVE (subtotal * w[k]) \div gross \in Nat
    BY <1>5
  <2>1. PICK x \in Nat : x = subtotal * w[k]
    BY <1>4
  <2> QED
    BY <2>1, DivisionNat
<1>7. PICK U : U = D \ {last}
  OBVIOUS
<1>8. last \in D /\ IsFiniteSet(D) /\ IsFiniteSet(U) /\ U \in SUBSET D /\ D \in SUBSET D /\ U \in SUBSET U
  BY <1>1, <1>7, FS_Subset DEF RowsOK
<1>9. PICK taken \in Nat : taken = SumFunctionOnSet(share, U)
  BY <1>6, <1>8, SumNaturals
<1>10. LineAmounts(rows, last, subtotal) = [k \in D |-> IF k = last THEN subtotal - taken ELSE share[k]]
  <2>1. share = [k \in DOMAIN rows |-> IF gross = 0 THEN 0 ELSE (subtotal * (rows[k].q * Price[rows[k].l])) \div gross]
    BY <1>1, <1>3, <1>5
  <2> QED
    BY <1>1, <1>2, <1>7, <1>9, <2>1 DEF LineAmounts
<1>11. taken <= subtotal
  <2>1. CASE gross = 0
    <3>1. \A k \in U \ {} : share[k] = 0
      BY <1>5, <1>8, <2>1
    <3>2. (\A k \in U : share[k] \in Int) /\ {} \in SUBSET U
      BY <1>6, <1>8
    <3>3. SumFunctionOnSet(share, U) = SumFunctionOnSet(share, {})
      BY <1>8, <3>1, <3>2, SumWithin
    <3> QED
      BY <1>9, <3>3, SumEmpty
  <2>2. CASE gross # 0
    <3>1. PICK v \in [U -> Nat], s \in [U -> Int] : v = [k \in U |-> w[k]] /\ s = [k \in U |-> share[k]]
      <4>1. [k \in U |-> w[k]] \in [U -> Nat]
        BY <1>4, <1>8
      <4>2. [k \in U |-> share[k]] \in [U -> Int]
        BY <1>6, <1>8
      <4> QED
        BY <4>1, <4>2
    <3>2. \A k \in U : v[k] = w[k] /\ s[k] = share[k] /\ s[k] = (subtotal * v[k]) \div gross
      BY <1>5, <1>8, <2>2, <3>1
    <3>3. SumFunctionOnSet(v, U) = SumFunctionOnSet(w, U) /\ SumFunctionOnSet(s, U) = taken
      BY <1>8, <1>9, <3>2, SumSame
    <3>4. PICK W \in Nat \ {0} : W = gross
      BY <2>2
    <3>5. PICK rest \in Nat : rest = SumFunctionOnSet(w, U)
      BY <1>4, <1>8, SumNaturals
    <3>6. 0 <= subtotal * rest - W * taken
      <4>1. \A g \in U : s[g] = (subtotal * v[g]) \div W
        BY <3>2, <3>4
      <4>2. 0 <= subtotal * SumFunctionOnSet(v, U) - W * SumFunctionOnSet(s, U)
        BY <1>8, <4>1, ShortOfProportion
      <4> QED
        BY <3>3, <3>5, <4>2
    <3>7. rest <= W
      <4>1. \A k \in D : w[k] \in Int
        BY <1>4
      <4>2. SumFunctionOnSet(w, D) = w[last] + SumFunctionOnSet(w, D \ {last})
        BY <1>8, <4>1, SumTakes
      <4>3. w[last] \in Nat
        BY <1>4, <1>8
      <4> QED
        BY <1>4, <1>7, <3>4, <3>5, <4>2, <4>3
    <3>8. subtotal * rest <= subtotal * W
      BY <3>7
    <3>9. W * taken <= W * subtotal
      <4>1. PICK x \in Int, y \in Int, z \in Int : x = subtotal * rest /\ y = W * taken /\ z = subtotal * W /\ z = W * subtotal
        OBVIOUS
      <4> QED
        BY <3>6, <3>8, <4>1
    <3> SUFFICES ASSUME subtotal + 1 <= taken PROVE FALSE
      OBVIOUS
    <3>10. W * (subtotal + 1) <= W * taken
      OBVIOUS
    <3>11. W * (subtotal + 1) = W * subtotal + W
      OBVIOUS
    <3> QED
      BY <3>9, <3>10, <3>11
  <2> QED
    BY <2>1, <2>2
<1>12. PICK x \in [D -> Nat] : x = LineAmounts(rows, last, subtotal)
  BY <1>6, <1>10, <1>11
<1>13. SumFunctionOnSet(x, D) = subtotal
  <2>1. \A k \in D : x[k] \in Int
    OBVIOUS
  <2>2. SumFunctionOnSet(x, D) = x[last] + SumFunctionOnSet(x, D \ {last})
    BY <1>8, <2>1, SumTakes
  <2>3. SumFunctionOnSet(x, U) = taken
    <3>1. \A k \in U : x[k] = share[k]
      BY <1>7, <1>8, <1>10, <1>12
    <3> QED
      BY <1>8, <1>9, <3>1, SumSame
  <2>4. x[last] = subtotal - taken
    BY <1>8, <1>10, <1>12
  <2> QED
    BY <1>7, <2>2, <2>3, <2>4
<1> QED
  BY <1>1, <1>12, <1>13

-----------------------------------------------------------------------------
(* What a request asks for *)

\* Units of a line that no row names, or that one row names.
LEMMA UnitsOfFew ==
  ASSUME NEW rows, RowsOK(rows), NEW l
  PROVE  /\ (\A k \in DOMAIN rows : rows[k].l # l) => Units(rows, l) = 0
         /\ \A j \in DOMAIN rows : rows[j].l = l /\ (\A k \in DOMAIN rows \ {j} : rows[k].l # l) => Units(rows, l) = rows[j].q
<1>1. PICK D : D = DOMAIN rows /\ IsFiniteSet(D)
  BY DEF RowsOK
<1>2. PICK f : f = [k \in D |-> IF rows[k].l = l THEN rows[k].q ELSE 0]
  OBVIOUS
<1>3. Units(rows, l) = SumFunctionOnSet(f, D) /\ \A k \in D : f[k] \in Int
  BY <1>1, <1>2 DEF Units, SumFunction, RowsOK
<1>4. ASSUME \A k \in D : rows[k].l # l PROVE Units(rows, l) = 0
  <2>1. {} \in SUBSET D /\ \A k \in D \ {} : f[k] = 0
    BY <1>2, <1>4
  <2>2. SumFunctionOnSet(f, D) = SumFunctionOnSet(f, {})
    BY <1>1, <1>3, <2>1, SumWithin
  <2> QED
    BY <1>3, <2>2, SumEmpty
<1>5. ASSUME NEW j \in D, rows[j].l = l, \A k \in D \ {j} : rows[k].l # l PROVE Units(rows, l) = rows[j].q
  <2>1. f[j] = rows[j].q /\ f[j] \in Int /\ \A k \in D \ {j} : f[k] = 0
    BY <1>2, <1>3, <1>5
  <2>2. SumFunctionOnSet(f, D) = f[j]
    BY <1>1, <2>1, SumOne
  <2> QED
    BY <1>3, <2>1, <2>2
<1> QED
  BY <1>1, <1>4, <1>5

\* A line's quantity, and that of a combo's item for each combo.
QtyOK ==
  /\ qty \in [Lines -> Nat \ {0}]
  /\ \A c \in Lines \ Roots : qty[c] = Per[c] * qty[Parent[c]]

\* What one request read under the bill's lock.
Request == [asked : Asked, lines : SUBSET Lines, notes : Seq(Note)]

\* The number of credited units is a natural (refundedSoFar).
LEMMA CreditedNat ==
  ASSUME NEW ns \in Seq(Note), NEW l
  PROVE  Credited(ns, l) \in Nat
<1>1. PICK m \in Nat : m = Len(ns) /\ DOMAIN ns = 1..m /\ \A i \in 1..m : ns[i] \in Note
  OBVIOUS
<1> DEFINE f == [i \in DOMAIN ns |-> Units(ns[i].lines, l)]
<1>2. \A i \in 1..m : f[i] \in Nat
  BY <1>1, NoteRows, RowSums
<1>3. Credited(ns, l) = SumFunctionOnSet(f, 1..m)
  BY <1>1 DEF Credited, SumFunction
<1>4. IsFiniteSet(1..m) /\ 1..m \in SUBSET (1..m)
  BY FS_Interval
<1> HIDE DEF f
<1> QED
  BY <1>2, <1>3, <1>4, SumNaturals

\* Sound rows with keys of Keys: what Targets gives.
TargetsOK(rows) ==
  /\ RowsOK(rows) /\ DOMAIN rows \in SUBSET Keys

\* A request that names nothing asks for all that is left (refund()).
LEMMA AskForTheRest ==
  ASSUME QtyOK, NEW r \in Request, r.asked = << >>
  PROVE  /\ TargetsOK(Targets(r))
         /\ \A l \in r.lines : Credited(r.notes, l) <= qty[l] => Credited(r.notes, l) + Units(Targets(r), l) = qty[l]
         /\ \A l \in Lines \ r.lines : Units(Targets(r), l) = 0
<1>1. PICK R \in SUBSET Lines : R = {l \in r.lines : qty[l] > Credited(r.notes, l)}
  BY DEF Request
<1>2. PICK rows : rows = [k \in {0} \X R |-> [l |-> k[2], q |-> qty[k[2]] - Credited(r.notes, k[2])]]
  OBVIOUS
<1>3. Targets(r) = rows
  BY <1>1, <1>2 DEF Targets
<1>4. \A l \in Lines : qty[l] \in Nat /\ Credited(r.notes, l) \in Nat
  BY CreditedNat DEF QtyOK, Request
<1>5. \A k \in DOMAIN rows : k[2] \in R /\ k = <<0, k[2]>> /\ rows[k].l = k[2] /\ rows[k].q = qty[k[2]] - Credited(r.notes, k[2])
  BY <1>2
<1>6. \A l \in R : <<0, l>> \in DOMAIN rows /\ rows[<<0, l>>].l = l /\ rows[<<0, l>>].q = qty[l] - Credited(r.notes, l)
  BY <1>2
<1>7. DOMAIN rows \in SUBSET Keys
  <2>1. DOMAIN rows = {0} \X R /\ 0 \in 0..MaxTargets
    BY <1>2, RefundsAssumption
  <2> QED
    BY <2>1 DEF Keys
<1>8. TargetsOK(rows)
  <2>1. \A k \in DOMAIN rows : rows[k].l \in Lines /\ rows[k].q \in Nat
    BY <1>1, <1>4, <1>5
  <2> QED
    BY <1>7, <2>1, KeysFinite DEF TargetsOK, RowsOK
<1>9. RowsOK(rows)
  BY <1>8 DEF TargetsOK
<1>10. ASSUME NEW l \in Lines, l \notin R PROVE Units(rows, l) = 0
  <2>1. \A k \in DOMAIN rows : rows[k].l # l
    BY <1>5, <1>10
  <2> QED
    BY <1>9, <2>1, UnitsOfFew
<1>11. ASSUME NEW l \in r.lines, Credited(r.notes, l) <= qty[l] PROVE Credited(r.notes, l) + Units(rows, l) = qty[l]
  <2>0. l \in Lines
    BY DEF Request
  <2>1. CASE l \in R
    <3>1. \A k \in DOMAIN rows \ {<<0, l>>} : rows[k].l # l
      BY <1>5
    <3>2. PICK j \in DOMAIN rows : j = <<0, l>> /\ rows[j].l = l /\ rows[j].q = qty[l] - Credited(r.notes, l)
      BY <1>6, <2>1
    <3>3. \A k \in DOMAIN rows \ {j} : rows[k].l # l
      BY <3>1, <3>2
    <3>4. Units(rows, l) = rows[j].q
      BY <1>9, <3>2, <3>3, UnitsOfFew
    <3>5. Units(rows, l) = qty[l] - Credited(r.notes, l)
      BY <3>2, <3>4
    <3> QED
      BY <1>4, <2>0, <3>5
  <2>2. CASE l \notin R
    <3>1. Units(rows, l) = 0
      BY <1>10, <2>0, <2>2
    <3>2. Credited(r.notes, l) = qty[l]
      BY <1>1, <1>4, <1>11, <2>0, <2>2
    <3> QED
      BY <1>4, <2>0, <3>1, <3>2
  <2> QED
    BY <2>1, <2>2
<1>12. ASSUME NEW l \in Lines \ r.lines PROVE Units(rows, l) = 0
  BY <1>1, <1>10
<1> QED
  BY <1>3, <1>8, <1>11, <1>12

\* What the i-th named line asks of line l: itself, or l as its combo's item.
Brings(asked, i, l) ==
  IF asked[i].l \in {l, Parent[l]}
  THEN IF l = asked[i].l THEN asked[i].q ELSE (asked[i].q * qty[l]) \div qty[asked[i].l]
  ELSE 0

\* What is named is finite in number and asks for naturals.
LEMMA NamedNat ==
  ASSUME QtyOK, NEW asked \in Asked
  PROVE  /\ IsFiniteSet(DOMAIN asked) /\ DOMAIN asked \in SUBSET (0..MaxTargets)
         /\ \A i \in DOMAIN asked, l \in Lines : asked[i].l \in Roots /\ asked[i].q \in Nat /\ Brings(asked, i, l) \in Nat
<1>1. PICK n \in 0..MaxTargets : asked \in [1..n -> Target]
  BY DEF Asked
<1>2. DOMAIN asked = 1..n /\ n \in Nat
  BY <1>1, RefundsAssumption
<1>3. IsFiniteSet(DOMAIN asked) /\ DOMAIN asked \in SUBSET (0..MaxTargets)
  BY <1>2, RefundsAssumption, FS_Interval
<1>4. ASSUME NEW i \in DOMAIN asked, NEW l \in Lines
      PROVE  asked[i].l \in Roots /\ asked[i].q \in Nat /\ Brings(asked, i, l) \in Nat
  <2>1. asked[i] \in Target
    BY <1>1, <1>2
  <2>2. asked[i].l \in Roots /\ asked[i].l \in Lines /\ asked[i].q \in Nat
    BY <2>1, RefundsAssumption DEF Target, Roots
  <2>3. PICK W \in Nat \ {0}, x \in Nat : W = qty[asked[i].l] /\ x = asked[i].q * qty[l]
    BY <2>2 DEF QtyOK
  <2>4. (asked[i].q * qty[l]) \div qty[asked[i].l] \in Nat
    BY <2>3, DivisionNat
  <2> QED
    BY <2>2, <2>4 DEF Brings
<1> QED
  BY <1>3, <1>4

\* A request that names lines asks for them and for their combos' items.
LEMMA AskForNamed ==
  ASSUME QtyOK, NEW r \in Request, r.asked # << >>
  PROVE  /\ TargetsOK(Targets(r))
         /\ \A l \in Lines : Units(Targets(r), l) =
              SumFunctionOnSet([i \in DOMAIN r.asked |-> Brings(r.asked, i, l)], DOMAIN r.asked)
<1>1. PICK asked \in Asked : asked = r.asked
  BY DEF Request
<1>2. PICK N : N = DOMAIN asked /\ IsFiniteSet(N) /\ N \in SUBSET (0..MaxTargets)
  BY NamedNat
<1>3. PICK D : D = {j \in N \X Lines : asked[j[1]].l \in {j[2], Parent[j[2]]}}
  OBVIOUS
<1>4. PICK rows : rows = Targets(r)
  OBVIOUS
<1>5. rows = [k \in D |-> [l |-> k[2], q |-> Brings(asked, k[1], k[2])]]
  <2>1. rows = [k \in {j \in (DOMAIN r.asked) \X Lines : r.asked[j[1]].l \in {j[2], Parent[j[2]]}} |->
          LET named == r.asked[k[1]]
          IN  [l |-> k[2], q |-> IF k[2] = named.l THEN named.q
                                                   ELSE (named.q * qty[k[2]]) \div qty[named.l]]]
    BY <1>4 DEF Targets
  <2>2. rows = [k \in D |->
          [l |-> k[2], q |-> IF k[2] = asked[k[1]].l THEN asked[k[1]].q
                                                     ELSE (asked[k[1]].q * qty[k[2]]) \div qty[asked[k[1]].l]]]
    BY <1>1, <1>2, <1>3, <2>1
  <2>3. \A k \in D : asked[k[1]].l \in {k[2], Parent[k[2]]}
    BY <1>3
  <2>4. \A k \in D : (IF k[2] = asked[k[1]].l THEN asked[k[1]].q
                      ELSE (asked[k[1]].q * qty[k[2]]) \div qty[asked[k[1]].l]) = Brings(asked, k[1], k[2])
    BY <2>3 DEF Brings
  <2> QED
    BY <2>2, <2>4
<1>6. DOMAIN rows = D /\ \A k \in D : /\ k[1] \in N /\ k[2] \in Lines /\ k = <<k[1], k[2]>>
                                      /\ rows[k].l = k[2] /\ rows[k].q = Brings(asked, k[1], k[2])
  BY <1>3, <1>5
<1>7. D \in SUBSET Keys
  BY <1>2, <1>3 DEF Keys
<1>8. TargetsOK(rows)
  <2>1. \A k \in D : rows[k].l \in Lines /\ rows[k].q \in Nat
    BY <1>2, <1>6, NamedNat
  <2> QED
    BY <1>6, <1>7, <2>1, KeysFinite DEF TargetsOK, RowsOK
<1>9. ASSUME NEW l \in Lines
      PROVE  Units(rows, l) = SumFunctionOnSet([i \in N |-> Brings(asked, i, l)], N)
  <2>1. PICK f : f = [k \in D |-> IF rows[k].l = l THEN rows[k].q ELSE 0]
    OBVIOUS
  <2>2. PICK of : of = [k \in D |-> k[1]]
    OBVIOUS
  <2>3. \A k \in D : f[k] \in Int /\ of[k] \in N
    BY <1>2, <1>6, <2>1, <2>2, NamedNat
  <2>4. Units(rows, l) = SumFunctionOnSet(f, D)
    BY <1>6, <2>1 DEF Units, SumFunction
  <2>5. IsFiniteSet(D)
    BY <1>7, KeysFinite
  <2> DEFINE In(i) == [k \in D |-> IF of[k] = i THEN f[k] ELSE 0]
             A == [i \in N |-> SumFunctionOnSet(In(i), D)]
             B == [i \in N |-> Brings(asked, i, l)]
  <2>6. SumFunctionOnSet(f, D) = SumFunctionOnSet(A, N)
    <3>1. IsFiniteSet(D) /\ IsFiniteSet(N)
      BY <1>2, <2>5
    <3> QED
      BY ONLY <2>3, <3>1, SumByGroup
  <2>7. ASSUME NEW i \in N PROVE SumFunctionOnSet(In(i), D) = Brings(asked, i, l)
    <3>1. PICK g : g = In(i)
      OBVIOUS
    <3>2. \A k \in D : k # <<i, l>> => g[k] = 0
      BY <1>6, <2>1, <2>2, <3>1
    <3>3. CASE <<i, l>> \in D
      <4>1. PICK j \in D : j = <<i, l>>
        BY <3>3
      <4>2. g[j] = Brings(asked, i, l)
        BY <1>6, <2>1, <2>2, <3>1, <4>1
      <4>3. g[j] \in Int /\ \A k \in D \ {j} : g[k] = 0
        BY <1>2, <3>2, <4>1, <4>2, NamedNat
      <4>4. SumFunctionOnSet(g, D) = g[j]
        BY <2>5, <4>3, SumOne
      <4> QED
        BY <3>1, <4>2, <4>4
    <3>4. CASE <<i, l>> \notin D
      <4>1. {} \in SUBSET D /\ (\A k \in D : g[k] \in Int) /\ (\A k \in D \ {} : g[k] = 0)
        BY <3>2, <3>4
      <4>2. SumFunctionOnSet(g, D) = SumFunctionOnSet(g, {})
        BY <2>5, <4>1, SumWithin
      <4>3. Brings(asked, i, l) = 0
        BY <1>3, <3>4 DEF Brings
      <4> QED
        BY <3>1, <4>2, <4>3, SumEmpty
    <3> QED
      BY <3>3, <3>4
  <2>8. A = B
    BY <2>7
  <2> QED
    BY <2>4, <2>6, <2>8
<1> QED
  BY <1>1, <1>2, <1>4, <1>8, <1>9

\* A combo that is named brings its items in proportion (refund(),
\* restiq-backend#190).
LEMMA NamedInProportion ==
  ASSUME QtyOK, NEW r \in Request, r.asked # << >>, NEW c \in Lines \ Roots
  PROVE  Units(Targets(r), c) = Per[c] * Units(Targets(r), Parent[c])
<1>1. PICK P \in Roots : P = Parent[c]
  BY RefundsAssumption
<1>2. P \in Lines /\ c # P /\ Parent[P] = None /\ None \notin Lines /\ Per[c] \in Nat
  BY <1>1, RefundsAssumption DEF Roots
<1>3. PICK asked \in Asked : asked = r.asked
  BY DEF Request
<1>4. PICK N : N = DOMAIN asked /\ IsFiniteSet(N)
  BY NamedNat
<1>5. PICK f, h : f = [i \in N |-> Brings(asked, i, P)] /\ h = [i \in N |-> Brings(asked, i, c)]
  OBVIOUS
<1>6. \A i \in N : asked[i].l \in Roots /\ asked[i].q \in Nat /\ f[i] \in Int
  BY <1>2, <1>4, <1>5, NamedNat
<1>7. ASSUME NEW i \in N PROVE h[i] = Per[c] * f[i]
  <2>1. CASE asked[i].l = P
    <3>1. PICK W \in Nat \ {0}, q \in Nat, p \in Nat : W = qty[P] /\ q = asked[i].q /\ p = Per[c] /\ qty[c] = p * W
      BY <1>1, <1>2, <1>6 DEF QtyOK
    <3>2. f[i] = q
      BY <1>5, <2>1, <3>1 DEF Brings
    <3>3. h[i] = (q * (p * W)) \div W
      BY <1>1, <1>2, <1>5, <2>1, <3>1 DEF Brings
    <3>4. PICK n \in Nat : n = p * q
      OBVIOUS
    <3>5. q * (p * W) = n * W
      BY <3>4
    <3>6. h[i] = n
      BY <3>3, <3>5, DivisionExact
    <3> QED
      BY <3>1, <3>2, <3>4, <3>6
  <2>2. CASE asked[i].l # P
    <3>1. asked[i].l # c /\ asked[i].l # None
      BY <1>2, <1>6 DEF Roots
    <3>2. f[i] = 0 /\ h[i] = 0
      BY <1>1, <1>2, <1>5, <2>2, <3>1 DEF Brings
    <3> QED
      BY <1>2, <3>2
  <2> QED
    BY <2>1, <2>2
<1>8. Scales(Per[c], f, h, N)
  BY <1>7 DEF Scales
<1>9. SumFunctionOnSet(h, N) = Per[c] * SumFunctionOnSet(f, N)
  BY <1>2, <1>4, <1>6, <1>8, SumScale
<1>10. Units(Targets(r), c) = SumFunctionOnSet(h, N) /\ Units(Targets(r), P) = SumFunctionOnSet(f, N)
  BY <1>2, <1>3, <1>4, <1>5, AskForNamed
<1> QED
  BY <1>1, <1>9, <1>10

-----------------------------------------------------------------------------
(* The credit notes of a bill: the inductive invariant *)

\* commitFinalize() billed the lines that were there; nothing paid, no tax.
BillInv ==
  /\ bill.subtotal \in Nat /\ bill.discount \in Nat /\ bill.tax \in Nat
  /\ bill.discount <= bill.subtotal
  /\ bill.subtotal = SumFunctionOnSet([l \in Lines \ Late |-> qty[l] * Price[l]], Lines \ Late)
  /\ Net = 0 => bill.tax = 0

\* Whoever holds the bill's lock has read its notes, and the order's lines of
\* a moment ago.
LockInv ==
  /\ txn \in [Txns -> Request \cup {None}]
  /\ \A t \in Txns : txn[t] # None =>
       /\ txn[t].notes = notes
       /\ Lines \ Late \subseteq txn[t].lines /\ txn[t].lines \subseteq present
       /\ \A u \in Txns \ {t} : txn[u] = None

\* What has been credited: within what was ordered, of lines that were there,
\* a combo's items with it.
CreditInv ==
  /\ \A l \in Lines : Credited(notes, l) <= qty[l] /\ (l \notin present => Credited(notes, l) = 0)
  /\ \A c \in Lines \ Roots : Credited(notes, c) = Per[c] * Credited(notes, Parent[c])
  /\ PriorGross(notes) = Priced([l \in Lines |-> Credited(notes, l)])

\* All notes together are worth one proration of all that was refunded.
CumulativeInv ==
  /\ NotedSubtotal(notes) = prorate(PriorGross(notes), Net, bill.subtotal)
  /\ NotedTax(notes) = prorate(PriorGross(notes), bill.tax, bill.subtotal)

RefundsInv ==
  /\ QtyOK /\ Lines \ Late \subseteq present /\ present \subseteq Lines
  /\ notes \in Seq(Note)
  /\ BillInv /\ LockInv /\ CreditInv /\ CumulativeInv /\ NoteLinesAddUp

\* The prorated share is a natural, nothing for nothing, and grows with what
\* has been refunded (refund() prorate).
LEMMA ShareGrows ==
  ASSUME NEW a \in Nat, NEW g \in Nat, NEW of \in Nat, NEW s \in Nat
  PROVE  /\ prorate(a, of, s) \in Nat /\ prorate(a + g, of, s) \in Nat
         /\ prorate(a, of, s) <= prorate(a + g, of, s)
         /\ prorate(0, of, s) = 0
<1>1. CASE s = 0
  BY <1>1 DEF prorate
<1>2. CASE s # 0
  <2>1. PICK W \in Nat \ {0} : W = s
    BY <1>2
  <2>2. PICK x \in Nat, y \in Nat : x = a * of /\ y = (a + g) * of /\ x <= y
    <3>1. PICK z \in Nat : z = g * of
      OBVIOUS
    <3>2. (a + g) * of = a * of + g * of /\ a * of \in Nat
      OBVIOUS
    <3> QED
      BY <3>1, <3>2
  <2>3. x \div W \in Nat /\ y \div W \in Nat /\ x \div W <= y \div W
    BY <2>2, DivisionNat, DivisionGrows
  <2>4. 0 \div W = 0
    BY DivisionNat
  <2>5. prorate(a, of, s) = x \div W /\ prorate(a + g, of, s) = y \div W
    BY <1>2, <2>1, <2>2 DEF prorate
  <2>6. prorate(0, of, s) = 0 \div W
    <3>1. 0 * of = 0
      OBVIOUS
    <3> QED
      BY <1>2, <2>1, <3>1 DEF prorate
  <2> QED
    BY <2>3, <2>4, <2>5, <2>6
<1> QED
  BY <1>1, <1>2

\* Part of the bill is worth at most what was paid, all of it just that.
LEMMA ShareOfPaid ==
  ASSUME NEW g \in Nat, NEW of \in Nat, NEW s \in Nat, g <= s
  PROVE  prorate(g, of, s) <= of /\ (g = s /\ (s = 0 => of = 0) => prorate(g, of, s) = of)
<1>1. CASE s = 0
  BY <1>1 DEF prorate
<1>2. CASE s # 0
  <2>1. PICK W \in Nat \ {0} : W = s
    BY <1>2
  <2>2. PICK x \in Nat, y \in Nat : x = g * of /\ y = of * W /\ x <= y /\ (g = W => x = y)
    <3>1. PICK d \in Nat : W = g + d
      BY <2>1
    <3>2. of * W = g * of + d * of /\ d * of \in Nat /\ g * of \in Nat /\ of * W \in Nat
      BY <3>1
    <3>3. g = W => g * of = of * W
      OBVIOUS
    <3> QED
      BY <3>2, <3>3
  <2>3. y \div W = of
    BY <2>2, DivisionExact
  <2>4. x \div W <= y \div W
    BY <2>2, DivisionGrows
  <2>5. prorate(g, of, s) = x \div W
    BY <1>2, <2>1, <2>2 DEF prorate
  <2>6. x \div W \in Int
    BY RoundedDown
  <2> QED
    BY <2>1, <2>2, <2>3, <2>4, <2>5, <2>6
<1> QED
  BY <1>1, <1>2

\* What units cost adds up.
LEMMA PricedPlus ==
  ASSUME NEW u, NEW v, NEW w, \A l \in Lines : u[l] \in Nat /\ v[l] \in Nat /\ w[l] = u[l] + v[l]
  PROVE  Priced(w) = Priced(u) + Priced(v)
<1> DEFINE f == [l \in Lines |-> Price[l] * u[l]]
           g == [l \in Lines |-> Price[l] * v[l]]
           h == [l \in Lines |-> Price[l] * w[l]]
<1>1. ASSUME NEW l \in Lines PROVE f[l] \in Int /\ g[l] \in Int /\ h[l] = f[l] + g[l]
  <2>1. PICK p \in Nat, a \in Nat, b \in Nat : p = Price[l] /\ a = u[l] /\ b = v[l] /\ w[l] = a + b
    BY RefundsAssumption
  <2>2. p * (a + b) = p * a + p * b /\ p * a \in Int /\ p * b \in Int
    OBVIOUS
  <2> QED
    BY <2>1, <2>2
<1>2. IsFiniteSet(Lines)
  BY RefundsAssumption
<1> HIDE DEF f, g, h
<1>3. SumFunctionOnSet(h, Lines) = SumFunctionOnSet(f, Lines) + SumFunctionOnSet(g, Lines)
  BY <1>1, <1>2, SumPlus
<1> QED
  BY <1>3 DEF Priced, f, g, h

\* Before the first note nothing has been credited.
LEMMA NoNotesYet ==
  /\ PriorGross(<< >>) = 0 /\ NotedSubtotal(<< >>) = 0 /\ NotedTax(<< >>) = 0
  /\ \A l : Credited(<< >>, l) = 0
  /\ Priced([l \in Lines |-> Credited(<< >>, l)]) = 0
<1>1. DOMAIN << >> = {}
  OBVIOUS
<1>2. PriorGross(<< >>) = 0 /\ NotedSubtotal(<< >>) = 0 /\ NotedTax(<< >>) = 0
  BY <1>1, SumEmpty DEF PriorGross, NotedSubtotal, NotedTax, SumFunction
<1>3. \A l : Credited(<< >>, l) = 0
  BY <1>1, SumEmpty DEF Credited, SumFunction
<1>4. Priced([l \in Lines |-> Credited(<< >>, l)]) = 0
  <2> DEFINE f == [l \in Lines |-> Price[l] * [m \in Lines |-> Credited(<< >>, m)][l]]
  <2>1. \A l \in Lines : f[l] = 0
    <3> SUFFICES ASSUME NEW l \in Lines PROVE f[l] = 0
      OBVIOUS
    <3>1. Price[l] \in Nat /\ [m \in Lines |-> Credited(<< >>, m)][l] = 0
      BY <1>3, RefundsAssumption
    <3> QED
      BY <3>1
  <2>2. IsFiniteSet(Lines) /\ {} \in SUBSET Lines
    BY RefundsAssumption
  <2> HIDE DEF f
  <2>3. (\A l \in Lines : f[l] \in Int) /\ \A l \in Lines \ {} : f[l] = 0
    BY <2>1
  <2>4. SumFunctionOnSet(f, Lines) = SumFunctionOnSet(f, {})
    BY <2>2, <2>3, SumWithin
  <2> QED
    BY <2>4, SumEmpty DEF Priced, f
<1> QED
  BY <1>2, <1>3, <1>4

\* A bill as commitFinalize() leaves it satisfies the invariant.
LEMMA RefundsStart == Init => RefundsInv
<1> SUFFICES ASSUME Init PROVE RefundsInv
  OBVIOUS
<1>1. PICK whole \in [Roots -> 1..MaxQty] :
        qty = [l \in Lines |-> IF l \in Roots THEN whole[l] ELSE Per[l] * whole[Parent[l]]]
  BY DEF Init
<1>2. \A l \in Roots : l \in Lines /\ whole[l] \in Nat \ {0}
  BY RefundsAssumption DEF Roots
<1>3. QtyOK
  <2>1. \A l \in Roots : qty[l] = whole[l]
    BY <1>1, <1>2
  <2>2. \A c \in Lines \ Roots : Parent[c] \in Roots /\ qty[c] = Per[c] * whole[Parent[c]]
    BY <1>1, RefundsAssumption
  <2>3. \A c \in Lines \ Roots : Per[c] * whole[Parent[c]] \in Nat \ {0}
    <3> SUFFICES ASSUME NEW c \in Lines \ Roots PROVE Per[c] * whole[Parent[c]] \in Nat \ {0}
      OBVIOUS
    <3>1. PICK p \in Nat \ {0}, w \in Nat \ {0} : p = Per[c] /\ w = whole[Parent[c]]
      BY <1>2, <2>2, RefundsAssumption
    <3>2. p * w \in Nat \ {0}
      OBVIOUS
    <3> QED
      BY <3>1, <3>2
  <2>4. \A l \in Lines : qty[l] \in Nat \ {0}
    BY <1>2, <2>1, <2>2, <2>3
  <2> QED
    BY <1>1, <2>1, <2>2, <2>4 DEF QtyOK
<1>0. PICK s : s = SumFunction([l \in Lines \ Late |-> qty[l] * Price[l]])
  OBVIOUS
<1>4. PICK d \in Discounts :
        /\ d <= s
        /\ bill = [subtotal |-> s, discount |-> d, tax |-> computeTax(TaxProfile, s - d).taxMinor]
  BY <1>0 DEF Init
<1>5. BillInv
  <2> DEFINE f == [l \in Lines \ Late |-> qty[l] * Price[l]]
  <2>1. IsFiniteSet(Lines \ Late) /\ Lines \ Late \in SUBSET (Lines \ Late)
    BY RefundsAssumption, FS_Subset
  <2>2. \A l \in Lines \ Late : f[l] \in Nat
    <3> SUFFICES ASSUME NEW l \in Lines \ Late PROVE f[l] \in Nat
      OBVIOUS
    <3>1. qty[l] \in Nat /\ Price[l] \in Nat
      BY <1>3, RefundsAssumption DEF QtyOK
    <3> QED
      BY <3>1
  <2>3. s = SumFunctionOnSet(f, Lines \ Late)
    BY <1>0 DEF SumFunction
  <2>4. s \in Nat
    <3> HIDE DEF f
    <3> QED
      BY <2>1, <2>2, <2>3, SumNaturals
  <2>5. d \in Nat /\ TaxProfile \in TaxProfiles
    BY RefundsAssumption
  <2>6. PICK n \in Nat : n = s - d
    BY <1>4, <2>4, <2>5
  <2>7. computeTax(TaxProfile, n).taxMinor \in Nat /\ (n = 0 => computeTax(TaxProfile, n).taxMinor = 0)
    BY <2>5, TaxNat
  <2>8. bill.subtotal = s /\ bill.discount = d /\ bill.tax = computeTax(TaxProfile, n).taxMinor /\ Net = n
    BY <1>4, <2>6 DEF Net
  <2> HIDE DEF f
  <2>9. bill.subtotal = SumFunctionOnSet(f, Lines \ Late)
    BY <2>3, <2>8
  <2> QED
    BY <1>4, <2>4, <2>5, <2>7, <2>8, <2>9 DEF BillInv, f
<1>6. LockInv
  BY DEF Init, LockInv
<1>7. notes = << >> /\ notes \in Seq(Note) /\ present = Lines \ Late
  BY DEF Init
<1>8. CreditInv
  <2>1. \A l \in Lines : qty[l] \in Nat
    BY <1>3 DEF QtyOK
  <2>2. \A c \in Lines \ Roots : Per[c] * 0 = 0
    BY RefundsAssumption
  <2> QED
    BY <1>7, <2>1, <2>2, NoNotesYet DEF CreditInv
<1>9. CumulativeInv
  <2>1. bill.subtotal \in Nat /\ bill.tax \in Nat /\ Net \in Nat
    BY <1>5 DEF BillInv, Net
  <2>2. prorate(0, Net, bill.subtotal) = 0 /\ prorate(0, bill.tax, bill.subtotal) = 0
    BY <2>1, ShareGrows
  <2> QED
    BY <1>7, <2>2, NoNotesYet DEF CumulativeInv
<1>10. NoteLinesAddUp
  BY <1>7 DEF NoteLinesAddUp
<1> QED
  BY <1>3, <1>5, <1>6, <1>7, <1>8, <1>9, <1>10 DEF RefundsInv

\* The targets a refund goes ahead with keep what has been credited within
\* what was ordered, on lines that are there, a combo's items with it.
LEMMA TargetsFit ==
  ASSUME RefundsInv, NEW t \in Txns, txn[t] # None, NEW T, T = Targets(txn[t]), Refundable(txn[t], T)
  PROVE  /\ TargetsOK(T)
         /\ \A l \in Lines : Units(T, l) \in Nat /\ Credited(notes, l) \in Nat /\ Credited(notes, l) + Units(T, l) <= qty[l]
         /\ \A l \in Lines \ present : Units(T, l) = 0
         /\ \A c \in Lines \ Roots :
              Credited(notes, c) + Units(T, c) = Per[c] * (Credited(notes, Parent[c]) + Units(T, Parent[c]))
<1>1. PICK r \in Request : r = txn[t]
  BY DEF RefundsInv, LockInv
<1>2. QtyOK /\ notes \in Seq(Note) /\ r.notes = notes /\ Lines \ Late \subseteq r.lines /\ r.lines \subseteq present /\ present \subseteq Lines
  BY <1>1 DEF RefundsInv, LockInv
<1>3. TargetsOK(T)
  BY <1>1, <1>2, AskForTheRest, AskForNamed
<1>4. RowsOK(T)
  BY <1>3 DEF TargetsOK
<1>5. \A l \in Lines : Units(T, l) \in Nat /\ Credited(notes, l) \in Nat
  BY <1>2, <1>4, RowSums, CreditedNat
<1>6. \A l \in Lines : Credited(notes, l) <= qty[l]
  BY DEF RefundsInv, CreditInv
<1>7. \A k \in DOMAIN T : T[k].l \in r.lines /\ Credited(notes, T[k].l) + Units(T, T[k].l) <= qty[T[k].l]
  BY <1>1, <1>2 DEF Refundable
<1>8. ASSUME NEW l \in Lines PROVE Credited(notes, l) + Units(T, l) <= qty[l] /\ (l \notin present => Units(T, l) = 0)
  <2>1. CASE \E k \in DOMAIN T : T[k].l = l
    <3>1. PICK k \in DOMAIN T : T[k].l = l
      BY <2>1
    <3> QED
      BY <1>2, <1>7, <3>1
  <2>2. CASE \A k \in DOMAIN T : T[k].l # l
    <3>1. Units(T, l) = 0
      BY <1>4, <2>2, UnitsOfFew
    <3> QED
      BY <1>5, <1>6, <3>1
  <2> QED
    BY <2>1, <2>2
<1>9. ASSUME NEW c \in Lines \ Roots
      PROVE  Credited(notes, c) + Units(T, c) = Per[c] * (Credited(notes, Parent[c]) + Units(T, Parent[c]))
  <2>1. PICK P \in Lines : P = Parent[c]
    BY RefundsAssumption DEF Roots
  <2>2. c \in r.lines /\ P \in r.lines
    <3>1. c \notin Late
      BY RefundsAssumption
    <3>2. c \in ItemsOf(P)
      BY <2>1 DEF ItemsOf
    <3>3. P \notin Late
      BY <3>2, RefundsAssumption
    <3> QED
      BY <1>2, <3>1, <3>3
  <2>3. PICK p \in Nat : p = Per[c]
    BY RefundsAssumption
  <2>4. Credited(notes, c) = p * Credited(notes, P) /\ qty[c] = p * qty[P]
    BY <1>2, <2>1, <2>3 DEF RefundsInv, CreditInv, QtyOK
  <2>5. CASE r.asked = << >>
    <3>1. Credited(notes, c) + Units(T, c) = qty[c] /\ Credited(notes, P) + Units(T, P) = qty[P]
      BY <1>1, <1>2, <1>6, <2>2, <2>5, AskForTheRest
    <3> QED
      BY <2>1, <2>3, <2>4, <3>1
  <2>6. CASE r.asked # << >>
    <3>1. Units(T, c) = p * Units(T, P)
      BY <1>1, <1>2, <2>1, <2>3, <2>6, NamedInProportion
    <3>2. PICK a \in Nat, b \in Nat : a = Credited(notes, P) /\ b = Units(T, P)
      BY <1>5
    <3>3. p * (a + b) = p * a + p * b
      OBVIOUS
    <3> QED
      BY <2>1, <2>3, <2>4, <3>1, <3>2, <3>3
  <2> QED
    BY <2>5, <2>6
<1> QED
  BY <1>3, <1>5, <1>8, <1>9

\* The rows of a new note, with the amounts the code spreads over them.
NewLines(T, last, subtotal) ==
  [k \in DOMAIN T |-> [l |-> T[k].l, q |-> T[k].q, amount |-> LineAmounts(T, last, subtotal)[k]]]

\* A new note is a note; its rows are the targets and add up to its subtotal.
LEMMA NewNote ==
  ASSUME NEW T, TargetsOK(T), NEW last \in DOMAIN T, NEW subtotal \in Nat, NEW tax \in Nat,
         NEW n, n = [subtotal |-> subtotal, tax |-> tax, lines |-> NewLines(T, last, subtotal)]
  PROVE  /\ n \in Note
         /\ Gross(n.lines) = Gross(T) /\ \A l : Units(n.lines, l) = Units(T, l)
         /\ SumFunction([k \in DOMAIN n.lines |-> n.lines[k].amount]) = n.subtotal
         /\ \A k \in DOMAIN n.lines : n.lines[k].amount >= 0
<1>1. RowsOK(T) /\ DOMAIN T \in SUBSET Keys /\ IsFiniteSet(DOMAIN T)
  BY DEF TargetsOK, RowsOK
<1>2. PICK x \in [DOMAIN T -> Nat] : x = LineAmounts(T, last, subtotal) /\ SumFunctionOnSet(x, DOMAIN T) = subtotal
  BY <1>1, AmountsComeToSubtotal
<1>3. PICK rows : rows = NewLines(T, last, subtotal)
  OBVIOUS
<1>4. rows = [k \in DOMAIN T |-> [l |-> T[k].l, q |-> T[k].q, amount |-> x[k]]]
  BY <1>2, <1>3 DEF NewLines
<1>5. DOMAIN rows = DOMAIN T /\ \A k \in DOMAIN T : rows[k].l = T[k].l /\ rows[k].q = T[k].q /\ rows[k].amount = x[k]
  BY <1>4
<1>6. rows \in [DOMAIN T -> Row]
  BY <1>1, <1>4 DEF RowsOK, Row
<1>7. n \in Note /\ n.lines = rows /\ n.subtotal = subtotal
  BY <1>1, <1>3, <1>6 DEF Note
<1>8. Gross(rows) = Gross(T) /\ \A l : Units(rows, l) = Units(T, l)
  BY <1>1, <1>5, RowsAlike
<1>9. SumFunction([k \in DOMAIN rows |-> rows[k].amount]) = subtotal
  <2>1. [k \in DOMAIN rows |-> rows[k].amount] = x
    BY <1>5
  <2>2. DOMAIN x = DOMAIN T
    OBVIOUS
  <2> QED
    BY <1>2, <2>1, <2>2 DEF SumFunction
<1>10. \A k \in DOMAIN rows : rows[k].amount >= 0
  BY <1>5
<1> QED
  BY <1>7, <1>8, <1>9, <1>10

\* A note takes what brings all notes together to one proration.
LEMMA ShareMakesUp ==
  ASSUME NEW a \in Nat, NEW g \in Nat, NEW of \in Nat, bill.subtotal \in Nat,
         NEW prior, prior = prorate(a, of, bill.subtotal)
  PROVE  /\ NoteShare(a + g, g, of, prior) \in Nat
         /\ prior + NoteShare(a + g, g, of, prior) = prorate(a + g, of, bill.subtotal)
<1>0. PICK s \in Nat : s = bill.subtotal
  OBVIOUS
<1>1. PICK x \in Nat, y \in Nat : x = prior /\ y = prorate(a + g, of, bill.subtotal) /\ x <= y
  <2>1. prorate(a, of, s) \in Nat /\ prorate(a + g, of, s) \in Nat /\ prorate(a, of, s) <= prorate(a + g, of, s)
    BY ShareGrows
  <2> QED
    BY <1>0, <2>1
<1>2. NoteShare(a + g, g, of, prior) = IF y - x > 0 THEN y - x ELSE 0
  BY <1>1 DEF NoteShare, maxZero
<1> QED
  BY <1>1, <1>2

\* refund() to its end: the note is written and the lock released.
LEMMA RefundKeeps ==
  ASSUME RefundsInv, NEW t \in Txns, RefundCommit(t)
  PROVE  RefundsInv'
<1>1. PICK T, g : T = Targets(txn[t]) /\ g = Gross(T)
  OBVIOUS
<1>2. txn[t] # None /\ Refundable(txn[t], T) /\ txn' = [txn EXCEPT ![t] = None] /\ qty' = qty /\ present' = present /\ bill' = bill
  BY <1>1 DEF RefundCommit
<1>3. notes \in Seq(Note) /\ txn[t].notes = notes /\ \A u \in Txns \ {t} : txn[u] = None
  BY <1>2 DEF RefundsInv, LockInv
<1>4. /\ TargetsOK(T)
      /\ \A l \in Lines : Units(T, l) \in Nat /\ Credited(notes, l) \in Nat /\ Credited(notes, l) + Units(T, l) <= qty[l]
      /\ \A l \in Lines \ present : Units(T, l) = 0
      /\ \A c \in Lines \ Roots :
           Credited(notes, c) + Units(T, c) = Per[c] * (Credited(notes, Parent[c]) + Units(T, Parent[c]))
  BY <1>1, <1>2, TargetsFit
<1>5. RowsOK(T)
  BY <1>4 DEF TargetsOK
<1>6. g \in Nat
  BY <1>1, <1>5, RowSums
<1>7. bill.subtotal \in Nat /\ bill.tax \in Nat /\ Net \in Nat
  BY DEF RefundsInv, BillInv, Net
<1>0. PICK ps, pt : ps = NotedSubtotal(notes) /\ pt = NotedTax(notes)
  OBVIOUS
<1>8. PICK a \in Nat : a = PriorGross(notes)
  <2>1. PriorGross(notes) \in Nat
    <3>1. PICK m \in Nat : m = Len(notes) /\ DOMAIN notes = 1..m /\ \A i \in 1..m : notes[i] \in Note
      BY <1>3
    <3> DEFINE f == [i \in DOMAIN notes |-> Gross(notes[i].lines)]
    <3>2. \A i \in 1..m : f[i] \in Nat
      BY <3>1, NoteRows, RowSums
    <3>3. PriorGross(notes) = SumFunctionOnSet(f, 1..m)
      BY <3>1 DEF PriorGross, SumFunction
    <3>4. IsFiniteSet(1..m) /\ 1..m \in SUBSET (1..m)
      BY FS_Interval
    <3> HIDE DEF f
    <3> QED
      BY <3>2, <3>3, <3>4, SumNaturals
  <2> QED
    BY <2>1
<1>9. PICK s, x : s = NoteShare(a + g, g, Net, ps) /\ x = NoteShare(a + g, g, bill.tax, pt)
  OBVIOUS
<1>10. ps = prorate(a, Net, bill.subtotal) /\ pt = prorate(a, bill.tax, bill.subtotal)
  BY <1>0, <1>8 DEF RefundsInv, CumulativeInv
<1>11. s \in Nat /\ ps + s = prorate(a + g, Net, bill.subtotal)
  BY <1>6, <1>7, <1>9, <1>10, ShareMakesUp
<1>12. x \in Nat /\ pt + x = prorate(a + g, bill.tax, bill.subtotal)
  BY <1>6, <1>7, <1>9, <1>10, ShareMakesUp
<1>13. PICK last \in LastOf(T) : notes' = Append(notes, [subtotal |-> s, tax |-> x, lines |-> NewLines(T, last, s)])
  BY <1>0, <1>1, <1>3, <1>8, <1>9 DEF RefundCommit, NewLines
<1>14. last \in DOMAIN T
  BY DEF LastOf
<1>15. PICK n : n = [subtotal |-> s, tax |-> x, lines |-> NewLines(T, last, s)]
  OBVIOUS
<1>16. /\ n \in Note /\ n.subtotal = s /\ n.tax = x
       /\ Gross(n.lines) = g /\ \A l : Units(n.lines, l) = Units(T, l)
       /\ SumFunction([k \in DOMAIN n.lines |-> n.lines[k].amount]) = n.subtotal
       /\ \A k \in DOMAIN n.lines : n.lines[k].amount >= 0
  BY <1>1, <1>4, <1>11, <1>12, <1>14, <1>15, NewNote
<1>17. notes' = Append(notes, n)
  BY <1>13, <1>15
<1>18. /\ PriorGross(notes') = a + g /\ NotedSubtotal(notes') = ps + s /\ NotedTax(notes') = pt + x
       /\ \A l : Credited(notes', l) = Credited(notes, l) + Units(T, l)
  BY <1>0, <1>3, <1>8, <1>16, <1>17, OneNoteMore
<1>19. QtyOK' /\ (Lines \ Late \subseteq present)' /\ (present \subseteq Lines)'
  BY <1>2 DEF RefundsInv, QtyOK
<1>20. notes' \in Seq(Note)
  BY <1>3, <1>16, <1>17
<1>21. BillInv'
  BY <1>2 DEF RefundsInv, BillInv, Net
<1>22. LockInv'
  <2>1. txn' \in [Txns -> Request \cup {None}]
    BY <1>2 DEF RefundsInv, LockInv
  <2>2. \A u \in Txns : txn'[u] = None
    BY <1>2, <1>3 DEF RefundsInv, LockInv
  <2> QED
    BY <2>1, <2>2 DEF LockInv
<1>23. CreditInv'
  <2>1. \A l \in Lines : Credited(notes', l) <= qty'[l] /\ (l \notin present' => Credited(notes', l) = 0)
    BY <1>2, <1>4, <1>18 DEF RefundsInv, CreditInv
  <2>2. \A c \in Lines \ Roots : Credited(notes', c) = Per[c] * Credited(notes', Parent[c])
    BY <1>4, <1>18
  <2>3. PriorGross(notes') = Priced([l \in Lines |-> Credited(notes', l)])
    <3>1. PICK u, v, w : /\ u = [l \in Lines |-> Credited(notes, l)]
                         /\ v = [l \in Lines |-> Units(T, l)]
                         /\ w = [l \in Lines |-> Credited(notes', l)]
      OBVIOUS
    <3>2. \A l \in Lines : u[l] \in Nat /\ v[l] \in Nat /\ w[l] = u[l] + v[l]
      BY <1>4, <1>18, <3>1
    <3>3. Priced(w) = Priced(u) + Priced(v)
      BY <3>2, PricedPlus
    <3>4. a = Priced(u) /\ g = Priced(v)
      BY <1>1, <1>5, <1>8, <3>1, GrossByLine DEF RefundsInv, CreditInv
    <3> QED
      BY <1>18, <3>1, <3>3, <3>4
  <2> QED
    BY <2>1, <2>2, <2>3 DEF CreditInv
<1>24. CumulativeInv'
  <2>1. Net' = Net
    BY <1>2 DEF Net
  <2> QED
    BY <1>2, <1>11, <1>12, <1>18, <2>1 DEF CumulativeInv
<1>25. NoteLinesAddUp'
  <2>1. PICK m \in Nat : m = Len(notes) /\ DOMAIN notes = 1..m /\ DOMAIN notes' = 1..(m + 1)
    BY <1>3, <1>16, <1>17
  <2>2. notes'[m + 1] = n /\ \A i \in 1..m : notes'[i] = notes[i]
    BY <1>3, <1>16, <1>17, <2>1
  <2> SUFFICES ASSUME NEW i \in 1..(m + 1), NEW e, e = notes'[i].lines
               PROVE  /\ SumFunction([k \in DOMAIN e |-> e[k].amount]) = notes'[i].subtotal
                      /\ \A k \in DOMAIN e : e[k].amount >= 0
    BY <2>1 DEF NoteLinesAddUp
  <2>3. CASE i \in 1..m
    <3>1. i \in DOMAIN notes /\ notes'[i] = notes[i]
      BY <2>1, <2>2, <2>3
    <3> QED
      BY <3>1 DEF RefundsInv, NoteLinesAddUp
  <2>4. CASE i \notin 1..m
    <3>1. notes'[i] = n
      BY <2>2, <2>4
    <3> QED
      BY <1>16, <3>1
  <2> QED
    BY <2>3, <2>4
<1> QED
  BY <1>19, <1>20, <1>21, <1>22, <1>23, <1>24, <1>25 DEF RefundsInv

\* Every step keeps the invariant.
LEMMA RefundsStep == RefundsInv /\ [Next]_vars => RefundsInv'
<1> SUFFICES ASSUME RefundsInv, [Next]_vars PROVE RefundsInv'
  OBVIOUS
<1>1. ASSUME qty' = qty, bill' = bill, notes' = notes, present \subseteq present', present' \subseteq Lines, LockInv'
      PROVE  RefundsInv'
  <2>1. QtyOK' /\ BillInv' /\ CumulativeInv' /\ NoteLinesAddUp'
    BY <1>1 DEF RefundsInv, QtyOK, BillInv, CumulativeInv, NoteLinesAddUp, Net
  <2>2. CreditInv'
    BY <1>1 DEF RefundsInv, CreditInv
  <2>3. (Lines \ Late \subseteq present)' /\ (present \subseteq Lines)' /\ (notes \in Seq(Note))'
    BY <1>1 DEF RefundsInv
  <2> QED
    BY <1>1, <2>1, <2>2, <2>3 DEF RefundsInv
<1>2. ASSUME NEW l \in Late, AddLineLate(l) PROVE RefundsInv'
  <2>1. present' = present \cup {l} /\ l \in Lines /\ UNCHANGED <<qty, bill, notes, txn>>
    BY <1>2, RefundsAssumption DEF AddLineLate, Roots
  <2>2. LockInv'
    BY <2>1 DEF RefundsInv, LockInv
  <2> QED
    BY <1>1, <2>1, <2>2 DEF RefundsInv
<1>3. ASSUME NEW t \in Txns, NEW asked \in Asked, RefundLock(t, asked) PROVE RefundsInv'
  <2>1. PICK r : r = [asked |-> asked, lines |-> present, notes |-> notes]
    OBVIOUS
  <2>2. r \in Request /\ r.notes = notes /\ r.lines = present
    BY <2>1 DEF RefundsInv, Request
  <2>3. txn' = [txn EXCEPT ![t] = r] /\ UNCHANGED <<qty, present, bill, notes>> /\ \A u \in Txns : txn[u] = None
    BY <1>3, <2>1 DEF RefundLock
  <2>4. \A u \in Txns : txn'[u] # None => u = t /\ txn'[u] = r
    BY <2>3 DEF RefundsInv, LockInv
  <2>5. txn' \in [Txns -> Request \cup {None}]
    BY <2>2, <2>3 DEF RefundsInv, LockInv
  <2>6. LockInv'
    BY <2>2, <2>3, <2>4, <2>5 DEF RefundsInv, LockInv
  <2> QED
    BY <1>1, <2>3, <2>6 DEF RefundsInv
<1>4. ASSUME NEW t \in Txns, Abort(t) PROVE RefundsInv'
  <2>1. txn' = [txn EXCEPT ![t] = None] /\ UNCHANGED <<qty, present, bill, notes>> /\ txn[t] # None
    BY <1>4 DEF Abort
  <2>2. txn' \in [Txns -> Request \cup {None}] /\ \A u \in Txns : txn'[u] = None
    BY <2>1 DEF RefundsInv, LockInv
  <2>3. LockInv'
    BY <2>2 DEF LockInv
  <2> QED
    BY <1>1, <2>1, <2>3 DEF RefundsInv
<1>5. ASSUME UNCHANGED vars PROVE RefundsInv'
  <2>1. UNCHANGED <<qty, present, bill, notes, txn>>
    BY <1>5 DEF vars
  <2>2. LockInv'
    BY <2>1 DEF RefundsInv, LockInv
  <2> QED
    BY <1>1, <2>1, <2>2 DEF RefundsInv
<1> QED
  BY <1>2, <1>3, <1>4, <1>5, RefundKeeps DEF Next

\* The invariant holds throughout.
THEOREM RefundsCorrect == Spec => []RefundsInv
<1> QED
  BY RefundsStart, RefundsStep, PTL DEF Spec

\* For any number of lines, combos, concurrent requests and credit notes, no
\* line is refunded past its quantity and a combo's items go with it.
THEOREM NeverOverRefunded == Spec => []NoLineOverRefunded
<1>1. RefundsInv => NoLineOverRefunded
  <2> SUFFICES ASSUME RefundsInv PROVE NoLineOverRefunded
    OBVIOUS
  <2>1. \A l \in Lines : Credited(notes, l) <= qty[l]
    BY DEF RefundsInv, CreditInv
  <2>2. ASSUME NEW c \in Lines \ Roots
        PROVE  Credited(notes, c) * qty[Parent[c]] = Credited(notes, Parent[c]) * qty[c]
    <3>1. PICK p \in Nat : p = Per[c]
      BY RefundsAssumption
    <3>2. Parent[c] \in Lines
      BY RefundsAssumption DEF Roots
    <3>3. PICK x \in Nat, y \in Nat : x = Credited(notes, Parent[c]) /\ y = qty[Parent[c]]
      BY <3>2, CreditedNat DEF RefundsInv, QtyOK
    <3>4. Credited(notes, c) = p * x /\ qty[c] = p * y
      BY <3>1, <3>3 DEF RefundsInv, CreditInv, QtyOK
    <3>5. (p * x) * y = x * (p * y)
      OBVIOUS
    <3> QED
      BY <3>3, <3>4, <3>5
  <2> QED
    BY <2>1, <2>2 DEF NoLineOverRefunded
<1> QED
  BY <1>1, RefundsCorrect, PTL

\* While the order holds just the lines that were billed, what has been
\* refunded cost at most the bill's subtotal, and just that when it is all.
LEMMA RefundedOfBilled ==
  ASSUME RefundsInv, OnlyBilledLines
  PROVE  /\ PriorGross(notes) \in Nat /\ PriorGross(notes) <= bill.subtotal
         /\ (\A l \in present : Credited(notes, l) = qty[l]) => PriorGross(notes) = bill.subtotal
<1>1. PICK B \in SUBSET Lines : B = Lines \ Late /\ B = present
  BY DEF RefundsInv, OnlyBilledLines
<1>2. IsFiniteSet(Lines) /\ IsFiniteSet(B) /\ B \in SUBSET B
  BY RefundsAssumption, FS_Subset
<1>3. PICK f, h : f = [l \in Lines |-> Price[l] * Credited(notes, l)] /\ h = [l \in B |-> qty[l] * Price[l]]
  OBVIOUS
<1>4. bill.subtotal = SumFunctionOnSet(h, B)
  BY <1>1, <1>3 DEF RefundsInv, BillInv
<1>5. PriorGross(notes) = SumFunctionOnSet(f, Lines)
  <2>1. f = [l \in Lines |-> Price[l] * [m \in Lines |-> Credited(notes, m)][l]]
    BY <1>3
  <2> QED
    BY <2>1 DEF RefundsInv, CreditInv, Priced
<1>6. ASSUME NEW l \in Lines
      PROVE  /\ f[l] \in Nat /\ (l \notin B => f[l] = 0)
             /\ l \in B => h[l] \in Int /\ f[l] <= h[l] /\ (Credited(notes, l) = qty[l] => f[l] = h[l])
  <2>1. PICK p \in Nat, c \in Nat, q \in Nat : p = Price[l] /\ c = Credited(notes, l) /\ q = qty[l]
    BY RefundsAssumption, CreditedNat DEF RefundsInv, QtyOK
  <2>2. c <= q /\ (l \notin B => c = 0)
    BY <1>1, <2>1 DEF RefundsInv, CreditInv
  <2>3. f[l] = p * c /\ (l \in B => h[l] = q * p)
    BY <1>3, <2>1
  <2>4. p * c \in Nat /\ q * p \in Int /\ (c = 0 => p * c = 0) /\ (c = q => p * c = q * p)
    OBVIOUS
  <2>5. p * c <= q * p
    <3>1. PICK d \in Nat : q = c + d
      BY <2>2
    <3>2. q * p = p * c + d * p /\ d * p \in Nat
      BY <3>1
    <3> QED
      BY <3>2, <2>4
  <2> QED
    BY <2>1, <2>2, <2>3, <2>4, <2>5
<1>7. SumFunctionOnSet(f, Lines) = SumFunctionOnSet(f, B)
  <2>1. (\A l \in Lines : f[l] \in Int) /\ \A l \in Lines \ B : f[l] = 0
    BY <1>6
  <2> QED
    BY <1>2, <2>1, SumWithin
<1>8. SumFunctionOnSet(f, B) \in Nat
  BY <1>2, <1>6, SumNaturals
<1>9. SumFunctionOnSet(f, B) <= SumFunctionOnSet(h, B)
  <2>1. \A l \in B : f[l] \in Int /\ h[l] \in Int /\ f[l] <= h[l]
    BY <1>6
  <2> QED
    BY <1>2, <2>1, SumLeq
<1>10. ASSUME \A l \in present : Credited(notes, l) = qty[l]
       PROVE  SumFunctionOnSet(f, B) = SumFunctionOnSet(h, B)
  <2>1. \A l \in B : f[l] = h[l]
    BY <1>1, <1>6, <1>10
  <2> QED
    BY <1>2, <2>1, SumSame
<1> QED
  BY <1>4, <1>5, <1>7, <1>8, <1>9, <1>10

\* However the refunds are cut and whoever asks for them, as long as the order
\* holds the lines its bill was made of the notes return at most what was paid.
THEOREM RefundsStayWithinPaid == Spec => []WithinPaid
<1>1. RefundsInv => WithinPaid
  <2> SUFFICES ASSUME RefundsInv, OnlyBilledLines PROVE ReturnedAtMostPaid
    BY DEF WithinPaid
  <2>1. PICK s \in Nat, g \in Nat : s = bill.subtotal /\ g = PriorGross(notes) /\ g <= s
    BY RefundedOfBilled DEF RefundsInv, BillInv
  <2>2. bill.tax \in Nat /\ Net \in Nat
    BY DEF RefundsInv, BillInv, Net
  <2>3. prorate(g, Net, s) <= Net /\ prorate(g, bill.tax, s) <= bill.tax
    BY <2>1, <2>2, ShareOfPaid
  <2> QED
    BY <2>1, <2>3 DEF RefundsInv, CumulativeInv, ReturnedAtMostPaid
<1> QED
  BY <1>1, RefundsCorrect, PTL

\* Refunding everything, in however many notes, returns exactly what was paid,
\* and the lines of every note add up to it.
THEOREM NotesExact == Spec => []NotesAreExact
<1>1. RefundsInv => NotesAreExact
  <2> SUFFICES ASSUME RefundsInv, OnlyBilledLines, \A l \in present : Credited(notes, l) = qty[l]
               PROVE  NotedSubtotal(notes) = Net /\ NotedTax(notes) = bill.tax
    BY DEF NotesAreExact, FullRefundIsExact, RefundsInv
  <2>1. PICK s \in Nat : s = bill.subtotal /\ s = PriorGross(notes)
    BY RefundedOfBilled DEF RefundsInv, BillInv
  <2>2. bill.tax \in Nat /\ Net \in Nat /\ (s = 0 => Net = 0) /\ (Net = 0 => bill.tax = 0)
    BY <2>1 DEF RefundsInv, BillInv, Net
  <2>3. prorate(s, Net, s) = Net /\ prorate(s, bill.tax, s) = bill.tax
    BY <2>2, ShareOfPaid
  <2> QED
    BY <2>1, <2>3 DEF RefundsInv, CumulativeInv
<1> QED
  BY <1>1, RefundsCorrect, PTL

-----------------------------------------------------------------------------
(* The tax engine *)

\* r is a nearest integer of n / d: off by at most half.
Near(n, d, r) == 2 * (n - r * d) <= d /\ -d <= 2 * (n - r * d)

\* roundHalfUp is near; a tie goes away from zero (tax.ts).
LEMMA HalfUpNear ==
  ASSUME NEW n \in Int, NEW d \in Nat \ {0}
  PROVE  /\ roundHalfUp(n, d) \in Int
         /\ Near(n, d, roundHalfUp(n, d))
         /\ n >= 0 => 2 * (n - roundHalfUp(n, d) * d) < d /\ roundHalfUp(n, d) >= 0
         /\ n < 0 => -d < 2 * (n - roundHalfUp(n, d) * d) /\ roundHalfUp(n, d) <= 0
<1>1. ASSUME NEW m \in Nat, NEW u, u = (2 * m + d) \div (2 * d)
      PROVE  u \in Nat /\ 2 * (m - u * d) < d /\ -d <= 2 * (m - u * d)
  <2>1. PICK W \in Nat \ {0}, a \in Nat : W = 2 * d /\ a = 2 * m + d
    OBVIOUS
  <2>2. u = a \div W
    BY <1>1, <2>1
  <2>3. u \in Nat /\ 0 <= a - W * u /\ a - W * u <= W - 1
    <3>1. u \in Nat
      BY <2>2, DivisionNat
    <3>2. 0 <= a - W * u /\ a - W * u <= W - 1
      BY <2>2, RoundedDown
    <3> QED
      BY <3>1, <3>2
  <2>4. PICK z \in Int : z = u * d /\ W * u = 2 * z
    BY <2>1, <2>3
  <2> QED
    BY <2>1, <2>3, <2>4
<1>2. CASE n >= 0
  <2>1. PICK u : u = (2 * n + d) \div (2 * d)
    OBVIOUS
  <2>2. roundHalfUp(n, d) = u
    BY <1>2, <2>1 DEF roundHalfUp
  <2>3. u \in Nat /\ 2 * (n - u * d) < d /\ -d <= 2 * (n - u * d)
    <3>1. n \in Nat
      BY <1>2
    <3> QED
      BY <1>1, <2>1, <3>1
  <2> QED
    BY <1>2, <2>2, <2>3 DEF Near
<1>3. CASE n < 0
  <2>1. PICK m \in Nat : m = -n
    BY <1>3
  <2>2. PICK u : u = (2 * m + d) \div (2 * d)
    OBVIOUS
  <2>3. roundHalfUp(n, d) = -u
    BY <1>3, <2>1, <2>2 DEF roundHalfUp
  <2>4. u \in Nat /\ 2 * (m - u * d) < d /\ -d <= 2 * (m - u * d)
    BY <1>1, <2>2
  <2>5. PICK z \in Int : z = u * d /\ (-u) * d = -z
    BY <2>4
  <2>6. 2 * (n - (-u) * d) <= d /\ -d < 2 * (n - (-u) * d)
    BY <2>1, <2>4, <2>5
  <2> QED
    BY <1>3, <2>3, <2>4, <2>6 DEF Near
<1> QED
  BY <1>2, <1>3

\* roundHalfEven is near; a tie goes to the even neighbour (tax.ts).
LEMMA HalfEvenNear ==
  ASSUME NEW n \in Int, NEW d \in Nat \ {0}
  PROVE  /\ roundHalfEven(n, d) \in Int
         /\ Near(n, d, roundHalfEven(n, d))
         /\ 2 * (n - roundHalfEven(n, d) * d) \in {d, -d} => roundHalfEven(n, d) % 2 = 0
<1>1. ASSUME NEW m \in Nat, NEW u, u = HalfEvenOfNat(m, d)
      PROVE  u \in Nat /\ Near(m, d, u) /\ (2 * (m - u * d) \in {d, -d} => u % 2 = 0)
  <2>1. PICK q \in Nat, r \in Nat : q = m \div d /\ r = m % d /\ m = d * q + r /\ r <= d - 1
    <3>1. PICK q \in Nat : q = m \div d
      BY DivisionNat
    <3>2. m % d \in Nat /\ m % d <= d - 1 /\ m = d * q + (m % d)
      BY <3>1
    <3> QED
      BY <3>1, <3>2
  <2>2. PICK z \in Int : z = d * q /\ z = q * d /\ (q + 1) * d = z + d
    OBVIOUS
  <2>3. CASE 2 * r > d \/ (2 * r = d /\ q % 2 = 1)
    <3>1. u = q + 1
      BY <1>1, <2>1, <2>3 DEF HalfEvenOfNat
    <3>2. 2 * (m - u * d) = 2 * r - 2 * d
      BY <2>1, <2>2, <3>1
    <3>3. 2 * r - 2 * d = -d => (q + 1) % 2 = 0
      <4> SUFFICES ASSUME 2 * r = d PROVE (q + 1) % 2 = 0
        OBVIOUS
      <4>1. q % 2 = 1
        BY <2>3
      <4> QED
        BY <4>1
    <3> QED
      BY <2>1, <2>3, <3>1, <3>2, <3>3 DEF Near
  <2>4. CASE ~ (2 * r > d \/ (2 * r = d /\ q % 2 = 1))
    <3>1. u = q
      BY <1>1, <2>1, <2>4 DEF HalfEvenOfNat
    <3>2. 2 * (m - u * d) = 2 * r
      BY <2>1, <2>2, <3>1
    <3>3. 2 * r = d => q % 2 = 0
      BY <2>4
    <3> QED
      BY <2>1, <2>4, <3>1, <3>2, <3>3 DEF Near
  <2> QED
    BY <2>3, <2>4
<1>2. CASE n >= 0
  BY <1>1, <1>2 DEF roundHalfEven
<1>3. CASE n < 0
  <2>1. PICK m \in Nat : m = -n
    BY <1>3
  <2>2. PICK u : u = HalfEvenOfNat(m, d)
    OBVIOUS
  <2>3. roundHalfEven(n, d) = -u
    BY <1>3, <2>1, <2>2 DEF roundHalfEven
  <2>4. u \in Nat /\ Near(m, d, u) /\ (2 * (m - u * d) \in {d, -d} => u % 2 = 0)
    BY <1>1, <2>2
  <2>5. PICK z \in Int : z = u * d /\ (-u) * d = -z
    BY <2>4
  <2>6. Near(n, d, -u)
    BY <2>1, <2>4, <2>5 DEF Near
  <2>7. 2 * (n - (-u) * d) \in {d, -d} => 2 * (m - u * d) \in {d, -d}
    BY <2>1, <2>5
  <2>8. u % 2 = 0 => (-u) % 2 = 0
    BY <2>4
  <2> QED
    BY <2>3, <2>4, <2>6, <2>7, <2>8
<1> QED
  BY <1>2, <1>3

\* What is near grows with what is rounded.
LEMMA NearGrows ==
  ASSUME NEW n \in Int, NEW m \in Int, n < m, NEW d \in Nat \ {0},
         NEW r \in Int, NEW s \in Int, Near(n, d, r), Near(m, d, s)
  PROVE  r <= s
<1> SUFFICES ASSUME s + 1 <= r PROVE FALSE
  OBVIOUS
<1>1. PICK x \in Int, y \in Int : x = r * d /\ y = s * d
  OBVIOUS
<1>2. (s + 1) * d = y + d /\ (s + 1) * d <= r * d
  BY <1>1
<1> QED
  BY <1>1, <1>2 DEF Near

\* Two nearest integers of one number are a tie.
LEMMA NearTie ==
  ASSUME NEW n \in Int, NEW d \in Nat \ {0}, NEW r \in Int, NEW s \in Int, Near(n, d, r), Near(n, d, s), r < s
  PROVE  2 * (n - r * d) = d /\ 2 * (n - s * d) = -d
<1>1. PICK x \in Int, y \in Int : x = r * d /\ y = s * d
  OBVIOUS
<1>2. (r + 1) * d = x + d /\ (r + 1) * d <= s * d
  BY <1>1
<1> QED
  BY <1>1, <1>2 DEF Near

\* The reference definition of the nearest integers, worked out.
LEMMA NearestIsNear ==
  ASSUME NEW n \in Int, NEW d \in Nat \ {0}
  PROVE  \A r : r \in Nearest(n, d) <=> r \in Int /\ Near(n, d, r)
<1>1. PICK q \in Int : q = n \div d /\ 0 <= n - d * q /\ n - d * q <= d - 1
  BY RoundedDown
<1>2. ASSUME NEW r \in Int
      PROVE  (\A s \in {r - 1, r + 1} : Abs(n - r * d) <= Abs(n - s * d)) <=> Near(n, d, r)
  <2>1. PICK x \in Int : x = n - r * d
    OBVIOUS
  <2>2. n - (r - 1) * d = x + d /\ n - (r + 1) * d = x - d
    BY <2>1
  <2>3. Abs(x) <= Abs(x + d) /\ Abs(x) <= Abs(x - d) <=> 2 * x <= d /\ -d <= 2 * x
    BY DEF Abs
  <2> QED
    BY <2>1, <2>2, <2>3 DEF Near
<1>3. ASSUME NEW r \in Int, Near(n, d, r) PROVE r \in (q - 1)..(q + 2)
  <2>1. PICK x \in Int, y \in Int : x = r * d /\ y = d * q /\ y = q * d
    OBVIOUS
  <2>2. r >= q - 1
    <3> SUFFICES ASSUME r + 2 <= q PROVE FALSE
      OBVIOUS
    <3>1. (r + 2) * d <= q * d /\ (r + 2) * d = x + 2 * d
      BY <2>1
    <3> QED
      BY <1>1, <1>3, <2>1, <3>1 DEF Near
  <2>3. r <= q + 2
    <3> SUFFICES ASSUME q + 3 <= r PROVE FALSE
      OBVIOUS
    <3>1. (q + 3) * d <= r * d /\ (q + 3) * d = y + 3 * d
      BY <2>1
    <3> QED
      BY <1>1, <1>3, <2>1, <3>1 DEF Near
  <2> QED
    BY <2>2, <2>3
<1>4. \A r : r \in Nearest(n, d) <=>
               r \in (q - 1)..(q + 2) /\ \A s \in {r - 1, r + 1} : Abs(n - r * d) <= Abs(n - s * d)
  BY <1>1 DEF Nearest
<1>5. \A r \in (q - 1)..(q + 2) : r \in Int
  OBVIOUS
<1> QED
  BY <1>2, <1>3, <1>4, <1>5

\* Cash goes to the nearest whole unit, a tie up (bill-core.ts
\* cashRoundOffMinor).
LEMMA CashUnits ==
  ASSUME NEW n \in Int, NEW c \in Countries, NEW unit, unit = CashUnit(c), NEW off, off = cashRoundOffMinor(n, c)
  PROVE  IF n <= 0 THEN off = 0
         ELSE (n + off) % unit = 0 /\ 2 * Abs(off) <= unit /\ (2 * Abs(off) = unit => off > 0)
<1>1. CASE n <= 0
  BY <1>1 DEF cashRoundOffMinor
<1>2. CASE n > 0
  <2>1. unit \in {100, 5}
    BY DEF CashUnit
  <2>2. PICK q \in Int, W \in Nat \ {0} : W = 2 * unit /\ q = (n * 2 + unit) \div W
    <3>1. PICK W \in Nat \ {0} : W = 2 * unit
      BY <2>1
    <3>2. n * 2 + unit \in Int
      BY <2>1
    <3> QED
      BY <3>1, <3>2, RoundedDown
  <2>3. 0 <= (n * 2 + unit) - W * q /\ (n * 2 + unit) - W * q <= W - 1
    <3>1. n * 2 + unit \in Int
      BY <2>1
    <3> QED
      BY <2>2, <3>1, RoundedDown
  <2>4. off = q * unit - n
    BY <1>2, <2>2 DEF cashRoundOffMinor
  <2>5. CASE unit = 100
    <3>1. off = 100 * q - n /\ n + off = 100 * q /\ (100 * q) % 100 = 0
      BY <2>4, <2>5
    <3> QED
      BY <1>2, <2>2, <2>3, <2>5, <3>1 DEF Abs
  <2>6. CASE unit = 5
    <3>1. off = 5 * q - n /\ n + off = 5 * q /\ (5 * q) % 5 = 0
      BY <2>4, <2>6
    <3> QED
      BY <1>2, <2>2, <2>3, <2>6, <3>1 DEF Abs
  <2> QED
    BY <2>1, <2>5, <2>6
<1> QED
  BY <1>1, <1>2

\* Rounding is to the nearest for every amount and denominator.
LEMMA AllRoundToNearest ==
  ASSUME profile \in Profiles, amount \in Int
  PROVE  RoundsToNearest
<1>1. CashRoundsToUnit
  <2>1. profile.country \in Countries
    BY DEF Profiles
  <2>2. PICK c \in Countries : c = profile.country
    BY <2>1
  <2>3. PICK unit, off : unit = CashUnit(c) /\ off = cashRoundOffMinor(amount, c)
    OBVIOUS
  <2> QED
    BY <2>2, <2>3, CashUnits DEF CashRoundsToUnit
<1>2. ASSUME NEW d \in Denominators, NEW near, near = Nearest(amount, d),
             NEW up, up = roundHalfUp(amount, d), NEW even, even = roundHalfEven(amount, d)
      PROVE  /\ up \in near /\ \A r \in near : Abs(r) <= Abs(up)
             /\ even \in near /\ (near # {even} => even % 2 = 0)
  <2>1. d \in Nat \ {0}
    <3>1. Denominators \subseteq Nat \ {0}
      BY RatesAssumption
    <3> QED
      BY <3>1
  <2>2. \A r : r \in near <=> r \in Int /\ Near(amount, d, r)
    BY <1>2, <2>1, NearestIsNear
  <2>3. /\ up \in Int /\ Near(amount, d, up)
        /\ amount >= 0 => 2 * (amount - up * d) < d /\ up >= 0
        /\ amount < 0 => -d < 2 * (amount - up * d) /\ up <= 0
    BY <1>2, <2>1, HalfUpNear
  <2>4. even \in Int /\ Near(amount, d, even) /\ (2 * (amount - even * d) \in {d, -d} => even % 2 = 0)
    BY <1>2, <2>1, HalfEvenNear
  <2>5. ASSUME NEW r \in near PROVE Abs(r) <= Abs(up)
    <3>1. r \in Int /\ Near(amount, d, r)
      BY <2>2
    <3>2. CASE amount >= 0
      <4>1. r <= up
        <5> SUFFICES ASSUME up < r PROVE FALSE
          BY <2>3, <3>1
        <5>1. 2 * (amount - up * d) = d
          BY <2>1, <2>3, <3>1, NearTie
        <5> QED
          BY <2>1, <2>3, <3>2, <5>1
      <4>2. r >= 0
        <5> SUFFICES ASSUME r <= -1 PROVE FALSE
          BY <3>1
        <5>1. r * d <= (-1) * d /\ (-1) * d = -d /\ r * d \in Int
          BY <2>1, <3>1
        <5> QED
          BY <2>1, <3>1, <3>2, <5>1 DEF Near
      <4> QED
        BY <2>3, <3>1, <4>1, <4>2 DEF Abs
    <3>3. CASE amount < 0
      <4>1. up <= r
        <5> SUFFICES ASSUME r < up PROVE FALSE
          BY <2>3, <3>1
        <5>1. 2 * (amount - up * d) = -d
          BY <2>1, <2>3, <3>1, NearTie
        <5> QED
          BY <2>1, <2>3, <3>3, <5>1
      <4>2. r <= 0
        <5> SUFFICES ASSUME r >= 1 PROVE FALSE
          BY <3>1
        <5>1. 1 * d <= r * d /\ 1 * d = d /\ r * d \in Int
          BY <2>1, <3>1
        <5> QED
          BY <2>1, <3>1, <3>3, <5>1 DEF Near
      <4> QED
        BY <2>3, <3>1, <4>1, <4>2 DEF Abs
    <3> QED
      BY <3>2, <3>3
  <2>6. ASSUME near # {even} PROVE even % 2 = 0
    <3>1. PICK r \in near : r # even
      BY <2>2, <2>4, <2>6
    <3>2. r \in Int /\ Near(amount, d, r)
      BY <2>2
    <3>3. CASE r < even
      BY <2>1, <2>4, <3>2, <3>3, NearTie
    <3>4. CASE even < r
      BY <2>1, <2>4, <3>2, <3>4, NearTie
    <3> QED
      BY <2>4, <3>1, <3>2, <3>3, <3>4
  <2> QED
    BY <2>2, <2>3, <2>4, <2>5, <2>6
<1> QED
  BY <1>1, <1>2 DEF RoundsToNearest

\* Both are a nearest integer.
LEMMA RoundedNear ==
  ASSUME NEW n \in Int, NEW d \in Nat \ {0}
  PROVE  /\ \E u \in Int : u = roundHalfUp(n, d) /\ Near(n, d, u)
         /\ \E e \in Int : e = roundHalfEven(n, d) /\ Near(n, d, e)
<1>1. roundHalfUp(n, d) \in Int /\ Near(n, d, roundHalfUp(n, d))
  BY HalfUpNear
<1>2. roundHalfEven(n, d) \in Int /\ Near(n, d, roundHalfEven(n, d))
  BY HalfEvenNear
<1> QED
  BY <1>1, <1>2

(* What computeTax() comes to in each of its ways; Whole and Half are its two
   denominators, in basis points. *)

Whole == 10000
Half == 20000

NoneDue(p, n) ==
  /\ computeTax(p, n) = NoTax
  /\ p.country = "IN" => p.compositionScheme
  /\ p.country = "AU" => ~ p.gstRegistered

WholeDue(p, n, a) ==
  /\ p.country = "IN" /\ ~ p.compositionScheme /\ p.igst
  /\ \E t \in Int : /\ t = roundHalfUp(a, Whole) /\ Near(a, Whole, t)
                    /\ computeTax(p, n) = TaxResult(t, FALSE, <<t>>)

HalvesDue(p, n, a) ==
  /\ p.country = "IN" /\ ~ p.compositionScheme /\ ~ p.igst
  /\ \E c \in Int, s \in Int :
       /\ computeTax(p, n) = TaxResult(c + s, FALSE, <<c, s>>)
       /\ p.gstSplitRounding = "exact_total" => /\ c + s = roundHalfUp(a, Whole) /\ Near(a, Whole, c + s)
                                                /\ c - s <= 1 /\ s - c <= 1
       /\ p.gstSplitRounding # "exact_total" => c = s /\ Near(a, Half, c)

InsideDue(p, n, r) ==
  /\ p.country = "AU" /\ p.gstRegistered
  /\ \E u \in Int : /\ Near(n * Whole, Whole + r, u) /\ u = roundHalfUp(n * Whole, Whole + r)
                    /\ computeTax(p, n) = TaxResult(n - u, TRUE, <<n - u>>)

\* computeTax() goes one of four ways.
LEMMA TaxCases ==
  ASSUME NEW p \in Profiles, NEW n \in Int, NEW r \in Nat, r = p.rateBasis, NEW a \in Int, a = n * r
  PROVE  NoneDue(p, n) \/ WholeDue(p, n, a) \/ HalvesDue(p, n, a) \/ InsideDue(p, n, r)
<1>1. /\ p.country \in {"IN", "AU"} /\ p.compositionScheme \in BOOLEAN /\ p.igst \in BOOLEAN
      /\ p.gstRegistered \in BOOLEAN /\ p.gstSplitRounding \in {"exact_total", "equal_half_up", "equal_half_even"}
  BY DEF Profiles, Countries, GstSplitRounding
<1>2. ASSUME p.country = "IN", p.compositionScheme PROVE NoneDue(p, n)
  BY <1>2 DEF computeTax, NoneDue
<1>3. Whole \in Nat \ {0} /\ Half \in Nat \ {0}
  BY DEF Whole, Half
<1>4. PICK t \in Int : t = roundHalfUp(a, Whole) /\ Near(a, Whole, t)
  BY <1>3, RoundedNear
<1>5. ASSUME p.country = "IN", ~ p.compositionScheme, p.igst PROVE WholeDue(p, n, a)
  <2>1. computeTax(p, n) = TaxIGST(p, n)
    BY <1>5 DEF computeTax
  <2>2. computeTax(p, n) = TaxResult(t, FALSE, <<t>>)
    BY <1>4, <2>1 DEF TaxIGST, Whole
  <2> QED
    BY <1>4, <1>5, <2>2 DEF WholeDue
<1>6. ASSUME p.country = "IN", ~ p.compositionScheme, ~ p.igst PROVE HalvesDue(p, n, a)
  <2>1. computeTax(p, n) = TaxCgstSgst(p, n)
    BY <1>6 DEF computeTax
  <2>2. PICK u \in Int : u = roundHalfUp(a, Half) /\ Near(a, Half, u)
    BY <1>3, RoundedNear
  <2>3. PICK e \in Int : e = roundHalfEven(a, Half) /\ Near(a, Half, e)
    BY <1>3, RoundedNear
  <2>4. PICK h \in Int : h = LowerHalf(t) /\ h - (t - h) <= 1 /\ (t - h) - h <= 1
    BY DEF LowerHalf
  <2>5. \E c \in Int, s \in Int :
       /\ computeTax(p, n) = TaxResult(c + s, FALSE, <<c, s>>)
       /\ p.gstSplitRounding = "exact_total" => c + s = t /\ c - s <= 1 /\ s - c <= 1
       /\ p.gstSplitRounding # "exact_total" => c = s /\ Near(a, Half, c)
    <3>1. CASE p.gstSplitRounding = "exact_total"
      <4>1. computeTax(p, n) = TaxResult(h + (t - h), FALSE, <<h, t - h>>)
        BY <1>4, <2>1, <2>4, <3>1 DEF TaxCgstSgst, Whole
      <4>2. t - h \in Int /\ h + (t - h) = t
        OBVIOUS
      <4> WITNESS h \in Int, t - h \in Int
      <4> QED
        BY <2>4, <3>1, <4>1, <4>2
    <3>2. CASE p.gstSplitRounding = "equal_half_up"
      <4>1. computeTax(p, n) = TaxResult(u + u, FALSE, <<u, u>>)
        BY <2>1, <2>2, <3>2 DEF TaxCgstSgst, Half
      <4> WITNESS u \in Int, u \in Int
      <4> QED
        BY <2>2, <3>2, <4>1
    <3>3. CASE p.gstSplitRounding = "equal_half_even"
      <4>1. computeTax(p, n) = TaxResult(e + e, FALSE, <<e, e>>)
        BY <2>1, <2>3, <3>3 DEF TaxCgstSgst, Half
      <4> WITNESS e \in Int, e \in Int
      <4> QED
        BY <2>3, <3>3, <4>1
    <3> QED
      BY <1>1, <3>1, <3>2, <3>3
  <2>6. PICK c \in Int, s \in Int :
       /\ computeTax(p, n) = TaxResult(c + s, FALSE, <<c, s>>)
       /\ p.gstSplitRounding = "exact_total" => c + s = t /\ c - s <= 1 /\ s - c <= 1
       /\ p.gstSplitRounding # "exact_total" => c = s /\ Near(a, Half, c)
    BY <2>5
  <2>7. (p.gstSplitRounding = "exact_total" => c + s = roundHalfUp(a, Whole) /\ Near(a, Whole, c + s) /\ c - s <= 1 /\ s - c <= 1)
    BY <1>4, <2>6
  <2> QED
    BY <1>6, <2>6, <2>7 DEF HalvesDue
<1>7. ASSUME p.country = "AU", p.gstRegistered PROVE InsideDue(p, n, r)
  <2>1. PICK d \in Nat \ {0}, m \in Int : d = Whole + r /\ m = n * Whole
    BY DEF Whole
  <2>2. PICK u \in Int : u = roundHalfUp(m, d) /\ Near(m, d, u)
    BY RoundedNear
  <2>3. computeTax(p, n) = TaxAU(p, n)
    BY <1>7 DEF computeTax
  <2>4. computeTax(p, n) = TaxResult(n - u, TRUE, <<n - u>>)
    BY <2>1, <2>2, <2>3 DEF TaxAU, Whole
  <2> QED
    BY <1>7, <2>1, <2>2, <2>4 DEF InsideDue
<1>8. ASSUME p.country = "AU", ~ p.gstRegistered PROVE NoneDue(p, n)
  BY <1>8 DEF computeTax, NoneDue
<1> QED
  BY <1>1, <1>2, <1>5, <1>6, <1>7, <1>8

\* The sums of the breakdowns there are.
LEMMA BreakdownSums ==
  /\ SumOf(<< >>) = 0
  /\ \A x \in Int : SumOf(<<x>>) = x /\ DOMAIN <<x>> # {1, 2}
  /\ \A x \in Int, y \in Int : SumOf(<<x, y>>) = x + y
<1>1. DOMAIN << >> = {}
  OBVIOUS
<1>2. ASSUME NEW x PROVE DOMAIN <<x>> = {1} /\ <<x>>[1] = x
  OBVIOUS
<1>3. ASSUME NEW x, NEW y PROVE DOMAIN <<x, y>> = {1, 2} /\ <<x, y>>[1] = x /\ <<x, y>>[2] = y
  OBVIOUS
<1>4. {1} # {1, 2} /\ 1 \notin {} /\ 2 \in {1, 2} /\ 2 \notin {1}
  OBVIOUS
<1>5. SumOf(<< >>) = 0
  BY <1>1, <1>4 DEF SumOf
<1>6. ASSUME NEW x \in Int PROVE SumOf(<<x>>) = x /\ DOMAIN <<x>> # {1, 2}
  <2>1. <<x>> # << >>
    BY <1>1, <1>2, <1>4
  <2> QED
    BY <1>2, <1>4, <2>1 DEF SumOf
<1>7. ASSUME NEW x \in Int, NEW y \in Int PROVE SumOf(<<x, y>>) = x + y
  <2>1. <<x, y>> # << >>
    BY <1>1, <1>3, <1>4
  <2> QED
    BY <1>3, <1>4, <2>1 DEF SumOf
<1> QED
  BY <1>5, <1>6, <1>7

\* The printed lines add up, and the split charges what one line would.
LEMMA AllSplitsAddUp ==
  ASSUME profile \in Profiles, amount \in Int
  PROVE  SplitAddsUp
<1>1. PICK r \in Nat : r = profile.rateBasis
  BY RatesAssumption DEF Profiles
<1>2. PICK a \in Int : a = amount * r
  OBVIOUS
<1>0. Whole \in Nat \ {0}
  BY DEF Whole
<1>3. PICK t \in Int : t = roundHalfUp(a, Whole) /\ Near(a, Whole, t)
  BY <1>0, RoundedNear
<1>4. PICK b, tax, w : b = computeTax(profile, amount).breakdown /\ tax = computeTax(profile, amount).taxMinor
                       /\ w = Tax([profile EXCEPT !.igst = TRUE], amount)
  OBVIOUS
<1>5. profile.country = "IN" /\ ~ profile.compositionScheme => w = t
  <2> SUFFICES ASSUME profile.country = "IN", ~ profile.compositionScheme PROVE w = t
    OBVIOUS
  <2>1. PICK q : q = [profile EXCEPT !.igst = TRUE]
    OBVIOUS
  <2>2. q.country = "IN" /\ ~ q.compositionScheme /\ q.igst /\ q.rateBasis = r
    BY <1>1, <2>1 DEF Profiles
  <2>3. computeTax(q, amount) = TaxIGST(q, amount)
    BY <2>2 DEF computeTax
  <2> QED
    BY <1>2, <1>3, <1>4, <2>1, <2>2, <2>3 DEF Tax, TaxIGST, TaxResult, Whole
<1> SUFFICES /\ SumOf(b) = tax
             /\ profile.country = "IN" /\ ~ profile.compositionScheme =>
                  /\ Abs(tax - t) <= 1
                  /\ profile.gstSplitRounding = "exact_total" => tax = t
                  /\ DOMAIN b = {1, 2} => Abs(b[1] - b[2]) <= 1
  BY <1>4, <1>5 DEF SplitAddsUp
<1>6. CASE NoneDue(profile, amount)
  <2>1. b = << >> /\ tax = 0 /\ (profile.country = "IN" => profile.compositionScheme)
    BY <1>4, <1>6 DEF NoneDue, NoTax, TaxResult
  <2> QED
    BY <2>1, BreakdownSums
<1>7. CASE WholeDue(profile, amount, a)
  <2>1. b = <<t>> /\ tax = t
    BY <1>3, <1>4, <1>7 DEF WholeDue, TaxResult
  <2>2. Abs(t - t) <= 1
    BY DEF Abs
  <2> QED
    BY <2>1, <2>2, BreakdownSums
<1>8. CASE HalvesDue(profile, amount, a)
  <2>0. PICK c \in Int, s \in Int :
       /\ computeTax(profile, amount) = TaxResult(c + s, FALSE, <<c, s>>)
       /\ profile.gstSplitRounding = "exact_total" => c + s = t /\ c - s <= 1 /\ s - c <= 1
       /\ profile.gstSplitRounding # "exact_total" => c = s /\ Near(a, Half, c)
    BY <1>3, <1>8 DEF HalvesDue
  <2>1. b = <<c, s>> /\ tax = c + s
    BY <1>4, <2>0 DEF TaxResult
  <2>2. SumOf(b) = tax
    BY <2>1, BreakdownSums
  <2>3. b[1] = c /\ b[2] = s
    BY <2>1
  <2>4. CASE profile.gstSplitRounding = "exact_total"
    <3>1. c + s = t /\ c - s <= 1 /\ s - c <= 1
      BY <2>0, <2>4
    <3>2. Abs(c - s) <= 1 /\ Abs(t - t) <= 1
      BY <3>1 DEF Abs
    <3> QED
      BY <2>1, <2>2, <2>3, <3>1, <3>2
  <2>5. CASE profile.gstSplitRounding # "exact_total"
    <3>1. c = s /\ Near(a, Half, c)
      BY <2>0, <2>5
    <3>2. Abs(c - s) <= 1 /\ Abs((c + s) - t) <= 1
      BY <1>3, <3>1 DEF Abs, Near, Whole, Half
    <3> QED
      BY <2>1, <2>2, <2>3, <2>5, <3>2
  <2> QED
    BY <2>4, <2>5
<1>9. CASE InsideDue(profile, amount, r)
  <2>1. PICK u \in Int : computeTax(profile, amount) = TaxResult(amount - u, TRUE, <<amount - u>>)
    BY <1>9 DEF InsideDue
  <2>2. PICK x \in Int : x = amount - u
    OBVIOUS
  <2>3. b = <<x>> /\ tax = x /\ profile.country = "AU"
    BY <1>4, <1>9, <2>1, <2>2 DEF TaxResult, InsideDue
  <2> QED
    BY <2>3, BreakdownSums
<1> QED
  BY <1>1, <1>2, <1>6, <1>7, <1>8, <1>9, TaxCases

\* What is near zero is zero, and near a natural is natural.
LEMMA NearZero ==
  ASSUME NEW n \in Nat, NEW d \in Nat \ {0}, NEW r \in Int, Near(n, d, r)
  PROVE  r >= 0 /\ (n = 0 => r = 0)
<1>1. PICK x \in Int : x = r * d
  OBVIOUS
<1>2. r >= 0
  <2> SUFFICES ASSUME r <= -1 PROVE FALSE
    OBVIOUS
  <2>1. r * d <= (-1) * d /\ (-1) * d = -d
    OBVIOUS
  <2> QED
    BY <1>1, <2>1 DEF Near
<1>3. ASSUME n = 0 PROVE r = 0
  <2> SUFFICES ASSUME r >= 1 PROVE FALSE
    BY <1>2
  <2>1. 1 * d <= r * d /\ 1 * d = d
    OBVIOUS
  <2> QED
    BY <1>1, <1>3, <2>1 DEF Near
<1> QED
  BY <1>2, <1>3

\* The price net of the GST inside it grows by one at most when the price does,
\* and is between nothing and the price (computeTax, AU).
LEMMA InsideGrows ==
  ASSUME NEW n \in Int, NEW r \in Nat, NEW u \in Int, NEW v \in Int,
         Near(n * Whole, Whole + r, u), Near((n + 1) * Whole, Whole + r, v)
  PROVE  v <= u + 1 /\ (n >= 0 => 0 <= u /\ u <= n)
<1>1. PICK d \in Nat \ {0}, m \in Int : d = Whole + r /\ m = n * Whole /\ (n + 1) * Whole = m + 10000 /\ Whole = 10000
  BY DEF Whole
<1>2. PICK x \in Int, y \in Int : x = u * d /\ y = v * d
  OBVIOUS
<1>3. 2 * (m - x) <= d /\ -d <= 2 * (m - x) /\ 2 * (m + 10000 - y) <= d /\ -d <= 2 * (m + 10000 - y)
  BY <1>1, <1>2 DEF Near
<1>4. v <= u + 1
  <2> SUFFICES ASSUME u + 2 <= v PROVE FALSE
    OBVIOUS
  <2>1. (u + 2) * d <= v * d /\ (u + 2) * d = x + 2 * d
    BY <1>2
  <2>2. r = 0 /\ d = 10000
    BY <1>1, <1>2, <1>3, <2>1
  <2>3. x = 10000 * u /\ y = 10000 * v /\ m = 10000 * n
    BY <1>1, <1>2, <2>2
  <2> QED
    BY <1>3, <2>2, <2>3
<1>5. ASSUME n >= 0 PROVE 0 <= u /\ u <= n
  <2>1. m \in Nat
    BY <1>1, <1>5
  <2>2. 0 <= u
    BY <1>1, <2>1, NearZero
  <2>3. u <= n
    <3> SUFFICES ASSUME n + 1 <= u PROVE FALSE
      OBVIOUS
    <3>1. (n + 1) * d <= u * d
      OBVIOUS
    <3>2. PICK z \in Nat : z = n * r
      BY <1>5
    <3>3. (n + 1) * d = m + z + d
      BY <1>1, <3>2
    <3> QED
      BY <1>2, <1>3, <3>1, <3>2, <3>3
  <2> QED
    BY <2>2, <2>3
<1> QED
  BY <1>4, <1>5

\* What is rounded grows with the amount taxed.
LEMMA SharesGrow ==
  ASSUME NEW a \in Int, NEW b \in Int, a < b \/ (a = 0 /\ b = 0), NEW D \in Nat \ {0},
         NEW t \in Int, NEW u \in Int, Near(a, D, t), Near(b, D, u)
  PROVE  t <= u
<1>1. CASE a < b
  BY <1>1, NearGrows
<1>2. CASE a = 0 /\ b = 0
  <2>1. t = 0 /\ u = 0
    BY <1>2, NearZero
  <2> QED
    BY <2>1
<1> QED
  BY <1>1, <1>2

\* A share of n at a rate of at most the whole is between nothing and n.
LEMMA WholeShare ==
  ASSUME NEW n \in Nat, NEW r \in Nat, r <= Whole, NEW a \in Int, a = n * r, NEW t \in Int, Near(a, Whole, t)
  PROVE  t >= 0 /\ t <= n
<1>1. a \in Nat /\ Whole \in Nat \ {0}
  BY DEF Whole
<1>2. t >= 0
  BY <1>1, NearZero
<1>3. a <= 10000 * n
  BY DEF Whole
<1>4. -10000 <= 2 * (a - 10000 * t)
  BY DEF Near, Whole
<1> QED
  BY <1>2, <1>3, <1>4

\* So are two equal halves, below a rate of the whole.
LEMMA HalfShare ==
  ASSUME NEW n \in Nat, NEW r \in Nat, NEW a \in Int, a = n * r, NEW t \in Int, Near(a, Half, t)
  PROVE  t >= 0 /\ (r < 10000 => t + t <= n)
<1>1. a \in Nat /\ Half \in Nat \ {0}
  BY DEF Half
<1>2. t >= 0 /\ (a = 0 => t = 0)
  BY <1>1, NearZero
<1>3. ASSUME r < 10000 PROVE t + t <= n
  <2>1. a <= 9999 * n
    BY <1>3
  <2>2. -20000 <= 2 * (a - 20000 * t)
    BY DEF Near, Half
  <2>3. n = 0 => t = 0
    BY <1>2
  <2> QED
    BY <1>2, <2>1, <2>2, <2>3
<1> QED
  BY <1>2, <1>3

\* Of the four ways, a profile goes the same one at every amount.
LEMMA SameWay ==
  ASSUME NEW p, NEW n, NEW m, NEW r, NEW a, NEW b,
         NoneDue(p, m) \/ WholeDue(p, m, b) \/ HalvesDue(p, m, b) \/ InsideDue(p, m, r)
  PROVE  /\ NoneDue(p, n) => NoneDue(p, m)
         /\ WholeDue(p, n, a) => WholeDue(p, m, b)
         /\ HalvesDue(p, n, a) => HalvesDue(p, m, b)
         /\ InsideDue(p, n, r) => InsideDue(p, m, r)
<1>0. "IN" # "AU"
  OBVIOUS
<1>1. ASSUME NEW k, NEW c
      PROVE  /\ NoneDue(p, k) => (p.country = "IN" => p.compositionScheme) /\ (p.country = "AU" => ~ p.gstRegistered)
             /\ WholeDue(p, k, c) => p.country = "IN" /\ ~ p.compositionScheme /\ p.igst
             /\ HalvesDue(p, k, c) => p.country = "IN" /\ ~ p.compositionScheme /\ ~ p.igst
             /\ InsideDue(p, k, r) => p.country = "AU" /\ p.gstRegistered
  BY DEF NoneDue, WholeDue, HalvesDue, InsideDue
<1> QED
  BY <1>0, <1>1

\* A bill costs no more when less is taxed.
LEMMA AllTotalsMonotone ==
  ASSUME profile \in Profiles, amount \in Int
  PROVE  TotalMonotone
<1>1. PICK r \in Nat : r = profile.rateBasis /\ r <= 10000
  BY RatesAssumption DEF Profiles
<1>2. PICK n \in Int, m \in Int, a \in Int, b \in Int :
        n = amount /\ m = n + 1 /\ a = n * r /\ b = m * r
  OBVIOUS
<1>3. PICK t, u : t = Tax(profile, n) /\ u = Tax(profile, m)
  OBVIOUS
<1> DEFINE Inclusive(k) == computeTax(profile, k).pricesIncludeTax
           Numbers == /\ t \in Int /\ u \in Int /\ t <= u
                      /\ n >= 0 => t >= 0
                      /\ n >= 0 /\ r < 10000 => t <= n
           OnTop == Inclusive(n) = FALSE /\ Inclusive(m) = FALSE
           Backed == /\ Inclusive(n) = TRUE /\ Inclusive(m) = TRUE
                     /\ 2 * Abs(t * (10000 + r) - n * r) <= 10000 + r
<1> HIDE DEF Inclusive, Numbers, OnTop, Backed
<1>4. NoneDue(profile, n) \/ WholeDue(profile, n, a) \/ HalvesDue(profile, n, a) \/ InsideDue(profile, n, r)
  BY <1>1, <1>2, TaxCases
<1>5. NoneDue(profile, m) \/ WholeDue(profile, m, b) \/ HalvesDue(profile, m, b) \/ InsideDue(profile, m, r)
  BY <1>1, <1>2, TaxCases
<1>6. a < b \/ (a = 0 /\ b = 0)
  <2>1. b = a + r
    BY <1>2
  <2>2. r = 0 => a = 0
    BY <1>2
  <2> QED
    BY <2>1, <2>2
<1>7. r <= Whole /\ Whole \in Nat \ {0} /\ Half \in Nat \ {0}
  BY <1>1 DEF Whole, Half
<1>8. ASSUME NoneDue(profile, n) PROVE Numbers /\ (OnTop \/ Backed)
  <2>1. NoneDue(profile, m)
    BY <1>5, <1>8, SameWay
  <2>2. t = 0 /\ u = 0
    BY <1>3, <1>8, <2>1 DEF NoneDue, NoTax, TaxResult, Tax
  <2>3. OnTop
    BY <1>8, <2>1 DEF NoneDue, NoTax, TaxResult, OnTop, Inclusive
  <2>4. Numbers
    BY <2>2 DEF Numbers
  <2> QED
    BY <2>3, <2>4
<1>9. ASSUME WholeDue(profile, n, a) PROVE Numbers /\ (OnTop \/ Backed)
  <2>1. WholeDue(profile, m, b)
    BY <1>5, <1>9, SameWay
  <2>2. PICK y \in Int : y = t /\ Near(a, Whole, y)
    BY <1>3, <1>9 DEF WholeDue, TaxResult, Tax
  <2>3. PICK z \in Int : z = u /\ Near(b, Whole, z)
    BY <1>3, <2>1 DEF WholeDue, TaxResult, Tax
  <2>4. y <= z
    BY <1>6, <1>7, <2>2, <2>3, SharesGrow
  <2>5. n >= 0 => y >= 0 /\ y <= n
    <3> SUFFICES ASSUME n \in Nat PROVE y >= 0 /\ y <= n
      OBVIOUS
    <3> QED
      BY <1>2, <1>7, <2>2, WholeShare
  <2>6. Numbers
    BY <2>2, <2>3, <2>4, <2>5 DEF Numbers
  <2>7. OnTop
    BY <1>9, <2>1 DEF WholeDue, TaxResult, OnTop, Inclusive
  <2> QED
    BY <2>6, <2>7
<1>10. ASSUME HalvesDue(profile, n, a) PROVE Numbers /\ (OnTop \/ Backed)
  <2>1. HalvesDue(profile, m, b)
    BY <1>5, <1>10, SameWay
  <2>2. PICK c \in Int, s \in Int :
       /\ computeTax(profile, n) = TaxResult(c + s, FALSE, <<c, s>>)
       /\ profile.gstSplitRounding = "exact_total" => Near(a, Whole, c + s)
       /\ profile.gstSplitRounding # "exact_total" => c = s /\ Near(a, Half, c)
    BY <1>10 DEF HalvesDue
  <2>3. PICK e \in Int, f \in Int :
       /\ computeTax(profile, m) = TaxResult(e + f, FALSE, <<e, f>>)
       /\ profile.gstSplitRounding = "exact_total" => Near(b, Whole, e + f)
       /\ profile.gstSplitRounding # "exact_total" => e = f /\ Near(b, Half, e)
    BY <2>1 DEF HalvesDue
  <2>4. PICK y \in Int, z \in Int : y = c + s /\ z = e + f
    OBVIOUS
  <2>5. t = y /\ u = z
    BY <1>3, <2>2, <2>3, <2>4 DEF TaxResult, Tax
  <2>6. OnTop
    BY <2>2, <2>3 DEF TaxResult, OnTop, Inclusive
  <2>7. CASE profile.gstSplitRounding = "exact_total"
    <3>1. Near(a, Whole, y) /\ Near(b, Whole, z)
      BY <2>2, <2>3, <2>4, <2>7
    <3>2. y <= z
      BY <1>6, <1>7, <3>1, SharesGrow
    <3>3. n >= 0 => y >= 0 /\ y <= n
      <4> SUFFICES ASSUME n \in Nat PROVE y >= 0 /\ y <= n
        OBVIOUS
      <4> QED
        BY <1>2, <1>7, <3>1, WholeShare
    <3>4. Numbers
      BY <2>5, <3>2, <3>3 DEF Numbers
    <3> QED
      BY <2>6, <3>4
  <2>8. CASE profile.gstSplitRounding # "exact_total"
    <3>1. c = s /\ e = f /\ Near(a, Half, c) /\ Near(b, Half, e)
      BY <2>2, <2>3, <2>8
    <3>2. c <= e
      BY <1>6, <1>7, <3>1, SharesGrow
    <3>3. n >= 0 => c >= 0 /\ (r < 10000 => c + c <= n)
      <4> SUFFICES ASSUME n \in Nat PROVE c >= 0 /\ (r < 10000 => c + c <= n)
        OBVIOUS
      <4> QED
        BY <1>2, <3>1, HalfShare
    <3>4. Numbers
      BY <2>4, <2>5, <3>1, <3>2, <3>3 DEF Numbers
    <3> QED
      BY <2>6, <3>4
  <2> QED
    BY <2>7, <2>8
<1>11. ASSUME InsideDue(profile, n, r) PROVE Numbers /\ (OnTop \/ Backed)
  <2>1. InsideDue(profile, m, r)
    BY <1>5, <1>11, SameWay
  <2>2. PICK v \in Int : Near(n * Whole, Whole + r, v) /\ computeTax(profile, n) = TaxResult(n - v, TRUE, <<n - v>>)
    BY <1>11 DEF InsideDue
  <2>3. PICK w \in Int : Near(m * Whole, Whole + r, w) /\ computeTax(profile, m) = TaxResult(m - w, TRUE, <<m - w>>)
    BY <2>1 DEF InsideDue
  <2>4. t = n - v /\ u = m - w
    BY <1>3, <2>2, <2>3 DEF TaxResult, Tax
  <2>5. w <= v + 1 /\ (n >= 0 => 0 <= v /\ v <= n)
    <3>1. Near((n + 1) * Whole, Whole + r, w)
      BY <1>2, <2>3
    <3> QED
      BY <2>2, <3>1, InsideGrows
  <2>6. 2 * Abs(t * (10000 + r) - n * r) <= 10000 + r
    <3>1. PICK d \in Nat \ {0}, x \in Int : d = 10000 + r /\ x = v * d
      OBVIOUS
    <3>2. n * d = n * 10000 + a
      BY <1>2, <3>1
    <3>3. (n - v) * d = n * d - x
      BY <3>1
    <3>4. t * d - n * r = n * 10000 - x
      BY <1>2, <2>4, <3>1, <3>2, <3>3
    <3>5. 2 * (n * 10000 - x) <= d /\ -d <= 2 * (n * 10000 - x)
      BY <2>2, <3>1 DEF Near, Whole
    <3>6. 2 * Abs(n * 10000 - x) <= d
      BY <3>5 DEF Abs
    <3> QED
      BY <3>1, <3>4, <3>6
  <2>7. Numbers
    BY <1>2, <2>4, <2>5 DEF Numbers
  <2>8. Inclusive(n) = TRUE /\ Inclusive(m) = TRUE
    BY <2>2, <2>3 DEF TaxResult, Inclusive
  <2>9. Backed
    BY <2>6, <2>8 DEF Backed
  <2> QED
    BY <2>7, <2>9
<1>12. Numbers /\ (OnTop \/ Backed)
  BY <1>4, <1>8, <1>9, <1>10, <1>11
<1>13. computeTotalMinor(n, t, 0, Inclusive(n)) < computeTotalMinor(m, u, 0, Inclusive(m))
  <2>1. n + t - 0 < m + u - 0 /\ n - 0 < m - 0
    BY <1>2, <1>12 DEF Numbers
  <2>2. CASE OnTop
    BY <2>1, <2>2 DEF computeTotalMinor, OnTop
  <2>3. CASE Backed
    BY <2>1, <2>3 DEF computeTotalMinor, Backed
  <2> QED
    BY <1>12, <2>2, <2>3
<1>14. Inclusive(n) => 2 * Abs(t * (10000 + r) - n * r) <= 10000 + r
  BY <1>12 DEF OnTop, Backed
<1>15. t <= u /\ (n >= 0 => t >= 0) /\ (n >= 0 /\ r < 10000 => t <= n)
  BY <1>12 DEF Numbers
<1> QED
  BY <1>1, <1>2, <1>3, <1>13, <1>14, <1>15 DEF TotalMonotone, Inclusive

\* The tax engine of tax.ts rounds to the nearest, prints lines that add up to
\* what it charges, and never makes a bill dearer by taxing less, for every
\* rate, every amount and every denominator.
THEOREM TaxAlwaysExact == TaxSpec => []TaxIsExact
<1> DEFINE Typed == profile \in Profiles /\ amount \in Int
<1>1. TaxInit => Typed
  BY RatesAssumption DEF TaxInit
<1>2. Typed /\ [TaxNext]_taxVars => Typed'
  BY DEF TaxNext, NextAmount, LastAmount, taxVars, Profiles
<1>3. Typed => TaxIsExact
  BY AllRoundToNearest, AllSplitsAddUp, AllTotalsMonotone DEF TaxIsExact
<1> QED
  BY <1>1, <1>2, <1>3, PTL DEF TaxSpec

=============================================================================
