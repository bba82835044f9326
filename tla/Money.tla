------------------------------- MODULE Money -------------------------------
(***************************************************************************)
(* The integer arithmetic of the money path: the country-aware tax engine  *)
(* (pos/bills/tax.ts), the payable total and the cash rounding rule        *)
(* (pos/bills/bill-core.ts), and the proration of a refund                 *)
(* (pos/bills/bills.service.ts).  Amounts are minor units (paise, cents);  *)
(* the code computes on bigints, so integers are unbounded here too.       *)
(***************************************************************************)
EXTENDS Integers

Countries == {"IN", "AU"}
GstSplitRounding == {"exact_total", "equal_half_up", "equal_half_even"}

(***************************************************************************)
(* A tenant's tax registration as computeTax() reads it.  taxProfile is    *)
(* free text in the code, of which only "mentions IGST" is ever used; the  *)
(* rate is in basis points, the integer rateBasisPoints() makes of it.     *)
(***************************************************************************)
TaxProfiles ==
  [country : Countries, igst : BOOLEAN, compositionScheme : BOOLEAN,
   gstRegistered : BOOLEAN, rateBasis : Nat, gstSplitRounding : GstSplitRounding]

\* A slip: rounds down instead of to the nearest.
Mut_roundHalfUp(numerator, denominator) ==
  IF numerator < 0 THEN -((-numerator) \div denominator) ELSE numerator \div denominator

\* bigint division truncates toward zero; it is only applied to a
\* non-negative numerator once the sign has been taken off.
roundHalfUp(numerator, denominator) ==
  IF numerator < 0
  THEN -((2 * (-numerator) + denominator) \div (2 * denominator))
  ELSE (2 * numerator + denominator) \div (2 * denominator)

HalfEvenOfNat(numerator, denominator) ==
  LET quotient == numerator \div denominator
      twiceRemainder == 2 * (numerator % denominator)
  IN  IF \/ twiceRemainder > denominator
         \/ twiceRemainder = denominator /\ quotient % 2 = 1
      THEN quotient + 1
      ELSE quotient

roundHalfEven(numerator, denominator) ==
  IF numerator < 0 THEN -HalfEvenOfNat(-numerator, denominator)
                   ELSE HalfEvenOfNat(numerator, denominator)

\* totalMinor / 2n of a possibly negative total truncates toward zero.
LowerHalf(n) == IF n < 0 THEN -((-n) \div 2) ELSE n \div 2

-----------------------------------------------------------------------------
(***************************************************************************)
(* computeTax(): what is due as tax, whether prices already contain it,    *)
(* and the amounts of the breakdown lines in the order they are printed.   *)
(***************************************************************************)
TaxResult(taxMinor, pricesIncludeTax, breakdown) ==
  [taxMinor |-> taxMinor, pricesIncludeTax |-> pricesIncludeTax, breakdown |-> breakdown]

NoTax == TaxResult(0, FALSE, << >>)

TaxIGST(p, subtotalMinor) ==
  LET amountMinor == roundHalfUp(subtotalMinor * p.rateBasis, 10000)
  IN  TaxResult(amountMinor, FALSE, <<amountMinor>>)

TaxCgstSgst(p, subtotalMinor) ==
  LET totalMinor == roundHalfUp(subtotalMinor * p.rateBasis, 10000)
      cgstMinor == CASE p.gstSplitRounding = "exact_total" -> LowerHalf(totalMinor)
                     [] p.gstSplitRounding = "equal_half_up" ->
                          roundHalfUp(subtotalMinor * p.rateBasis, 20000)
                     [] p.gstSplitRounding = "equal_half_even" ->
                          roundHalfEven(subtotalMinor * p.rateBasis, 20000)
      sgstMinor == IF p.gstSplitRounding = "exact_total" THEN totalMinor - cgstMinor
                                                         ELSE cgstMinor
  IN  TaxResult(cgstMinor + sgstMinor, FALSE, <<cgstMinor, sgstMinor>>)

TaxAU(p, subtotalMinor) ==
  LET taxMinor == subtotalMinor - roundHalfUp(subtotalMinor * 10000, 10000 + p.rateBasis)
  IN  TaxResult(taxMinor, TRUE, <<taxMinor>>)

computeTax(p, subtotalMinor) ==
  IF p.country = "IN"
  THEN CASE p.compositionScheme -> NoTax
         [] ~p.compositionScheme /\ p.igst -> TaxIGST(p, subtotalMinor)
         [] ~p.compositionScheme /\ ~p.igst -> TaxCgstSgst(p, subtotalMinor)
  ELSE IF p.gstRegistered THEN TaxAU(p, subtotalMinor) ELSE NoTax

-----------------------------------------------------------------------------
computeTotalMinor(subtotalMinor, taxMinor, discountMinor, pricesIncludeTax) ==
  IF pricesIncludeTax THEN subtotalMinor - discountMinor
                      ELSE subtotalMinor + taxMinor - discountMinor

CashUnit(country) == IF country = "IN" THEN 100 ELSE 5

\* The adjustment to add to what is due in cash: to the nearest unit, halves up.
cashRoundOffMinor(dueMinor, country) ==
  LET unit == CashUnit(country)
  IN  IF dueMinor <= 0 THEN 0
      ELSE ((dueMinor * 2 + unit) \div (2 * unit)) * unit - dueMinor

-----------------------------------------------------------------------------
\* refund(): the share of `of` that a cumulated refunded gross stands for.
prorate(cumGross, of, subtotalMinor) ==
  IF subtotalMinor = 0 THEN 0 ELSE (cumGross * of) \div subtotalMinor

maxZero(n) == IF n > 0 THEN n ELSE 0
=============================================================================
