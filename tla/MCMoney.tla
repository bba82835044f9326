------------------------------ MODULE MCMoney ------------------------------
(***************************************************************************)
(* Checks the arithmetic of Money against reference definitions.  A state  *)
(* is one input: a tax profile and an amount; a step moves to the next     *)
(* amount.  Negative amounts are included because tax.ts handles them (a   *)
(* legacy negative-priced modifier).                                       *)
(***************************************************************************)
EXTENDS Money

CONSTANTS
  Rates,        \* GST rates in basis points
  Below,        \* how far below zero the amounts start
  MaxAmount,    \* last amount tried
  Denominators  \* denominators for the two rounding functions

VARIABLES profile, amount

taxVars == <<profile, amount>>

\* A rate is at most 100 % (tax-registration.dtos.ts), and a denominator positive.
ASSUME RatesAssumption ==
  /\ (\A r \in Rates : r \in Nat /\ r <= 10000) /\ Denominators \subseteq Nat \ {0}
  /\ Below \in Nat /\ MaxAmount \in Nat

\* One representative of each way computeTax() can go, per rate.
Profiles ==
  {p \in [country : Countries, igst : BOOLEAN, compositionScheme : BOOLEAN,
          gstRegistered : BOOLEAN, rateBasis : Rates, gstSplitRounding : GstSplitRounding] :
     /\ p.country = "AU" => ~p.igst /\ ~p.compositionScheme /\ p.gstSplitRounding = "exact_total"
     /\ p.country = "IN" => p.gstRegistered
     /\ p.compositionScheme \/ p.igst => p.gstSplitRounding = "exact_total"}

TaxInit == profile \in Profiles /\ amount = -Below

NextAmount == amount < MaxAmount /\ amount' = amount + 1 /\ UNCHANGED profile

LastAmount == amount = MaxAmount /\ UNCHANGED taxVars

TaxNext == NextAmount \/ LastAmount

TaxSpec == TaxInit /\ [][TaxNext]_taxVars
-----------------------------------------------------------------------------
Abs(n) == IF n < 0 THEN -n ELSE n

\* Reference: the integers nearest to n/d (two of them on a tie).
Nearest(n, d) ==
  {r \in (n \div d - 1)..(n \div d + 2) :
     \A s \in {r - 1, r + 1} : Abs(n - r * d) <= Abs(n - s * d)}

\* Cash is settled to a whole number of cash units, as near as possible, a tie
\* in the restaurant's favour; nothing is rounded when nothing is due.
CashRoundsToUnit ==
  LET unit == CashUnit(profile.country)
      off == cashRoundOffMinor(amount, profile.country)
  IN  IF amount <= 0 THEN off = 0
      ELSE /\ (amount + off) % unit = 0
           /\ 2 * Abs(off) <= unit
           /\ 2 * Abs(off) = unit => off > 0

\* Both rounding functions of tax.ts return a nearest integer; a tie goes away
\* from zero in roundHalfUp and to the even neighbour in roundHalfEven; cash is
\* rounded to the nearest cash unit.
RoundsToNearest ==
  /\ CashRoundsToUnit
  /\ \A d \in Denominators :
       LET near == Nearest(amount, d)
           up == roundHalfUp(amount, d)
           even == roundHalfEven(amount, d)
       IN  /\ up \in near /\ \A r \in near : Abs(r) <= Abs(up)
           /\ even \in near /\ (near # {even} => even % 2 = 0)

Tax(p, n) == computeTax(p, n).taxMinor

SumOf(breakdown) ==
  CASE breakdown = << >> -> 0
    [] DOMAIN breakdown = {1} -> breakdown[1]
    [] DOMAIN breakdown = {1, 2} -> breakdown[1] + breakdown[2]

\* The printed tax lines always add up to the tax charged; under exact_total a
\* CGST/SGST bill charges to the paisa what an IGST bill would and its halves
\* differ by at most one, and the two equal-halves rules stay within one paisa.
SplitAddsUp ==
  LET r == computeTax(profile, amount)
      whole == Tax([profile EXCEPT !.igst = TRUE], amount)
  IN  /\ SumOf(r.breakdown) = r.taxMinor
      /\ profile.country = "IN" /\ ~profile.compositionScheme =>
           /\ Abs(r.taxMinor - whole) <= 1
           /\ profile.gstSplitRounding = "exact_total" => r.taxMinor = whole
           /\ DOMAIN r.breakdown = {1, 2} => Abs(r.breakdown[1] - r.breakdown[2]) <= 1

\* What a bill costs never rises when its taxable value falls, so no discount
\* can make a bill dearer; the tax is never more than the value taxed, below a
\* rate of 100 %, at which two halves rounded up may be; and the GST backed out of an
\* inclusive price is the rate's share of it to the cent.
TotalMonotone ==
  LET total(n) == computeTotalMinor(n, Tax(profile, n), 0, computeTax(profile, n).pricesIncludeTax)
  IN  /\ Tax(profile, amount) <= Tax(profile, amount + 1)
      /\ total(amount) < total(amount + 1)
      /\ amount >= 0 => Tax(profile, amount) >= 0
      /\ amount >= 0 /\ profile.rateBasis < 10000 => Tax(profile, amount) <= amount
      /\ computeTax(profile, amount).pricesIncludeTax =>
           LET scale == 10000 + profile.rateBasis
           IN  2 * Abs(Tax(profile, amount) * scale - amount * profile.rateBasis) <= scale

\* The arithmetic of every bill: it rounds to the nearest, its tax lines add
\* up, and it costs no more when less is taxed.
TaxIsExact == RoundsToNearest /\ SplitAddsUp /\ TotalMonotone
=============================================================================
