--------------------------- MODULE MCBillSettlement -------------------------
(* Small instances of BillSettlement for TLC. *)
EXTENDS BillSettlement, TLC

CONSTANTS o1, o2, l1, l2

MCOrderOf == [l \in Lines |-> IF l = l1 \/ o2 \notin Orders THEN o1 ELSE o2]
MCPrice == [l \in Lines |-> 100]

\* 5% CGST/SGST on top: one unit is 105 due, 100 in cash after rounding.
MCTaxProfile == [country |-> "IN", igst |-> FALSE, compositionScheme |-> FALSE,
                 gstRegistered |-> TRUE, rateBasis |-> 500, gstSplitRounding |-> "exact_total"]

\* <<cash, other>>: nothing, the rounded cash, the exact amounts of one unit
\* without and with the discount, and what a 50 card payment leaves due.
MCPayments == {<<0, 0>>, <<100, 0>>, <<0, 105>>, <<0, 84>>, <<0, 55>>}

\* Settlements that carry a tender: cash rounded, or exact by another method.
MCPaymentsTendered == {<<100, 0>>, <<0, 105>>}

Sym == Permutations(Txns) \cup Permutations(Intents)
=============================================================================
