------------------------------ MODULE MCRefunds -----------------------------
(* Small instances of Refunds for TLC. *)
EXTENDS Refunds, TLC

CONSTANTS l1, combo, item, late

\* A plain line, a combo with two of an item in it at an extra charge, and a
\* line whose insert was under way when the bill was finalized.
MCParent == [l \in Lines |-> IF l = item THEN combo ELSE None]
MCPer == [l \in Lines |-> IF l = item THEN 2 ELSE 1]
MCPrice == [l \in Lines |-> CASE l = l1 -> 33 [] l = late -> 20
                          [] l = combo -> 50 [] l = item -> 7]

\* 5% CGST/SGST on top of the discounted price.
MCTaxProfile == [country |-> "IN", igst |-> FALSE, compositionScheme |-> FALSE,
                 gstRegistered |-> TRUE, rateBasis |-> 500, gstSplitRounding |-> "exact_total"]

Sym == Permutations(Txns)
=============================================================================
