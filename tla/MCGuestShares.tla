---------------------------- MODULE MCGuestShares ----------------------------
EXTENDS GuestShares, TLC

CONSTANTS g1, g2, g3

MCPayers == <<g1, g2, g3>>
MCSpent == (g1 :> 5) @@ (g2 :> 10) @@ (g3 :> 2)
Symmetry == Permutations(Requests)
=============================================================================
