---------------------------- MODULE MCTableService ----------------------------
EXTENDS TableService, TLC

Symmetry == Permutations(Sessions) \cup Permutations(Guests) \cup Permutations(Orders)
            \cup Permutations(Txns)
=============================================================================
