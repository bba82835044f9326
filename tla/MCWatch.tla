------------------------------- MODULE MCWatch -------------------------------
(* A small instance of SyncHealth: two devices of which one comes back once. *)
EXTENDS SyncHealth

CONSTANTS d1, d2
TheScopes == {{d2}, {d1, d2}}
ThePeriods == [d \in {d1, d2} |-> IF d = d2 THEN 1 ELSE 0]
=============================================================================
