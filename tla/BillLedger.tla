----------------------------- MODULE BillLedger -----------------------------
(***************************************************************************)
(* What the money path promises, and nothing about how: an order has at    *)
(* most one bill; money may be paid on it while it is open; it is settled  *)
(* once, with the outlet's next number; after that neither what was paid   *)
(* nor the number ever changes.  Only a bill nobody paid on can go away.   *)
(***************************************************************************)
EXTENDS Integers

CONSTANT Orders

VARIABLES
  status,  \* of the order's bill: "none", "open" or "finalized"
  paid,    \* what has been paid on it
  number,  \* its number once finalized
  last     \* the outlet's last number

ledger == <<status, paid, number, last>>

Init ==
  /\ status = [o \in Orders |-> "none"]
  /\ paid = [o \in Orders |-> 0]
  /\ number = [o \in Orders |-> 0]
  /\ last = 0

Open(o) ==
  /\ status[o] = "none"
  /\ status' = [status EXCEPT ![o] = "open"]
  /\ UNCHANGED <<paid, number, last>>

\* What is paid on o, and on no other bill, grows.
PaysOn(o) == paid'[o] >= paid[o] /\ paid' = [paid EXCEPT ![o] = paid'[o]]

Pay(o) ==
  /\ status[o] = "open"
  /\ PaysOn(o)
  /\ UNCHANGED <<status, number, last>>

Settle(o) ==
  /\ status[o] = "open"
  /\ status' = [status EXCEPT ![o] = "finalized"]
  /\ PaysOn(o)
  /\ number' = [number EXCEPT ![o] = last + 1]
  /\ last' = last + 1

Drop(o) ==
  /\ status[o] # "none"
  /\ paid[o] = 0
  /\ status' = [status EXCEPT ![o] = "none"]
  /\ number' = [number EXCEPT ![o] = 0]
  /\ UNCHANGED <<paid, last>>

Next == \E o \in Orders : Open(o) \/ Pay(o) \/ Settle(o) \/ Drop(o)

Spec == Init /\ [][Next]_ledger
=============================================================================
