------------------------------- MODULE MCTables -------------------------------
(***************************************************************************)
(* Two parts of the dining room that share no state, checked side by side: *)
(* a behaviour is a behaviour of the kitchen or of the guests' shares, and *)
(* the other rests in its initial state.                                   *)
(***************************************************************************)
EXTENDS MCKitchen, MCGuestShares

VARIABLE part

tablesVars == <<part, kitchenVars, shareVars>>

TablesInit == part \in {"kitchen", "shares"} /\ KitchenInit /\ ShareInit

TablesNext ==
  /\ UNCHANGED part
  /\ IF part = "kitchen" THEN KitchenNext ELSE UNCHANGED kitchenVars
  /\ IF part = "shares" THEN ShareNext ELSE UNCHANGED shareVars

TablesSpec == TablesInit /\ [][TablesNext]_tablesVars

TablesSymmetry == KitchenSymmetry \cup Symmetry
=============================================================================
