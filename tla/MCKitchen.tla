------------------------------ MODULE MCKitchen ------------------------------
EXTENDS Kitchen, TLC
CONSTANTS dish, combo, pick, hot, cold

ThreeLines == {dish, combo, pick}
OneCombo == [l \in ThreeLines |-> IF l = pick THEN combo ELSE NoId]
ThreeStations == 1..3

\* One station here, one of the same name at the other outlet, one to create.
TwoKitchens ==
  [s \in ThreeStations |->
     CASE s = 1 -> [st |-> "live", outlet |-> Home, name |-> hot]
       [] s = 2 -> [st |-> "live", outlet |-> Away, name |-> hot]
       [] s = 3 -> [st |-> "none", outlet |-> Home, name |-> NoId]]

\* The dish was routed at the other outlet.
DishAway == [l \in ThreeLines |-> IF l = dish THEN 2 ELSE NoId]

KitchenSymmetry == Permutations(Senders)
=============================================================================
