SPECIFICATION TablesSpec
CONSTANTS
  dish = dish
  combo = combo
  pick = pick
  hot = hot
  cold = cold
  Lines <- ThreeLines
  Parent <- OneCombo
  Stations <- ThreeStations
  Names = {hot, cold}
  Setup <- TwoKitchens
  Routes <- DishAway
  Home = home
  Away = away
  Senders = {k1, k2}
  NoId = none
  MaxTickets = 2
  MaxEdits = 1
  g1 = g1
  g2 = g2
  g3 = g3
  Payers <- MCPayers
  Spent <- MCSpent
  Extra = 5
  MaxExtras = 1
  Requests = {r1, r2}
SYMMETRY TablesSymmetry
CHECK_DEADLOCK FALSE
INVARIANTS
  HomeScreens
  
  PaidReachesKitchen
  ChargedOnce
  PlanIsFair
 
