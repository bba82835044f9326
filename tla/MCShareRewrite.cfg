SPECIFICATION ShareSpec
CONSTANTS
  g1 = g1
  g2 = g2
  g3 = g3
  Payers <- MCPayers
  Spent <- MCSpent
  Extra = 5
  MaxExtras = 2
  Requests = {r1, r2}
SYMMETRY Symmetry
PROPERTY PaidSharesNeverChange
CHECK_DEADLOCK FALSE
