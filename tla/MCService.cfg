SPECIFICATION ServiceSpec
CONSTANTS
  Tables = {t1}
  Sessions = {s1, s2}
  Guests = {g1, g2}
  CartLines = {c1}
  Combos = {c1}
  Orders = {o1, o2}
  Txns = {r1, r2}
  None = None
  MaxQty = 2
  MaxPicks = 2
SYMMETRY Symmetry
INVARIANTS LiveOrderedOnce OneServicePerTable TokensNeverReused
CHECK_DEADLOCK FALSE
