SPECIFICATION Spec
CONSTANTS
  l1 = l1
  combo = combo
  item = item
  late = late
  Lines = {l1, combo, item, late}
  Late = {late}
  Parent <- MCParent
  Per <- MCPer
  Price <- MCPrice
  MaxQty = 2
  Discounts = {10}
  TaxProfile <- MCTaxProfile
  MaxTargets = 2
  Txns = {t1, t2}
  None = None
SYMMETRY Sym
INVARIANTS
  NoLineOverRefunded
  WithinPaid
  NotesAreExact
