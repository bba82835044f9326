SPECIFICATION Spec
CONSTANTS
  o1 = o1
  o2 = o2
  l1 = l1
  l2 = l2
  Orders = {o1, o2}
  Lines = {l1, l2}
  Intents = {}
  Txns = {t1, t2}
  None = None
  OrderOf <- MCOrderOf
  Price <- MCPrice
  MaxQty = 1
  TaxProfile <- MCTaxProfile
  Payments <- MCPaymentsTendered
  Discounts = {0}
  Charges = {}
  MaxMinor = 1000
SYMMETRY Sym
INVARIANTS
  UniqueBillNumbers
  GaplessNumbers
