SPECIFICATION FairSpec
CONSTANTS
  o1 = o1
  o2 = o2
  l1 = l1
  l2 = l2
  Orders = {o1}
  Lines = {l1}
  Intents = {i1}
  Txns = {t1, t2}
  None = None
  OrderOf <- MCOrderOf
  Price <- MCPrice
  MaxQty = 2
  TaxProfile <- MCTaxProfile
  Payments <- MCPayments
  Discounts = {0, 20}
  Charges = {50, 105}
  MaxMinor = 1000
INVARIANTS
  LocksSound
  CapturesAccounted
PROPERTIES
  SettlesExactly
  TendersFrozen
  BilledLinesProtected
  LedgerSpec
  IntentUnblocks
