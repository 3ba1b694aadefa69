CONSTANTS
  Tables = {t1}
  Sessions = {s1, s2}
  Kots = {k1, k2}
  Items = {i1, i2}
  Price <- MCPrice
  TaxRate = 50
  Adjustments <- MCAdjustments
  PayAmounts = {1, 2, 3}
  Workers = 2
  Ops <- BillOps
  None = None
SPECIFICATION SceneSpec
SYMMETRY Symmetry
CHECK_DEADLOCK FALSE
INVARIANTS
  SessionBillAgree OneSaleEntry MoneyAgrees BilledCoversOrders
PROPERTY LockedBillFrozen
