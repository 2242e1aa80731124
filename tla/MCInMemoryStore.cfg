CONSTANTS
  Checkouts = {c1, c2}
  Txns = {t1, t2}
  Keys = {k1, k2}
  ProviderIds = {i1, i2}
  Stock = 1
  MaxVersion = 3
  NULL = NULL
SPECIFICATION Spec
SYMMETRY MCSymmetry
INVARIANTS MapsAgree ApprovalFindsItsUnit
PROPERTIES KeepsPromise
CHECK_DEADLOCK FALSE
