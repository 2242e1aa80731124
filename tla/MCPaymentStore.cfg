SPECIFICATION StoreSpec
CONSTANTS
  c1 = c1
  c2 = c2
  t1 = t1
  t2 = t2
  k1 = k1
  k2 = k2
  i1 = i1
  i2 = i2
  NULL = NULL
  Checkouts = {c1, c2}
  Txns = {t1, t2}
  Keys = {k1, k2}
  ProviderIds = {i1, i2}
  Stock = 1
  MaxVersion = 3
INVARIANTS
  TypeOK
  InventoryMatchesReservations
  SettledTogether
  KeyNamesItsPayment
  ProviderIdNamesOnePayment
PROPERTIES
  SettlementIsFinal
  KeepsPromise
SYMMETRY Symmetry
CHECK_DEADLOCK FALSE
