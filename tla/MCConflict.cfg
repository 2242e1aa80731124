SPECIFICATION Spec
CONSTANTS
  c1 = c1
  c2 = c2
  t1 = t1
  t2 = t2
  k1 = k1
  k2 = k2
  NULL = NULL
  Worker = Worker
  Checkouts = {c1}
  Txns = {t1}
  Keys = {k1}
  ProviderIds = {t1}
  Stock = 1
  MaxVersion = 4
  ProviderOutcomes = {"APPROVED", "DECLINED", "VOIDED", "ERROR"}
  ReadLimit = 1
  BatchSize = 1
  MaxFaults = 1
INVARIANTS
  ConflictOnlyWithoutReservation
CHECK_DEADLOCK FALSE
