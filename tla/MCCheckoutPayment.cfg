SPECIFICATION Spec
CONSTANTS
  c1 = c1
  c2 = c2
  t1 = t1
  t2 = t2
  k1 = k1
  k2 = k2
  NULL = NULL
  Worker = Worker
  Checkouts = {c1, c2}
  Txns = {t1, t2}
  Keys = {k1, k2}
  ProviderIds = {t1, t2}
  Stock = 2
  MaxVersion = 5
  ProviderOutcomes = {"APPROVED", "VOIDED"}
  ReadLimit = 1
  BatchSize = 2
  MaxFaults = 1
INVARIANTS
  ServiceTypeOK
  SingleSend
  UnsentIsUncharged
  FinalStatusWasReported
  SafeToBuyAgain
  AnswersAgree
  ShippedAsSubmitted
CONSTRAINT Scope
SYMMETRY Symmetry
CHECK_DEADLOCK FALSE
