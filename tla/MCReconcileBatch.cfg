CONSTANTS
  Transactions = {1, 2}
  Lease = 3
  Delays <- MCDelays
  RecurringDelay = 20
  Period = 5
  ApiTimeout = 1
  WorkerTimeout = 2
  BatchSize = 2
  ReadLimit = 1
  MaxOverdue = 10
  MaxPassed = 3
  MaxFaults = 2
SPECIFICATION FairSpec
INVARIANTS LeavesRunningInvocationsAlone TakesTurns
PROPERTIES IsReadAgain
CHECK_DEADLOCK FALSE
