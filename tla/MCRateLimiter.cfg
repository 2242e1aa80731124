CONSTANTS
  Requests <- MCRequests
  Capacity <- MCCapacity
  Cost <- MCCost
  TicksPerSecond = 2
  MaxBuckets = 3
  MaxTime = 4
  MaxBack = 1
SPECIFICATION Spec
INVARIANTS AdmitsAtItsRate RetryAfterIsEnough
CHECK_DEADLOCK FALSE
