CONSTANTS
  Txns = {"t1", "t2"}
  AcceptedAt <- MCAcceptedAt
  Delays <- MCDelays
  Window = 6
  Starts <- MCStarts
  MaxTime = 9
  MaxFailures = 1
  MaxMoves = 3
SPECIFICATION FairSpec
PROPERTIES PollsWithinWindow PendingIsFollowed
CHECK_DEADLOCK FALSE
