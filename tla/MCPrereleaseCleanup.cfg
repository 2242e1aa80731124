CONSTANTS
  Groups = {1, 2}
  Abandoned = {2}
  Leftovers = {2, 4}
  MaxFaults = 1
SPECIFICATION FairSpec
INVARIANTS LeavesDeployPrefixes
PROPERTIES UnpublishesBeforeDeleting ExpiredAreRemoved
CHECK_DEADLOCK FALSE
