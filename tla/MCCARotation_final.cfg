SPECIFICATION Spec
CONSTANTS
  Founders = {"cp"}
  Joiners = {}
  Workers = {}
  MaxGeneration = 2
  MaxFaults = 0
  Requests = {0, 2}
  Restores = FALSE
INVARIANTS
  FinalizedIsRotated
CHECK_DEADLOCK FALSE
