SPECIFICATION Spec
CONSTANTS
  Founders = {"cp"}
  Joiners = {}
  Workers = {}
  MaxGeneration = 2
  MaxFaults = 1
  Requests = {0, 2}
  Restores = FALSE
PROPERTIES
  PromotionIsRecovered
CHECK_DEADLOCK FALSE
