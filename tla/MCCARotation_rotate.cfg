SPECIFICATION Spec
CONSTANTS
  Founders = {"cp", "worker"}
  Joiners = {"late"}
  Workers = {"worker", "late"}
  MaxGeneration = 2
  MaxFaults = 1
  Requests = {0, 2}
  Restores = TRUE
INVARIANTS
  TypeOK
  FoundersTrustEachOther
  FoundersAreReachable
PROPERTIES
  ActiveGenerationIsKept
  RotationCompletes
CHECK_DEADLOCK FALSE
