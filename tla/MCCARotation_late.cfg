SPECIFICATION Spec
CONSTANTS
  Founders = {"cp"}
  Joiners = {"late"}
  Workers = {"late"}
  MaxGeneration = 2
  MaxFaults = 0
  Requests = {0, 2}
  Restores = FALSE
INVARIANTS
  NoMachineIsLeftBehind
CHECK_DEADLOCK FALSE
