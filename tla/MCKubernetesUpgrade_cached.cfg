SPECIFICATION Spec
CONSTANTS
  Replicas = {r1, r2}
  Versions = {1, 2}
  Components = {1, 2}
  Troubles <- Overlapping
  LeaseDuration = 3
  UpgradeTimeout = 3
  MachinesMarked = TRUE
  MaxFaults = 1
  MaxChanges = 1
CHECK_DEADLOCK FALSE
INVARIANT UpToDateIsObserved
