SPECIFICATION Spec
CONSTANTS
  Replicas = {r1, r2}
  Versions = {1, 2}
  Components = {1, 2}
  Troubles <- EachTrouble
  LeaseDuration = 3
  UpgradeTimeout = 3
  MachinesMarked = TRUE
  MaxFaults = 1
  MaxChanges = 2
CHECK_DEADLOCK FALSE
PROPERTY UpToDateIsUniform
