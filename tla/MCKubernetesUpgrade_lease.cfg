SPECIFICATION Spec
CONSTANTS
  Replicas = {r1, r2}
  Versions = {1, 2}
  Components = {1, 2}
  Troubles <- DistinctTrouble
  LeaseDuration = 3
  UpgradeTimeout = 4
  MachinesMarked = FALSE
  MaxFaults = 1
  MaxChanges = 1
CHECK_DEADLOCK FALSE
INVARIANTS
  TypeOK
  AtMostOneUpgrade
PROPERTIES
  LeaseIsNotStolen
  UpgradeCompletes
