SPECIFICATION Spec
CONSTANTS
  Replicas = {r1}
  Versions = {1, 2}
  Components = {1, 2}
  Troubles = {{}}
  LeaseDuration = 3
  UpgradeTimeout = 3
  MachinesMarked = FALSE
  MaxFaults = 0
  MaxChanges = 1
CHECK_DEADLOCK FALSE
PROPERTY UpgradedIsUpToDate
