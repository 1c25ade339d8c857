SPECIFICATION Spec
CONSTANTS
  Replicas = {r1, r2}
  Versions = {1, 2}
  Components = {1, 2}
  Troubles <- EachTrouble
  LeaseDuration = 3
  UpgradeTimeout = 3
  MachinesMarked = FALSE
  MaxFaults = 2
  MaxChanges = 0
CHECK_DEADLOCK FALSE
INVARIANT AtMostOneUpgrade
