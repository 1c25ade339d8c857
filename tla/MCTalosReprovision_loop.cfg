SPECIFICATION Spec
CONSTANTS
  Clusters = {"A", "B"}
  Neighbour = "A"
  Rotating = {"A"}
  MaxGeneration = 1
  MaxMachines = 2
  MaxFaults = 0
INVARIANT HoldersInstallationIsKept
CHECK_DEADLOCK FALSE
