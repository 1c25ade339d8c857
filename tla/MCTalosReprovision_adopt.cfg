SPECIFICATION Spec
CONSTANTS
  Clusters = {"A", "B"}
  Neighbour = "A"
  Rotating = {}
  MaxGeneration = 1
  MaxMachines = 3
  MaxFaults = 1
INVARIANT BindingNamesTheInstallation
CHECK_DEADLOCK FALSE
