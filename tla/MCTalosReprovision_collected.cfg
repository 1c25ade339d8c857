SPECIFICATION Spec
CONSTANTS
  Clusters = {"A", "B"}
  Neighbour = "A"
  Rotating = {"A"}
  MaxGeneration = 1
  MaxMachines = 3
  MaxFaults = 0
INVARIANT ReferencedSecretExists
CHECK_DEADLOCK FALSE
