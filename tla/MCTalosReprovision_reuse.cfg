SPECIFICATION Spec
CONSTANTS
  Clusters = {"A", "B"}
  Neighbour = "A"
  Rotating = {"A"}
  MaxGeneration = 2
  MaxMachines = 2
  MaxFaults = 1
INVARIANTS
  TypeOK
  InstalledUnderItsBinding
PROPERTIES
  BindingIsKept
  ResetTargetIsVerified
  InstallationCompletes
CHECK_DEADLOCK FALSE
