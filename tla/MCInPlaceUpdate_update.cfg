SPECIFICATION Spec
CONSTANTS
  ControlPlanes = {1}
  Workers = {}
  Hooked = {1}
  MaxImage = 2
  MaxSettings = 3
  MaxEndpoint = 2
  Wishes <- Anything
  Refused = {3}
  ApplyStrategy = "StagedReboot"
  AllowDowntime = FALSE
  Lingering = {1}
  MaxFaults = 1
INVARIANTS TypeOK
PROPERTIES UpdateProceeds
CHECK_DEADLOCK FALSE
