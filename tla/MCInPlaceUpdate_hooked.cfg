SPECIFICATION Spec
CONSTANTS
  ControlPlanes = {1, 2, 3}
  Workers = {}
  Hooked = {1, 2, 3}
  MaxImage = 2
  MaxSettings = 1
  MaxEndpoint = 1
  Wishes <- NewImage
  Refused = {}
  ApplyStrategy = "StagedReboot"
  AllowDowntime = FALSE
  Lingering = {}
  MaxFaults = 0
INVARIANTS AtMostOneRestart
CHECK_DEADLOCK FALSE
