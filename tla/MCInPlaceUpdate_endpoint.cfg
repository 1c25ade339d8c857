SPECIFICATION Spec
CONSTANTS
  ControlPlanes = {1}
  Workers = {2}
  Hooked = {}
  MaxImage = 1
  MaxSettings = 1
  MaxEndpoint = 2
  Wishes <- NewEndpoint
  Refused = {}
  ApplyStrategy = "StagedReboot"
  AllowDowntime = FALSE
  Lingering = {}
  MaxFaults = 0
PROPERTIES EndpointReachesEveryNode
CHECK_DEADLOCK FALSE
