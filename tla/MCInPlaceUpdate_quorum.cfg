SPECIFICATION Spec
CONSTANTS
  ControlPlanes = {1, 2, 3}
  Workers = {}
  Hooked = {}
  MaxImage = 2
  MaxSettings = 1
  MaxEndpoint = 2
  Wishes <- ImageOrEndpoint
  Refused = {}
  ApplyStrategy = "StagedReboot"
  AllowDowntime = FALSE
  Lingering = {1, 2}
  MaxFaults = 0
INVARIANT EndpointOrder
PROPERTY OverlapsOnlyIfOverlooked
CHECK_DEADLOCK FALSE
