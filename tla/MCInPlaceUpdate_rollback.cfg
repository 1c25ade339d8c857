SPECIFICATION Spec
CONSTANTS
  ControlPlanes = {1}
  Workers = {}
  Hooked = {}
  MaxImage = 2
  MaxSettings = 1
  MaxEndpoint = 1
  Wishes <- NewImage
  Refused = {}
  ApplyStrategy = "StagedReboot"
  AllowDowntime = FALSE
  Lingering = {}
  MaxFaults = 2
PROPERTIES RollbackStaysStopped
CHECK_DEADLOCK FALSE
