\* A host with and one without a power state of its own, with discovery at the
\* start or at the end of its power-on budget; one thing fails.
SPECIFICATION FairSpec
CONSTANTS
  Backends = {"Redfish", "WakeOnLAN"}
  maxPowerOnAttempts = 1
  StartAttempts = {0, 1}
  RequeueOutlastsLag = TRUE
  MaxBoots = 3
  MaxConfirmations = 1
  MaxFaults = 1
INVARIANTS TypeOK ReleasedOnlyAfterStop SilenceIsNoProof GoneOnlyAfterRelease PowerOnBudget
PROPERTY DeletionCompletes
CHECK_DEADLOCK FALSE
