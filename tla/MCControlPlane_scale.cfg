\* A formed control plane of three is scaled down and up.
SPECIFICATION FormedSpec
CONSTANTS
  MaxReplicas = 3
  MaxUID = 6
  MaxLag = 2
  MaxScales = 2
  MaxDeletes = 1
  MaxFaults = 1
INVARIANTS TypeOK NoSecondCluster
PROPERTIES RemovalKeepsQuorum HookHoldsUntilRemoved
