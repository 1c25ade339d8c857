\* A formed control plane of two is scaled down and nothing fails.
SPECIFICATION FairFormedSpec
CONSTANTS
  MaxReplicas = 2
  MaxUID = 2
  MaxLag = 2
  MaxScales = 1
  MaxDeletes = 0
  MaxFaults = 0
PROPERTY ScaleDownCompletes
