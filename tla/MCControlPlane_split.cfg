\* The first Machine of a new control plane of three is replaced early.
SPECIFICATION Spec
CONSTANTS
  MaxReplicas = 3
  MaxUID = 4
  MaxLag = 2
  MaxScales = 0
  MaxDeletes = 1
  MaxFaults = 0
INVARIANT NoSecondCluster
