\* A new control plane of at most three comes up undisturbed.
SPECIFICATION FairSpec
CONSTANTS
  MaxReplicas = 3
  MaxUID = 3
  MaxLag = 2
  MaxScales = 0
  MaxDeletes = 0
  MaxFaults = 0
PROPERTY BecomesInitialized
