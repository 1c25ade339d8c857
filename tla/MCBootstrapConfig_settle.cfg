\* Two disks, two bundles, the object created twice, two later changes.
SPECIFICATION Spec
CONSTANTS
    d1 = d1
    d2 = d2
    None = None
    Disks = {d1, d2}
    MaxGeneration = 2
    MaxUID = 2
    MaxChanges = 2
    MaxFaults = 1
INVARIANT TypeOK
PROPERTY StatusSettles
CHECK_DEADLOCK FALSE
