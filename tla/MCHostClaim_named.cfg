\* Two hosts registered with one identity, and machines that may name theirs.
SPECIFICATION Spec
CONSTANTS
  None = None
  Hosts = {h1, h2}
  Machines = {m1, m2}
  HostRefs = {None, h1, h2}
  Placements = {None}
  FailureDomains = {fd1}
  Identities = {i1}
  ReuseModes = {"Adopt"}
  MaxHostID = 2
  MaxHostLag = 2
  MaxMachineLag = 1
  MaxEdits = 4
  Score <- MCScore
SYMMETRY Symmetry
INVARIANT DuplicatesAreNotBothClaimed
CHECK_DEADLOCK FALSE
