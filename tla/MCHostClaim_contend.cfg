\* Two hosts, perhaps of one identity, and two machines.
SPECIFICATION Spec
CONSTANTS
  None = None
  Hosts = {h1, h2}
  Machines = {m1, m2}
  HostRefs = {None}
  Placements = {None}
  FailureDomains = {fd1}
  Identities = {i1, i2}
  ReuseModes = {"Adopt"}
  MaxHostID = 2
  MaxHostLag = 2
  MaxMachineLag = 1
  MaxEdits = 4
  Score <- MCScore
SYMMETRY Symmetry
INVARIANTS TypeOK LiveMachineHoldsItsHost ProviderIDsAgree
PROPERTY SelectsNoDuplicate
CHECK_DEADLOCK FALSE
