\* One host and two machines: release, approval, reuse, relabelling, deletion.
SPECIFICATION Spec
CONSTANTS
  None = None
  Hosts = {h1}
  Machines = {m1, m2}
  HostRefs = {h1}
  Placements = {fd1}
  FailureDomains = {fd1, fd2}
  Identities = {i1}
  ReuseModes = {"Adopt"}
  MaxHostID = 1
  MaxHostLag = 2
  MaxMachineLag = 1
  MaxEdits = 5
  Score <- MCScore
SYMMETRY MachineSymmetry
PROPERTIES ClaimsAreNotStolen ClaimsAreEligible FinalizedOnlyWhenApproved ImplementsHostBinding
CHECK_DEADLOCK FALSE
