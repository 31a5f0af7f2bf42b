CONSTANTS
  Procs = {p1, p2, p3}
  None = None
  Discoverers = {p2, p3}
  SlowSteps = FALSE
  GuardLimit = 2
  MaxLocks = 1
SPECIFICATION FairSpec
INVARIANTS
  OneLease
  TakeoversSerialize
  DescriptorKept
PROPERTIES
  LeaseIsSingleton
  HostReturns
CHECK_DEADLOCK FALSE
