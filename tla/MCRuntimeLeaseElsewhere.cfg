CONSTANTS
  Procs = {p1, p2, p3}
  None = None
  Discoverers = {p1, p2, p3}
  SlowSteps = FALSE
  GuardLimit = 2
  MaxLocks = 1
SPECIFICATION Spec
SYMMETRY MCProcSymmetry
INVARIANTS
  OneHost
CHECK_DEADLOCK FALSE
