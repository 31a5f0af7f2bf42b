CONSTANTS
  h = h
  w1 = w1
  w2 = w2
  s1 = s1
  s2 = s2
  None = None
  Host = h
  Clients = {w1, w2}
  Wrappers = {h, w1, w2}
  Sessions = {}
  SlotCount = 2
  Caches <- MCCaches
  Recoveries <- MCRecoveries
  HookStates = {"waiting"}
  Limits <- MCLimits
  MaxGen = 3
  MaxHooks = 1
SPECIFICATION Spec
INVARIANTS
  ReachableOrLeased
  RegistrationsAreCurrent
  SelectionPresent
  ClientViewFresh
  WithinLimits
PROPERTIES
  TimersSpareStreams
CHECK_DEADLOCK FALSE
