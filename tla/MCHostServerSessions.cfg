CONSTANTS
  h = h
  w1 = w1
  w2 = w2
  s1 = s1
  s2 = s2
  None = None
  Host = h
  Clients = {w1}
  Wrappers = {h, w1}
  Sessions = {s1, s2}
  SlotCount = 2
  Caches <- MCSessionCaches
  Recoveries <- MCSessionRecoveries
  HookStates = {"waiting"}
  Limits <- MCSessionLimits
  MaxGen = 2
  MaxHooks = 1
SPECIFICATION FairSpec
INVARIANTS
  SessionBooksAgree
PROPERTIES
  SilentTasksSettle
CHECK_DEADLOCK FALSE
