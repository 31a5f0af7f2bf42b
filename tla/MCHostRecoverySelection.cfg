SPECIFICATION Spec
CONSTANTS
  Wrappers = {a, b}
  Sessions = {}
  SlotCount = 2
  None = None
  Wants <- MCWants
  Reports = {"complete"}
  Budgets <- MCChoices
  MaxStamp = 40
PROPERTIES StaleCacheStealsNothing
CHECK_DEADLOCK FALSE
