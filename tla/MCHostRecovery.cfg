SPECIFICATION FairSpec
CONSTANTS
  Wrappers = {a, b, c}
  Sessions = {}
  SlotCount = 3
  None = None
  Wants <- MCWants
  Reports = {"complete"}
  Budgets <- MCBudgets
  MaxStamp = 40
INVARIANTS SlotAsKnown
PROPERTIES CrashIsInvisible OwnTaskNotReverted SurvivorsReturn GoneTasksGo
CHECK_DEADLOCK FALSE
ACTION_CONSTRAINT InOrderOfArrival
