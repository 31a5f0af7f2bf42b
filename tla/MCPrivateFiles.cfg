SPECIFICATION Spec
CONSTANTS
  Installers = {i1, i2}
  Loaders = {l1}
  Setups = {s1}
  Inodes = {1, 2, 3, 4, 5}
  MaxRetries = 1
  Budgets <- MCBudgets
  None = None
INVARIANTS FileWhole
PROPERTIES LostOnlyUnseen
CHECK_DEADLOCK FALSE
