SPECIFICATION Spec
CONSTANTS
  Wrappers = {w1, w2, w3}
  Sessions = {}
  SlotCount = 3
  None = None
  Times = {0}
  MaxStamp = 2
  ReportedStates = {"waiting"}
  Snapshots <- MCHeldSelection
SYMMETRY WrapperSymmetry
INVARIANTS NoSharedSlot SelectionOnHardware NavigationCycles
PROPERTIES SelectionLostOnlyWhenEmpty
CHECK_DEADLOCK FALSE
