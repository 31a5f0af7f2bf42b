SPECIFICATION Spec
CONSTANTS
  Wrappers = {w1, w2}
  Sessions = {s1}
  SlotCount = 1
  None = None
  Times = {1}
  MaxStamp = 3
  ReportedStates = {"waiting"}
  Snapshots <- MCSnapshots
SYMMETRY WrapperSymmetry
PROPERTIES RevisionOnChange LateCopyIsIgnored
CHECK_DEADLOCK FALSE
