SPECIFICATION Spec
CONSTANTS
  p1 = p1
  p2 = p2
  a = a
  b = b
  Paths = {p1, p2}
  Contents = {a, b}
  MaxEntries = 11
  Limit <- MCAll
  Total = 2
SYMMETRY Alike
INVARIANTS
  HistoryTypeOK
  WorkspaceMatchesLeaf
  StacksMeetAtLeaf
  RestartKeepsTop
  RebuildNeverFails
CHECK_DEADLOCK FALSE
