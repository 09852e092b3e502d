SPECIFICATION Spec
CONSTANTS
  p1 = p1
  p2 = p2
  a = a
  b = b
  Paths = {p1, p2}
  Contents = {a, b}
  MaxEntries = 18
  Limit <- MCRestarts
  Total = 1
SYMMETRY Alike
INVARIANTS
  WorkspaceMatchesSession
CHECK_DEADLOCK FALSE
