SPECIFICATION Spec
CONSTANTS
  p1 = p1
  p2 = p2
  a = a
  b = b
  Paths = {p1}
  Contents = {a, b}
  Absent = Absent
  Ops = {o1, o2}
  NoOp = NoOp
  Sessions = {s1, s2}
  NoSession = NoSession
  Targets <- RemoveOrSession
  Limit <- MCShared
SYMMETRY OpSymmetry
CONSTRAINT TwoFaults
INVARIANTS
  UnlockedMeansSettled
  SettledMeansClean
PROPERTIES
  AbortRestoresExceptFolded
  AtomicSpec
  OperationKeepsForeignContent
