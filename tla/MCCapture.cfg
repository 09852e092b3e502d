SPECIFICATION Spec
CONSTANTS
  p1 = p1
  p2 = p2
  q1 = q1
  q2 = q2
  a = a
  b = b
  Paths = {p1, p2}
  Contents = {a, b}
  Absent = Absent
  None = None
  Procs = {q1, q2}
  Grain = 2
  Window = 2
  Span = 1
  MaxTime = 5
  MaxWrites = 1
  MaxCaptures = 2
SYMMETRY Symmetry
INVARIANTS
  CacheSound
  CaptureIsOneInstant
  BaselineIsCurrent
CHECK_DEADLOCK FALSE
