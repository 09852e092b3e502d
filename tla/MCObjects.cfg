SPECIFICATION Spec
CONSTANTS
  p1 = p1
  p2 = p2
  a = a
  c = c
  r1 = r1
  r2 = r2
  Paths = {p1, p2}
  Blobs = {a, c}
  None = None
  Readers = {r1, r2}
  Reasons = {"attempt"}
  TreeLimit = 1
  MemberLimit = 6
  BlobLimit = 1
  Bounds <- MCBounds
SYMMETRY Symmetry
INVARIANTS
  ManifestsComplete
  NoFalseRefusal
PROPERTIES
  PinnedStaysReadable
CHECK_DEADLOCK FALSE
