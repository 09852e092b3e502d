SPECIFICATION FairSpec
CONSTANTS
  p1 = p1
  p2 = p2
  a = a
  b = b
  Paths = {p1, p2}
  Contents = {a}
  Absent = Absent
  Ops = {o1}
  NoOp = NoOp
  Sessions = {s1}
  NoSession = NoSession
  Targets <- TwoPaths
  Limit <- MCSolo
INVARIANTS
  TypeInvariant
  CommittedHasCursor
  AbortedHasNoKnownCursor
PROPERTIES
  CommitInstallsTarget
  LeafFollowsOutcome
  LockReleased
  PendingResolved
