SPECIFICATION RestoreSpec
CONSTANTS
  p1 = p1
  p2 = p2
  a = a
  b = b
  Paths = {p1, p2}
  Contents = {a, b}
  Absent = Absent
  Ops = {o1}
  NoOp = NoOp
  Targets <- MCTargets
  Limit <- MCCalls
INVARIANTS
  TypeInvariant
  SourceRecoverable
  RollbackBlockedOnlyByTornTarget
  OneActiveRecordPerPath
PROPERTIES
  OnlyRecordedContentRemoved
CHECK_DEADLOCK FALSE
