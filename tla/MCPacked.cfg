SPECIFICATION FairSpec
CONSTANTS
  N = 2
  Cached = {"back"}
  Crashes = 2
  Edits = 1
  Stops = 1
  Refusals = 1
  Unpublished = 1
  Limit <- Faulty
  LosesPower = TRUE
  Absent = Absent
  Torn = Torn
  None = None
INVARIANTS
  PackedTypeOK
  CommittedIsTarget
  AbortedIsSource
  ArtifactsNamed
PROPERTIES
  ForeignFileKept
  PackedResolves
CHECK_DEADLOCK FALSE
