SPECIFICATION RecoveringSpec
CONSTANTS
  N = 1
  Cached = {"forward", "back"}
  Crashes = 1
  Edits = 0
  Stops = 0
  Refusals = 0
  Unpublished = 0
  Limit <- Faulty
  LosesPower = FALSE
  Absent = Absent
  Torn = Torn
  None = None
PROPERTIES
  CommittedSettles
CHECK_DEADLOCK FALSE
