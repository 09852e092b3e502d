SPECIFICATION RecoveringSpec
CONSTANTS
  N = 2
  Cached = {"forward", "back"}
  Crashes = 0
  Edits = 0
  Stops = 1
  Refusals = 0
  Unpublished = 0
  Limit <- Faulty
  LosesPower = FALSE
  Absent = Absent
  Torn = Torn
  None = None
PROPERTIES
  CancelledSettles
CHECK_DEADLOCK FALSE
