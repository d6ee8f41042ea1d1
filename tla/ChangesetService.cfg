SPECIFICATION Spec
CONSTANTS
  Targets = {t1}
  None = None
  MaxEdits = 1
  MaxCommits = 1
  MaxMoves = 1
  MaxSubscribers = 1
INVARIANTS
  NothingLeft
  NoWakeUpLost
  EditsShown
PROPERTIES
  SilentWhenSuspended
CHECK_DEADLOCK FALSE
