SPECIFICATION Spec
CONSTANTS
  Targets = {t1}
  None = None
  MaxEdits = 1
  MaxCommits = 1
  MaxMoves = 1
  MaxSubscribers = 1
INVARIANT CommitShown
CHECK_DEADLOCK FALSE
