SPECIFICATION Spec
CONSTANTS
  PageSize = 2
  OldFiles <- Files
  MaxMessages = 2
  MaxEntries = 4
  MaxBlocks = 2
  MaxChunks = 2
  MaxReads = 1
  EarlySteering = FALSE
INVARIANTS
  LiveMatchesFile
  CursorContinues
  AnchorKeepsTurn
CHECK_DEADLOCK FALSE
