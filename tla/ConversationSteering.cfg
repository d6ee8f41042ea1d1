SPECIFICATION Spec
CONSTANTS
  PageSize = 2
  OldFiles <- Files
  MaxMessages = 2
  MaxEntries = 4
  MaxBlocks = 1
  MaxChunks = 2
  MaxReads = 1
  EarlySteering = TRUE
INVARIANT LiveMatchesFile
CHECK_DEADLOCK FALSE
