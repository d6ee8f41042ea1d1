SPECIFICATION Spec
CONSTANTS
  MaxDirs = 3
  MaxGens = 3
  MaxEvents = 1
INVARIANTS
  HandlesReleased
PROPERTIES
  SourceSettles
CHECK_DEADLOCK FALSE
