SPECIFICATION Spec
CONSTANTS
  MaxActions = 3
  MaxTurns = 1
  MaxDisposals = 1
  MaxCrashes = 1
INVARIANTS
  AnswersInOrder
  FlagIsOwned
  ChatFollowsPi
PROPERTIES
  ActionsSettle
CHECK_DEADLOCK FALSE
