CONSTANTS
    Actions = {m1, m2}
    None = None
    MaxSessions = 2
    MaxDisposals = 2
    MaxQueue = 2
SPECIFICATION FairSpec
INVARIANTS
    AgentsOwned
    TurnHasOwner
PROPERTIES
    RemovalIsDurable
    KeepsIdentity
    ActionsSettle
CHECK_DEADLOCK FALSE
