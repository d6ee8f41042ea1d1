CONSTANTS
    Users = {w1, w2, git}
    Watches = {w1, w2}
    MaxEntries = 3
    Clients = {a, b}
    Paths = {p}
SPECIFICATION FairSpec
INVARIANTS
    OneNativeSource
    OpenSourceIsUsed
    BatchIsNetChange
    DisposalDrains
PROPERTIES
    PoolSpec
    CreatesSettle
CHECK_DEADLOCK FALSE
