CONSTANTS
    Root = root
    Channels = {root, chat}
    Capacity = 1
    Clients = {a, b}
    Conns = {k1, k2}
    NoClient = NoClient
    NoConn = NoConn
    MaxSeq = 0
    MaxIncs = 2
    MaxLosses = 1
    MaxRestarts = 0
SPECIFICATION FairSpec
INVARIANTS
    InterestKnown
PROPERTY RequestsAnswered
