CONSTANTS
    Root = root
    Channels = {root, chat}
    Capacity = 1
    Clients = {client}
    Conns = {k1, k2}
    NoClient = NoClient
    NoConn = NoConn
    MaxSeq = 2
    MaxIncs = 2
    MaxLosses = 1
    MaxRestarts = 1
SPECIFICATION Spec
INVARIANTS
    ViewIsPrefix
    Converged
    SubscriberHoldsView
SYMMETRY ConnSymmetry
VIEW MCView
