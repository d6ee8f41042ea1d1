CONSTANTS
    Messages = {m1, m2, m3}
    None = None
    MaxQuiesces = 2
SPECIFICATION FairSpec
INVARIANTS
    OnePromptAtATime
    CancellationSettlesFirst
    QuiescenceHolds
    StrayEventsComeFirst
PROPERTIES
    TruncationHoldsClients
    RunsEnd
    QueueServed
