SPECIFICATION FairSpec
CONSTANTS
    c1 = c1
    c2 = c2
    Clients = {c1, c2}
    Keys <- MCKeys
    Values = {1, 2, 3}
    Requests <- MCRequests
    InitStores <- MCStores
    Scans <- MCScans
    MaxKeysPerOp = 3
    LargeKeys <- MCLargeKeys
    LargeValues = {3}
    MaxFaults = 1
    VersionstampCode = 100
    Empty = 0
    None = None
INVARIANTS
    AnswerTruthful
    PagesComplete
PROPERTIES
    ImplementsAtomicKv
    EveryRequestAnswered
CHECK_DEADLOCK FALSE
