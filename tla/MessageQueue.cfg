SPECIFICATION FairSpec
CONSTANTS
    m1 = m1
    m2 = m2
    s1 = s1
    Messages = {m1, m2}
    Subs = {s1}
    Pollers = {s1}
    MinBatch = 1
    MaxBatch = 2
    MaxGap = 1
    MaxFaults = 2
    None = None
INVARIANTS
    GaplessInOrder
    AckIdentifies
PROPERTIES
    NothingBehindCursor
    EverySubscriberCatchesUp
    AckedBecomesHot
CHECK_DEADLOCK FALSE
