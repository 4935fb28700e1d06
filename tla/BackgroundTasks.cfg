SPECIFICATION FairSpec
CONSTANTS
    e1 = e1
    e2 = e2
    e3 = e3
    v1 = v1
    v2 = v2
    Entries = {e1, e2, e3}
    Versions = {v1, v2}
    Permits = 2
    MaxOpen = 2
    None = None
INVARIANTS
    QuietAfterLock
    AtMostOnceSameVersion
PROPERTIES
    ShutdownEnds
CHECK_DEADLOCK FALSE
