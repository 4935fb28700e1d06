SPECIFICATION FairSpec
CONSTANTS
    c1 = c1
    c2 = c2
    c3 = c3
    Calls = {c1, c2, c3}
    SyncCalls = {c3}
    Stuck = {c2}
    Permits = 2
INVARIANTS
    NoCallbackPanic
    LeakOnlyOnSendError
PROPERTIES
    ImplementsRemoteCall
    NobodyHangs
CHECK_DEADLOCK FALSE
