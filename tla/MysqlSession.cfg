SPECIFICATION FairSpec
CONSTANTS
    r1 = r1
    r2 = r2
    Requests <- MCRequests
    Max = 2
    MaxCalls <- MCMaxCalls
    MaxPending = 2
INVARIANTS
    RunsWhereIssued
    AllOrNothing
PROPERTIES
    OnlyAJamHangs
CHECK_DEADLOCK FALSE
