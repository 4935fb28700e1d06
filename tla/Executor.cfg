SPECIFICATION FairSpec
CONSTANTS
    r1 = r1
    r2 = r2
    t1 = t1
    t2 = t2
    Requests = {r1, r2}
    Tasks = {t1, t2}
    Entry = Entry
    None = None
INVARIANTS
    OnlyCancelledIsHit
    JsWithinRequest
    FailsOnlyWhenOver
PROPERTIES
    CancelledJsStops
    EveryRequestEnds
    TasksEndWithRequest
CHECK_DEADLOCK FALSE
