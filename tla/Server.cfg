SPECIFICATION ServerSpec
CONSTANTS
    app = app
    clone = clone
    faulty = faulty
    None = None
    Broken = Broken
    Requests = {r1, r2}
    Metadata <- MCMetadata
    Calls <- MCCalls
    Inputs <- MCInputs
    MaxPerApp = 2
    MaxWorkers = 2
    MaxFaults = 2
    CriticalWm = 25
    HighWm = 60
    MinGap = 12
    MaxMem = 90
    Unset = Unset
INVARIANTS
    AnsweredByItsPackage
    FetchedOnce
PROPERTIES
    StaleOnlyByRace
    NoFlapping
    EveryRequestEnds
CHECK_DEADLOCK FALSE
