SPECIFICATION RouterSpec
CONSTANTS
    Patterns <- MCPatterns
    Asked <- MCAsked
    Methods = {"GET", "HEAD", "POST", "TRACE"}
    MaxCalls = 3
INVARIANTS
    MostSpecific
    MiddlewaresRun
CHECK_DEADLOCK FALSE
