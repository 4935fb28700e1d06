SPECIFICATION LayoutFairSpec
CONSTANTS
    MaxBoxes = 2
    MaxObjs = 3
    MaxConstraints = 2
    Coords <- MCCoords
    NaN = NaN
    NotReal = NaN
    Pins <- MCPins
    Weights = {0, 1}
INVARIANTS
    HandleWithinContext
    AnswerIsWhatWasMeant
PROPERTIES
    SolveEnds
CHECK_DEADLOCK FALSE
