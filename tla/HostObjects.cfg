SPECIFICATION ObjectSpec
CONSTANTS
    Size = 4
    Shapes <- MCShapes
    Contents <- MCContents
    Updates <- MCUpdates
    Filters <- MCFilters
    Queries <- MCQueries
    Symbols = {s1, s2, s3}
    MaxContexts = 2
    MaxNesting = 1
    Nobody = Nobody
SYMMETRY Symmetry
INVARIANTS
    RegistryFollowsWrappers
    DocumentsAreWhole
    QueryFindsAll
\* a query stops at a match when all symbols are taken, which the code has no end of
CHECK_DEADLOCK FALSE
