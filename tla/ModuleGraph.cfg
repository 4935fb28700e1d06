SPECIFICATION Spec
CONSTANTS
    Archives <- MCArchives
    MaxFiles = 3
INVARIANTS
    LoadsWhatIsNeeded
    FullPathsLink
CHECK_DEADLOCK FALSE
