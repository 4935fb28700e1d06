SPECIFICATION Spec
CONSTANTS
    Archives <- MCArchives
    MaxFiles = 1
INVARIANTS
    AliasesAreLinked
CHECK_DEADLOCK FALSE
