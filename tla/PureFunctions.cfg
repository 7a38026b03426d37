SPECIFICATION Spec
CONSTANTS
    MaxMessages = 5
    MaxBlocks = 3
    MaxContext = 3
INVARIANTS
    ScanFindsPairs
    ReplacementContinues
    ResultWithinLimit
    UncompactedFits
CHECK_DEADLOCK FALSE
