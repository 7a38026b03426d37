SPECIFICATION FairSpec
CONSTANTS
    Requests <- AllRequests
    Cap = 2
    MaxBlocks = 2
    MaxDeltas = 2
INVARIANTS
    OnlyWholeCallsRun
    AcceptedOptionsServed
PROPERTIES
    KeepsContract
    StreamEnds
