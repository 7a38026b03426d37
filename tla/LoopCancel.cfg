SPECIFICATION FairDelivery
CONSTANTS
    Wire = "openai"
    MaxSteps = 2
    MaxParallelTools = 1
    Sequential = FALSE
    SequentialTools = {"write"}
    BeforeHook = TRUE
    CompactHook = TRUE
    Trigger = 5
    Batches <- EitherBatch
    Replacements <- HookReplacements
    Histories <- Long
    StoreMayFail = FALSE
    MaxRuns = 1
    MaxSteers = 1
    MaxCrashes = 1
PROPERTIES
    CancelledRunEnds
CHECK_DEADLOCK FALSE
