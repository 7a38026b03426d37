SPECIFICATION Spec
CONSTANTS
    Wire = "openai"
    MaxSteps = 2
    MaxParallelTools = 1
    Sequential = FALSE
    SequentialTools = {}
    BeforeHook = TRUE
    CompactHook = FALSE
    Trigger = 5
    Batches <- OneCall
    Replacements <- NoReplacements
    Histories <- Fresh
    StoreMayFail = FALSE
    MaxRuns = 1
    MaxSteers = 0
    MaxCrashes = 0
INVARIANTS
    AbortIsAnnounced
CHECK_DEADLOCK FALSE
