SPECIFICATION Spec
CONSTANTS
    Wire = "openai"
    MaxSteps = 2
    MaxParallelTools = 1
    Sequential = TRUE
    SequentialTools = {}
    BeforeHook = TRUE
    CompactHook = FALSE
    Trigger = 5
    Batches <- TwoCalls
    Replacements <- NoReplacements
    Histories <- Fresh
    StoreMayFail = FALSE
    MaxRuns = 2
    MaxSteers = 0
    MaxCrashes = 0
INVARIANTS
    RequestAlwaysComplete
CHECK_DEADLOCK FALSE
