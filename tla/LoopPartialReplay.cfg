SPECIFICATION Spec
CONSTANTS
    Wire = "anthropic"
    MaxSteps = 2
    MaxParallelTools = 1
    Sequential = FALSE
    SequentialTools = {}
    BeforeHook = FALSE
    CompactHook = FALSE
    Trigger = 5
    Batches <- OneCall
    Replacements <- NoReplacements
    Histories <- Fresh
    StoreMayFail = FALSE
    MaxRuns = 2
    MaxSteers = 0
    MaxCrashes = 0
INVARIANTS
    RequestAlwaysComplete
CHECK_DEADLOCK FALSE
