SPECIFICATION Spec
CONSTANTS
    Wire = "openai"
    MaxSteps = 2
    MaxParallelTools = 1
    Sequential = FALSE
    SequentialTools = {"write"}
    BeforeHook = TRUE
    CompactHook = TRUE
    Trigger = 5
    Batches <- EitherBatch
    Replacements <- HookReplacements
    Histories <- FreshOrResumed
    StoreMayFail = FALSE
    MaxRuns = 2
    MaxSteers = 0
    MaxCrashes = 1
INVARIANTS
    TypeOK
    EventsWellFormed
    ToolsConfined
    RequestComplete
    ContinuableAfterMaxSteps
CHECK_DEADLOCK FALSE
