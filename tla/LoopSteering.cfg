SPECIFICATION Spec
CONSTANTS
    Wire = "openai"
    MaxSteps = 2
    MaxParallelTools = 1
    Sequential = FALSE
    SequentialTools = {}
    BeforeHook = FALSE
    CompactHook = TRUE
    Trigger = 5
    Batches <- OneCall
    Replacements <- HookReplacements
    Histories <- FreshOrResumed
    StoreMayFail = FALSE
    MaxRuns = 2
    MaxSteers = 2
    MaxCrashes = 0
INVARIANTS
    SteeringConserved
    BudgetRespected
PROPERTIES
    ContinuationKeepsSteering
CHECK_DEADLOCK FALSE
