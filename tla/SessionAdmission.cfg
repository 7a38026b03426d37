SPECIFICATION Spec
CONSTANTS
    p1 = p1
    p2 = p2
    p3 = p3
    Prompts <- ThreePrompts
    Kind <- ExecuteStreamSend
    Continuations = {}
    Cancellable = {p1}
    QueueCap = 2
    StreamCap = 1
    EventsCap = 1
    MaxAborts = 0
    EventsUsed = FALSE
    None = None
    Worker = Worker
    Closer = Closer
INVARIANTS
    TypeOK
    OnePlace
    DrainIsFinal
    Exclusion
    LateNeverRuns
    TranscriptMatchesRuns
PROPERTIES
    SettledOnce
    ImplementsService
