SPECIFICATION FairSpec
CONSTANTS
    p1 = p1
    p2 = p2
    p3 = p3
    Prompts <- TwoPrompts
    Kind <- StreamThenSend
    Continuations = {p1}
    Cancellable = {p1}
    QueueCap = 1
    StreamCap = 1
    EventsCap = 1
    MaxAborts = 1
    EventsUsed = TRUE
    None = None
    Worker = Worker
    Closer = Closer
INVARIANTS
    NoPanic
    StreamIsItsOwn
    StreamIsComplete
    NoStrayCancel
PROPERTIES
    AcceptedIsSettled
    CloseTerminates
    CloseReleasesCallers
