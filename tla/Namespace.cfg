SPECIFICATION FairSpec
CONSTANTS
    caller = caller
    other = other
    Ops = {caller, other}
    Callers = {caller}
    Cancellable = {other}
    MaxSessions = 2
    MaxChanges = 1
    None = None
    Closer = Closer
INVARIANTS
    CacheFresh
    NoLeak
    ClosedIsFinal
PROPERTIES
    HealthySessionKept
    CloseReturns
    DeadSessionForgotten
CHECK_DEADLOCK FALSE
