CONSTANTS
    p1 = p1
    p2 = p2
    Paths = {p1, p2}
    NoPath = NoPath
    ErrorLists <- MCErrorLists
    MaxInFlight = 1
    WriteSuspends = FALSE
    DaemonMayStop = FALSE

SPECIFICATION Spec

INVARIANTS
    RequestsAnswered
