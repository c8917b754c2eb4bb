CONSTANTS
    c1 = c1
    c2 = c2
    c3 = c3
    c4 = c4
    None = None
    Clients = {c1, c2}
    Quitters = {c2}
    Rejected = {c1}
    Before <- Concurrent
    Backlog = 1
    MaxAttempts = 3
    Patient = FALSE
    Mishaps = {"INIT", "KILL", "TERM", "SOCKET", "EMFILE"}
SPECIFICATION Spec
CHECK_DEADLOCK FALSE
INVARIANTS
    TypeOK
    DoneIsExecutedOnce
PROPERTY EveryClientReturns
