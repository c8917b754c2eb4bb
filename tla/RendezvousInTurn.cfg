CONSTANTS
    c1 = c1
    c2 = c2
    c3 = c3
    c4 = c4
    None = None
    Clients = {c1, c2, c3, c4}
    Quitters = {c2}
    Rejected = {}
    Before <- InTurn
    Backlog = 1
    MaxAttempts = 2
    Patient = TRUE
    Mishaps = {"INIT", "TERM"}
SPECIFICATION Spec
CHECK_DEADLOCK FALSE
INVARIANTS
    ServingIsReachable
    NothingIsForgotten
    QuitQuits
