CONSTANTS
    Addresses = {m1, m2, m3}
    Uris = {a, b, radio}
    Radio = {radio}
    None = None
    Idle = Idle
    MaxTracks = 2
    MaxQueue = 2
SPECIFICATION Spec
CHECK_DEADLOCK FALSE
INVARIANTS
    TypeOK
    RefsAreHolders
    PendingIsAwaited
PROPERTY DroppedIsFreed
