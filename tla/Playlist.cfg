CONSTANTS
    KfyMinCapacity = 1
    Capacities = {1, 2, 4}
    MaxSize = 3
    Tracks = {1, 2}
    IntMax = 7
    Files <- MCFiles
    Arrays <- MCArrays
SPECIFICATION Spec
CHECK_DEADLOCK FALSE
INVARIANTS
    TypeOK
    NextTrackExists
PROPERTIES
    PassIsComplete
    FailedLoadLeavesNoTrack
    RemovesWhatWasNamed
