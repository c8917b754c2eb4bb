CONSTANTS
    KfyMinCapacity = 1
    Capacities = {1, 2, 4}
    MaxSize = 2
    Tracks = {1, 2}
    IntMax = 3
    None = None
    Unplayable = {2}
    PlayArgs <- MCPlayArgs
    LoadArgs <- MCLoadArgs
    RemoveArgs <- MCRemoveArgs
    MaxBus = 2
SPECIFICATION Spec
CHECK_DEADLOCK FALSE
PROPERTY LoadFailureIsSurvived
