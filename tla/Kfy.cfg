CONSTANTS
    KfyMinCapacity = 1
    Capacities = {1, 2, 4, 8}
    MaxSize = 4
SPECIFICATION Spec
INVARIANTS
    TypeOK
    CycleIsPermutation
    CapacityAssertsHold
PROPERTY ImplementsShuffleCycle
