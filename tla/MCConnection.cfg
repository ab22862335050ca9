SPECIFICATION Spec
CONSTANTS
    A = A
    B = B
    Resolves = {A}
    PidMod = 3
    QueueSize = 2
    MaxOpen = 1
    MaxFaults = 1
    NULL = NULL
INVARIANTS PromisesExact RefsExact
PROPERTIES Recovery
