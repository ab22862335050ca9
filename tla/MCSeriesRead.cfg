SPECIFICATION Spec
CONSTANTS
    Base = 4
    Width = 3
    ZipThreshold = 3
    MaxQsort = 4
    NULL = NULL
    Kinds <- MCKinds
    MaxTs = 4
    Duration = 3
    BufferLen = 2
    MaxChunk = 3
    MaxBatch = 3
    MaxInserts = 5
    MaxOptimize = 2
CHECK_DEADLOCK FALSE
INVARIANTS ReadsExact EndsExact
