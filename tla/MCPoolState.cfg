SPECIFICATION FairSpec
CONSTANTS
    MaxStops = 2
    MaxBackups = 1
    MaxPools = 1
    MaxInserts = 2
    Env = {}
CHECK_DEADLOCK FALSE
INVARIANTS PausesOK ReindexIsDone
PROPERTIES TasksEnd
