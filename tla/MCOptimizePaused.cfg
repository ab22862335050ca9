SPECIFICATION Spec
CONSTANTS
    Shards = 2
    MaxPause = 2
PROPERTIES PausedIsStable
CHECK_DEADLOCK FALSE
