SPECIFICATION FairSpec
CONSTANTS
    Shards = 2
    MaxPause = 2
CHECK_DEADLOCK FALSE
INVARIANTS TaskSafe
PROPERTIES TaskProgress
