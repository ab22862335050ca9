SPECIFICATION Spec
CONSTANTS
    name1 = name1
    name2 = name2
    Names = {name1, name2}
    MaxShard = 1
    BufLen = 2
    BufCache = 2
    MaxBatch = 3
    MaxPoints = 4
    MaxSeries = 2
    MaxOptimize = 2
    MaxDrops = 1
    MaxRestarts = 3
    CrashIn = {"insert", "drop_series", "optimize"}
SYMMETRY Symmetry
CHECK_DEADLOCK FALSE
INVARIANTS SureIsVisible PointsExact MirrorsOK CrashSafe
