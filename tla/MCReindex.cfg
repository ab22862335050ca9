SPECIFICATION FairSpec
CONSTANTS
    Servers = {"a", "b", "c"}
    New = "n"
    PoolOf <- MCPoolOf
    IdOf <- MCIdOf
    LOOKUP_SZ = 6
    Series = {3,4,5}
    SeriesId <- MCSeriesId
    OldSeries = {{3,5},{4}}
    MaxPoints = 1
    MaxFaults = 1
    Env = {}
INVARIANTS PointsSafe HomeIsRight
PROPERTIES ReindexEnds
CHECK_DEADLOCK FALSE
