SPECIFICATION FairSpec
CONSTANTS
    Series = {1, 2}
    OldSeries = {1, 2}
    MaxPoints = 2
    MaxFaults = 2
    MaxBackups = 1
    Env = {"restart", "refuse", "drop_server", "drop_series"}
INVARIANTS Accounted NoDuplicates SyncedMeansComplete TaskOK
PROPERTIES EventuallyInSync
