SPECIFICATION Spec
CONSTANTS
    Base = 4
    Width = 3
    ZipThreshold = 3
    MaxQsort = 6
    NULL = NULL
    Profiles <- MCProfiles
    GroupBy = {1, 2, 3, 5}
    Limits = {1, 2, 3}
CHECK_DEADLOCK FALSE
INVARIANTS FunctionsOK GroupsExact PointsKept AggregateBeforeMerge
