SPECIFICATION Spec
CONSTANTS
    Series = {a, b}
    Remote = {r}
    Matching = {a, r}
    Members = {a}
    Where = {b}
    Kinds = {"list", "count", "drop", "select", "skip", "tag", "untag"}
    Operators = {"union", "intersection", "difference", "symmetric"}
    Middle = FALSE
    DropNames <- const_DropNames
    MaxInserts = 1
    ListLimit = 1
CHECK_DEADLOCK FALSE
INVARIANTS RefsOK AnswerIsExact SameView
PROPERTIES QueriesEnd
