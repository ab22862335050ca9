SPECIFICATION Spec
CONSTANTS
    srv1 = srv1
    srv2 = srv2
    srv3 = srv3
    NoServer = NoServer
    PoolSet <- const_PoolSet
    Masters <- const_Masters
    Plans <- const_Plans
    MaxChanges = 1
    ListLimit = 2
CHECK_DEADLOCK FALSE
INVARIANTS HandleOK ChangesHold AnswersComplete DeniedIsHarmless
PROPERTIES QueriesAnswered
