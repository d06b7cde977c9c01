SPECIFICATION FairSpec
CONSTANTS
    Workers = {w1, w2, w3}
    Callers = {c1, c2}
    MaxTasks = 4
CHECK_DEADLOCK FALSE
INVARIANTS
    TypeOK
    EveryTaskOnce
    NoLostWakeUp
PROPERTIES
    PoolSpec
    EveryTaskRuns
    DestructorReturns
