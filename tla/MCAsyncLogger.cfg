SPECIFICATION FairSpec
CONSTANTS
    Callers = {c1, c2, c3}
    Logger = logger
    MaxRecords = 3
    MaxFlushes = 3
CHECK_DEADLOCK FALSE
INVARIANTS
    TypeOK
    EachRecordOnce
    WakeUpsReachTheLogger
PROPERTIES
    FlushIsComplete
    FlushReturns
