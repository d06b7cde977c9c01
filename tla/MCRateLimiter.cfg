SPECIFICATION Spec
CONSTANTS
    Threads = {t1, t2}
    Costs = {1, 2}
    Capacity = 2
    Rate = 2
    Second = 5
    Word = 12
    MaxTime = 7
SYMMETRY Symmetric
CHECK_DEADLOCK FALSE
INVARIANTS
    TypeOK
    TokensAreAccounted
    TimeIsClaimedOnce
    NeverAboveTheLimit
    TimeIsConverted
