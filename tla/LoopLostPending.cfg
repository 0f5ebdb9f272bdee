SPECIFICATION FairSpec
CONSTANTS
    a = a
    b = b
    t1 = t1
    t2 = t2
    Wake = Wake
    NULL = NULL
    Events <- TwoEvents
    Foreign <- OneThread
    MaxUses = 1
    CrossCalls = FALSE
    ForeignExit = FALSE
    MAX_POLL_EVENT = 2
PROPERTY EnableTakesEffect
CHECK_DEADLOCK FALSE
