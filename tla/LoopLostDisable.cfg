SPECIFICATION FairSpec
CONSTANTS
    a = a
    b = b
    t1 = t1
    t2 = t2
    Wake = Wake
    NULL = NULL
    Events <- OneEvent
    Foreign <- OneThread
    MaxUses = 2
    CrossCalls = FALSE
    ForeignExit = FALSE
    MAX_POLL_EVENT = 2
PROPERTY DisableTakesEffect
CHECK_DEADLOCK FALSE
