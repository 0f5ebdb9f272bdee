SPECIFICATION FairSpec
CONSTANTS
    a = a
    b = b
    t1 = t1
    t2 = t2
    Wake = Wake
    NULL = NULL
    Events <- TwoEvents
    Foreign <- OneThread
    MaxUses = 2
    CrossCalls = TRUE
    ForeignExit = TRUE
    MAX_POLL_EVENT = 2
INVARIANTS
    QueueGuarded
    NoLostWakeup
PROPERTIES
    QueueDrains
    ExitStops
CHECK_DEADLOCK FALSE
