SPECIFICATION FairSpec
CONSTANTS
    L = L
    tcp = tcp
    ux = ux
    Wake = Wake
    NULL = NULL
    MAX_POLL_EVENT = 2
    Events <- OnlyListener
    Addrs <- BothFamilies
    UnixAddrs <- OnlyUnix
    Backlogs = {1}
    DefaultBacklogs = {2, 3}
    Disabling = TRUE
    Failures = TRUE
    MaxConns = 3
    MaxWaiting = 3
INVARIANTS
    ConnectionsAccounted
PROPERTIES
    
    EdgeAccepted
CHECK_DEADLOCK FALSE
