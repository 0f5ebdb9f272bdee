SPECIFICATION FairSpec
CONSTANTS
    x = x
    y = y
    NULL = NULL
    MaxFd = 4
    Std = {0}
    Uses <- SomeUses
    MaxAddrs = 2
    Byte <- Bytes
    Input <- ThreeBytes
    Sizes = {1, 2, 3}
    Chunks <- TwoChunks
    MaxSink = 3
    MaxIntr = 1
    Limits = {3, 5, 9}
    FdStep = 4
    RlimWidth = 16
    Retries = 2
    Terms = {1}
    InitialLimits <- SomeLimits
INVARIANTS
    OwnedIsOpen
    
    ReadnExact
    WritenExact
    
PROPERTIES
    LimitHonest
    
    CallsEnd
CHECK_DEADLOCK FALSE
