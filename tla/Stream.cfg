SPECIFICATION FairSpec
CONSTANTS
    x = x
    y = y
    NUL = NUL
    Junk = Junk
    Byte <- Bytes
    TwoTo32 = 64
    DefaultSize = 3
    BufSizes = {0, 8192}
    Chunks <- SmallChunks
    Lens = {1, 2, 3}
    Delims <- OneByteDelim
    Input <- TwoRecords
    READALL = 2
    Uses = {{"fill", "read", "short", "yield", "set_mask"},
            {"printf", "write", "flush", "close", "seek", "set_mask"}}
    MaxOut = 4
    MaxIn = 4
INVARIANTS
    StreamOK
    OutputIntact
    FlushHonest
    CloseDrains
    LockFreeWhenIdle
    InputIntact
PROPERTIES
    CallsReturn
CHECK_DEADLOCK FALSE
