SPECIFICATION BufSpec
CONSTANTS
    x = x
    y = y
    NUL = NUL
    Junk = Junk
    Byte <- Bytes
    TwoTo32 = 64
    DefaultSize = 4
    NewSizes = {0}
    Strings <- SmallChunks
    Counts = {1, 2, 3}
    Marks <- AnyDelim
    Ops = {"read", "write", "overlap"}
    MaxPut = 4
INVARIANT Exact
CHECK_DEADLOCK FALSE
