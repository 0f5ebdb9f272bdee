SPECIFICATION BufSpec
CONSTANTS
    x = x
    y = y
    NUL = NUL
    Junk = Junk
    Byte <- Bytes
    TwoTo32 = 64
    DefaultSize = 3
    NewSizes = {0, 5}
    Strings <- SmallChunks
    Counts = {1, 2, 3}
    Marks <- AnyDelim
    Ops = {"read", "yield", "commit", "write", "extend", "printf"}
    MaxPut = 5
INVARIANTS
    BufferOK
    EmptyIsRewound
    Delivered
CHECK_DEADLOCK FALSE
