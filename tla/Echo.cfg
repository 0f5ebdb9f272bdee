SPECIFICATION FairSpec
CONSTANTS
    client = client
    accepted = accepted
    x = x
    y = y
    CR = CR
    LF = LF
    NUL = NUL
    Junk = Junk
    Wake = Wake
    NULL = NULL
    Events <- Sockets
    Client = client
    Byte <- Bytes
    TwoTo32 = 64
    DefaultSize = 5
    MAX_POLL_EVENT = 2
    Hello <- Record
    READALL = 2
    SndBuf = 4
INVARIANTS
    OneRecord
    FreedIsForgotten
PROPERTIES
    EchoGoesOn
    BreakEndsLoop
CHECK_DEADLOCK FALSE
