SPECIFICATION ConctFairSpec
CONSTANTS
    MaxFds = 3
    None = None
    Careful = TRUE
    ShortOfMemory = FALSE
INVARIANTS
    CalledOnce
PROPERTIES
    CallbackComes
CHECK_DEADLOCK FALSE
