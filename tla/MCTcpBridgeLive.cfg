CONSTANTS
    MaxSessions = 2
    Fds = 2
    MaxHttp = 2
    Capacity = 1
    ChunkMax = 1
    MaxBytes = 2
    MaxDown = 1
    Grace = 2
    Poll = 1
    UartTicks = 1
    Wake = 1
    Backoff = 1
    CreateMayFail = FALSE
    MallocMayFail = TRUE

SPECIFICATION LiveSpec

PROPERTIES
    SessionEnds
    CacheIsFlushed

\* Clients and serial bytes are bounded: the system stops when they are used up.
CHECK_DEADLOCK FALSE
