CONSTANTS
    MaxSessions = 2
    Fds = 3
    MaxHttp = 0
    Capacity = 2
    ChunkMax = 1
    MaxBytes = 3
    MaxDown = 1
    Grace = 3
    Poll = 1
    UartTicks = 1
    Wake = 2
    Backoff = 2
    CreateMayFail = TRUE
    MallocMayFail = TRUE

SPECIFICATION Spec

PROPERTIES
    DuplexOrLetGo

\* Clients and serial bytes are bounded: the system stops when they are used up.
CHECK_DEADLOCK FALSE
