CONSTANTS
    MaxSessions = 2
    Fds = 3
    MaxHttp = 0
    Capacity = 3
    ChunkMax = 2
    MaxBytes = 5
    MaxDown = 1
    Grace = 10
    Poll = 1
    UartTicks = 1
    Wake = 2
    Backoff = 2
    CreateMayFail = TRUE
    MallocMayFail = TRUE

SPECIFICATION Spec

INVARIANTS
    TypeOK
    ContextNotStale
    NoDescriptorLeft
    LossPerSession
    SentInOrder

\* Clients and serial bytes are bounded: the system stops when they are used up.
CHECK_DEADLOCK FALSE
