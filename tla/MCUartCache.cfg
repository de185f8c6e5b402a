CONSTANTS
    Size = 3
    BufSize = 2
    Readers = {r1, r2}
    Daemon = daemon
    Nobody = nobody
    MaxBytes = 7

SPECIFICATION Spec

INVARIANTS
    TypeOK
    HoldsNewest
    LossOnlyWhenFull
    ChunkContiguous

PROPERTIES
    TakenInOrder
    ImplementsFifo
