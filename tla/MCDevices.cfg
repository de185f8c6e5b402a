CONSTANTS
    Modes = {"send", "recv"}
    CHUNK = 2
    RING = 6
    BLOCK = 4
    READ_SIZE = 2
    Total = 12
    WRAP = 4096

SPECIFICATION DevicesSpec

INVARIANTS
    TypeOK
    ArrivesInOrder

PROPERTIES
    
    ProvisioningEndsWell
    IperfEndsWell
    UpdateIsWhole
    SpiDelivers
    EspNowElects
    ButtonResets

\* Several of the programs end, and the bounds use up the events of the others.
CHECK_DEADLOCK FALSE
