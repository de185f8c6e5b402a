CONSTANTS
    Visible <- MCVisible
    Hidden <- MCHidden
    SsidLen <- MCSsidLen
    Scans <- MCScans
    MaxAps = 20

SPECIFICATION WebSpec

INVARIANTS
    TypeOK
    ListsVisible
    StaysInBuffer
    NothingHeld
    FormKept

\* One request of the form is handled.
CHECK_DEADLOCK FALSE
