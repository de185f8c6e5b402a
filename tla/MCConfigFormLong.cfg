CONSTANTS
    Ssids <- MCSsids
    Passwords <- MCPasswords
    Bssids <- MCBssids
    EncodedMax = 127
    SsidMax = 32
    PasswordMax = 63
    MaxPieces = 2
    MayFail = FALSE

SPECIFICATION Spec

INVARIANTS
    PageFormsAccepted

\* One request: the handler keeps nothing for the next.
CHECK_DEADLOCK FALSE
