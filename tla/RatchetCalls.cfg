SPECIFICATION CallSpec
CONSTANTS
    MAX_RATCHET_BACK_HISTORY = 2
    GenerationModulus = 6
    OverflowChecks = FALSE
    KdfMayFail = TRUE
    MaxSecret = 8
INVARIANTS
    NoKeyLost
    RatchetInv
PROPERTIES
    KeyReleasedOnce
    BoundedWork
