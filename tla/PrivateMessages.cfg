SPECIFICATION Spec
CONSTANTS
    MAX_RATCHET_BACK_HISTORY = 1
    GenerationModulus = 8
    OverflowChecks = FALSE
    KdfMayFail = TRUE
    LeafCount = 4
    Members = {0, 6}
    max_epoch_retention = 1
    MaxEpoch = 2
    MaxMessages = 3
    MaxWrites = 1
    MaxFaults = 1
    Watched = {0}
INVARIANTS
    ReleasedNotDerivable
    OthersDerivable
    StillOpens
PROPERTIES
    SealedWithFreshKey
CHECK_DEADLOCK FALSE
