CONSTANTS
    Configurations <- MCConfigurations
    max_epoch_retention = 2
    Messages = {m1}
    MaxEpoch = 4
    KeyPackage = kp
SPECIFICATION Spec
INVARIANTS LookupIsCurrent CommitNeverRefused
PROPERTIES AcceptedOnce RetainedUntilLimit ImplementsEpochArchive
CHECK_DEADLOCK FALSE
