SPECIFICATION ClearingSpec
CONSTANTS
    Members = {a, b, x}
    Founders = {a, b}
    Observer = o
    Scenarios <- MCScenarios
INVARIANTS
    TypeOK
    MembersAgree
    OwnSecretsMatch
    OwnCommitHeld
    PendingIsCurrent
    ObserverAgrees
PROPERTIES
    EveryoneCatchesUp
    ObserverCatchesUp
CHECK_DEADLOCK FALSE
