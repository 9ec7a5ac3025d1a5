SPECIFICATION ObservedFairSpec
CONSTANTS
    Members = {a, b, x}
    Observer = o
    Founders = {a, b}
    Scenarios <- Joining
PROPERTIES
    EveryoneCatchesUp
CHECK_DEADLOCK FALSE
