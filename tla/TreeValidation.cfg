CONSTANTS
    MaxLeaves = 5
    MaxLive = 2
    MaxProposals = 2
    Committers = {0, 2}
    Proposed = {1, 3}
SPECIFICATION Spec
INVARIANTS
    ReceiverAgrees
    CachedHashesAreCurrent
    JoinerAccepts
    OriginalHashesAgree
CHECK_DEADLOCK FALSE
