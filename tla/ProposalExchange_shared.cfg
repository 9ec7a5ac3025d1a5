SPECIFICATION Spec
CONSTANTS
    Trees <- MCSmall
    Newcomers = {7}
    NewKeys = {10}
    CacheBound = 2
    MayShareLeaf = TRUE
    MayTakeKey = FALSE
INVARIANT UpdateOfRemovedFilteredOut
CHECK_DEADLOCK FALSE
