SPECIFICATION Spec
CONSTANTS
    Trees <- MCTrees
    Newcomers = {7}
    NewKeys = {10}
    CacheBound = 2
    MayShareLeaf = FALSE
    MayTakeKey = FALSE
INVARIANTS SentCommitAccepted OnlyAppliedChanges IndexMatchesTree PathsBlanked ByValueHonoured 
CHECK_DEADLOCK FALSE
