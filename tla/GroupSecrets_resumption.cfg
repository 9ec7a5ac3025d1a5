SPECIFICATION Spec
CONSTANTS
    a = a
    b = b
    c = c
    Clients <- MCClients
    Founder = a
    Invited <- MCInvited
    PathRequired = {a}
    KeyPackages <- MCKeyPackages
    PskStore <- MCPskStore
    MainGroup = "group"
    SubGroup = "subgroup"
    NextGroup = "next"
    MaxCommits = 2
    MaxGroups = 1
    MaxProposals = 1
INVARIANT ResumptionAgrees
CHECK_DEADLOCK FALSE
