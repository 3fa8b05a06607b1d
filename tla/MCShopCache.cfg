SPECIFICATION FairSpec
CONSTANTS
    Requests = {r1, r2}
    Updates = {u1}
    Servers = {s1, s2}
    MaxDepth = 1
    MaxFaults = 2
    NoKey = NoKey
    Free = Free
    Orphan = Orphan
INVARIANT
    StaleHasCause
PROPERTIES
    ImplementsCachedRow
    AllAnswered
    Converges
