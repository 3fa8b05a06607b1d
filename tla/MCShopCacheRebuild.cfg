SPECIFICATION Spec
CONSTANTS
    Requests = {r1, r2, r3, r4}
    Updates = {u1}
    Servers = {s1}
    MaxDepth = 1
    MaxFaults = 0
    NoKey = NoKey
    Free = Free
    Orphan = Orphan
INVARIANT OneRebuilder
