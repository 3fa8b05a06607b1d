SPECIFICATION Spec
CONSTANTS
    Users = {u1, u2}
    Vouchers = {v1, v2}
    Orders = {o1, o2, o3}
    Partitions = {p1, p2}
    Workers = {w1, w2}
    OneEach = 1
    Quota <- MCQuota
    MaxAttempts = 2
    MaxFaults = 0
    LeaseLoss = FALSE
    Free = Free
    Orphan = Orphan
    NoJob = NoJob
SYMMETRY Symmetry
INVARIANTS
    OffsetOnlyAfterSuccess
