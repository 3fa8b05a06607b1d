SPECIFICATION FairSpec
CONSTANTS
    Users = {u1}
    Vouchers = {v1, v2}
    Orders = {o1, o2}
    Partitions = {p1, p2}
    Workers = {w1, w2}
    OneEach = 1
    Quota <- MCQuota
    MaxAttempts = 2
    MaxFaults = 1
    LeaseLoss = FALSE
    Free = Free
    Orphan = Orphan
    NoJob = NoJob
PROPERTIES
    GrantedIsSettled
