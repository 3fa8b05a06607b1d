SPECIFICATION Spec
CONSTANTS
    Users = {u1, u2}
    Vouchers = {v1}
    Orders = {o1, o2, o3}
    Partitions = {p1, p2}
    Workers = {w1, w2}
    OneEach = 2
    Quota <- MCQuota
    MaxAttempts = 2
    MaxFaults = 2
    LeaseLoss = TRUE
    Free = Free
    Orphan = Orphan
    NoJob = NoJob
SYMMETRY Symmetry
INVARIANTS
    StockMatchesOrders
    GapIsPending
    OneGrantPerPurchase
