SPECIFICATION Spec
CONSTANTS
    Requests = {r1, r2, r3, r4}
    Users = {u1}
    Ips = {a1}
    NoUser = NoUser
    SeckillPermits = 2
    CodePermits = 1
    Endpoints <- MCEndpoints
    KeyType <- MCKeyType
    Permits <- MCPermits
    LoginRequired <- MCLoginRequired
    Window = 4
    Grace = 1
    MaxDelay = 1
    MaxTime = 6
SYMMETRY Symmetry
INVARIANTS
    WindowLimit
    SinglePermitIsExact
PROPERTIES
    RejectedIsFull
