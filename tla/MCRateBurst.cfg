SPECIFICATION Spec
CONSTANTS
    Requests = {r1, r2, r3, r4}
    Users = {u1}
    Ips = {a1}
    NoUser = NoUser
    SeckillPermits = 2
    CodePermits = 1
    Endpoints <- MCEndpoints
    KeyType <- MCKeyType
    Permits <- MCPermits
    LoginRequired <- MCLoginRequired
    Window = 3
    Grace = 1
    MaxDelay = 0
    MaxTime = 7
SYMMETRY Symmetry
INVARIANTS
    PermitsPerWindow
