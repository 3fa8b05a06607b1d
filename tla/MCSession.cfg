SPECIFICATION Spec
CONSTANTS
    Tabs = {b1, b2}
    Threads = {t1, t2}
    Tokens = {k1, k2}
    Phones = {p1, p2}
    Codes = {c1}
    CodeTTL = 1
    SessionTTL = 1
    MaxFaults = 1
    None = None
SYMMETRY Symmetry
INVARIANTS
    ActsAsCaller
    LogoutIsFinal
    KnownSessionsExpire
    OnePhoneOneUser
    LeftoverNeedsFailure
