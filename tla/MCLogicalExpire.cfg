SPECIFICATION ExpirySpec
CONSTANTS
    Calls = {c1, c2, c3}
    Preheats = {p1}
    Edits = {e1}
    MaxSlips = 1
    Absent = Absent
    Unlocked = Unlocked
    Left = Left
SYMMETRY Symmetry
INVARIANTS
    OneAtATime
    LockInHand
    NeverOlder
    OutdatedHasCause
