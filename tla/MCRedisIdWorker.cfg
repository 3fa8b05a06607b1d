SPECIFICATION Spec
CONSTANTS
    Calls = {c1, c2, c3, c4}
    Instances = {i1, i2}
    DayLength = 2
    Base = 4
    BitOr <- MCBitOr
    MaxSecond = 3
SYMMETRY Symmetry
INVARIANTS
    UniqueIds
    LaterIsLarger
