CONSTANTS
    c1 = c1
    c2 = c2
    c3 = c3
    MaxId = 2
    Cap = 1
    Writes = 1
    Strays = 1
    FanConn = {c1, c2, c3}
    Ident = {i1, i2}
    None = none
    FanSlots = 2
    Bytes = 2
    Count = 2
    Global = 4
    Size = {1, 2}
    Pubs = 2
    IntakeConn = {c1, c2, c3}
    IntakeSlots = 2
    MessageCap = 3
    IntakeCredits = 6
    Parts = 2
    Lengths = {0, 1, 2, 3, 4}
SPECIFICATION MCSpec
SYMMETRY MCSymmetry
INVARIANTS
    LinkSound
    NothingLostSilently
    FanoutSound
    IntakeSound
CHECK_DEADLOCK FALSE
