CONSTANTS
    m1 = m1
    m2 = m2
    m3 = m3
    Parts = {"kernel", "streams"}
    NoCell = NoCell
    Cell = {m1, m2, m3}
    Option <- MCOption
    Runaway = {}
    Fragile = {}
    Chokes = FALSE
    QueueCap = 2
    Credits = 3
    Byte = {"a", "L", "T", "k"}
    Mark <- MCMark
    Limit = 4
    Chunk = 2
    MaxRead = 3
    MaxFed = 7
    FanConn = {m1, m2, m3}
    Ident = {i1}
    None = none
    FanSlots = 1
    Bytes = 1
    Count = 1
    Global = 1
    Size = {1}
    Pubs = 1
SPECIFICATION MCSpec
SYMMETRY MCSymmetry
INVARIANTS
    QueueSound
    AdmittedAnswered
    OutputExact
CHECK_DEADLOCK FALSE
