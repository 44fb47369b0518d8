CONSTANTS
    m1 = m1
    m2 = m2
    m3 = m3
    Parts = {"kernel", "fanout"}
    NoCell = NoCell
    Cell = {m1, m2}
    Option <- MCOption
    Runaway = {m2}
    Fragile = {}
    Chokes = FALSE
    QueueCap = 1
    Credits = 2
    Byte = {"a", "k"}
    Mark <- MCMark
    Limit = 1
    Chunk = 1
    MaxRead = 1
    MaxFed = 1
    FanConn = {m1, m2}
    Ident = {i1}
    None = none
    FanSlots = 2
    Bytes = 1
    Count = 1
    Global = 2
    Size = {1}
    Pubs = 2
SPECIFICATION MCFairSpec
PROPERTIES
    KernelProgress
    FanoutProgress
CHECK_DEADLOCK FALSE
