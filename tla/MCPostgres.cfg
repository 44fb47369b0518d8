CONSTANTS
    m1 = m1
    m2 = m2
    r1 = r1
    r2 = r2
    Job = {m1, m2}
    Conn = {c1, c2, c3}
    None = none
    Size = 2
    Request = {m1, m2, r1, r2}
    Patient = {m1, m2}
    Credits = 1
    QueueMax = 1
SPECIFICATION MCSpec
SYMMETRY MCSymmetry
INVARIANTS
    PoolSound
    DatabaseTrue
    DispatchSound
PROPERTIES
    ServiceHolds
CHECK_DEADLOCK FALSE
