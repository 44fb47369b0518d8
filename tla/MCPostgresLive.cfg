CONSTANTS
    m1 = m1
    m2 = m2
    r1 = r1
    r2 = r2
    Job = {m1, m2}
    Conn = {c1}
    None = none
    Size = 1
    Request = {m1, r1, r2}
    Patient = {m1}
    Credits = 1
    QueueMax = 1
SPECIFICATION MCFairSpec
PROPERTIES
    PoolProgress
    DispatchProgress
CHECK_DEADLOCK FALSE
