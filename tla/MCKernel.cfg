CONSTANTS
    c1 = c1
    c2 = c2
    NoCell = NoCell
    Cell = {c1, c2}
    Option <- MCOption
    Runaway = {c2}
    Fragile = {c2}
    Chokes = TRUE
    QueueCap = 1
    Credits = 2
    Process = {w, d1, d2}
    Leader = w
    Stranger = {s1}
    Pid = {1, 2, 3}
SPECIFICATION MCSpec
INVARIANTS
    AnswersSound
    InterruptOnTarget
    SweepSound
