CONSTANTS
    c1 = c1
    Context = {c1}
    Max = 3
    Slice = 2
    MaxBudget = 8
    MaxCost = 2
    MaxLen = 3
    Case <- MCCase
    Room = 1
    CaptureCap = 1
SPECIFICATION MCSpec
INVARIANTS
    LifecycleSound
    RequestsIsolated
    ExecutionSound
    PipesSafe
    ResultHonest
PROPERTIES
    FinishRevokesExactly
    RevokedStaysRevoked
CHECK_DEADLOCK FALSE
