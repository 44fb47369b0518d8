CONSTANTS
    m1 = m1
    m2 = m2
    m3 = m3
    HttpRequest = {m1, m2, m3}
    Patient = {m2, m3}
    Workers = 1
    Active = 1
    HttpQueue = 1
    Producer = {m1, m2, m3}
    LogQueue = 2
    MaxRecords = 2
    Row <- MCRow
    Method <- MCMethod
    Path <- MCPath
    Empty = ""
    Decoded <- MCDecoded
    Malformed = "malformed"
    HookSet <- MCHookSet
    MAX_ROUTES = 3
SPECIFICATION MCSpec
SYMMETRY MCSymmetry
INVARIANTS
    HttpSound
    LogExact
    RoutesSound
PROPERTIES
    ServiceHolds
