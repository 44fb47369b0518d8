CONSTANTS
    MaxId = 1
    Cap = 1
    Writes = 1
    Strays = 0
    Case <- MCCase
    Room = 1
    CaptureCap = 1
    Slice = 2
    MaxBudget = 4
    MaxCost = 1
    MaxLen = 2
    Name = {"polars", "other"}
    Want = {"polars"}
    Launch = {"other"}
    MaxRequests = 1
    MaxWorld = 1
    HttpRequest = {r1}
    Patient = {}
    Workers = 2
    Active = 1
    HttpQueue = 1
    Producer = {p1, p2}
    LogQueue = 1
    MaxRecords = 2
SPECIFICATION MCFairSpec
PROPERTIES
    CallsEnd
    ServersEnd
CHECK_DEADLOCK FALSE
