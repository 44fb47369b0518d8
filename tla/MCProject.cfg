CONSTANTS
    Project = {p1, p2}
    Remover = {r1}
    Good = {g1, g2}
    Bad = {b1}
    Faults = {"crash", "power"}
    None = none
    Name = {"polars", "other"}
    Want = {"polars"}
    Launch = {}
    MaxRequests = 2
    MaxWorld = 2
    MaxLocks = 4
SPECIFICATION MCSpec
SYMMETRY MCSymmetry
INVARIANTS
    CacheSound
    DepSound
    LockSound
PROPERTIES
    PublishedStays
    UserKept
