CONSTANTS
    Names = {v, p}
    Types = {s, t}
    Functions = {f}
    MaxDecls = 1
    MaxItems = 1
    MaxInputs = 4
    MaxNumberings = 3
    MaxValues = 3
    Tool = {t1, t2}
    File = {f1, f2}
    Version = {0, 1}
    MaxEdits = 2
    Torn = torn
    Damaged = damaged
    NoID = none
SPECIFICATION MCSpec
SYMMETRY MCSymmetry
INVARIANTS
    TablesAgree
    StoreSound
PROPERTIES
    InputsHonest
    StoreHonest
CHECK_DEADLOCK FALSE
