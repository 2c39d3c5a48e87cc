CONSTANTS
    B = 2
    V = 3
    SmallMaxWords = 2
    InitCap = 4
    GrowFloor = 10
    CreateMin = 10
    Windows = 3
    Points <- EdgePoints
    Operands <- EdgeSets
    MaxCap = 12
SPECIFICATION Spec
INVARIANTS Agrees Valid ReadersAgree
