SPECIFICATION Spec
CONSTANTS
    MaxBlocks = 4
    Inserters = {w1}
    Vacuum = vac
    Scanners = {s1}
    None = None
    TreePages = 2
    StaleFsm = {}
    FlushModes = {TRUE, FALSE}
    LogCap = 2
    MaxPending = 1
    MaxBuilt = 1
    MaxXid = 2
    MaxFaults = 1
INVARIANTS TypeOK ScanSafe OneOwner LogSound
SYMMETRY ScannerSymmetry
CHECK_DEADLOCK FALSE
