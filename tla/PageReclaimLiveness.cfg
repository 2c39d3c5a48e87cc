SPECIFICATION FairSpec
CONSTANTS
    MaxBlocks = 5
    Inserters = {w1}
    Vacuum = vac
    Scanners = {s1}
    None = None
    TreePages = 2
    StaleFsm = {2}
    FlushModes = {FALSE}
    LogCap = 1
    MaxPending = 2
    MaxBuilt = 1
    MaxXid = 2
    MaxFaults = 0
PROPERTIES AllocFinishes EventuallyReclaimed
VIEW WithoutHistory
CHECK_DEADLOCK FALSE
