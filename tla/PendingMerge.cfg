SPECIFICATION Spec
CONSTANTS
    t1 = t1
    t2 = t2
    r1 = r1
    r2 = r2
    r3 = r3
    i1 = i1
    i2 = i2
    Trigrams = {t1, t2}
    Values = {{t1, t2}}
    Tids = {r1, r2}
    Built = {}
    Inserters = {i1, i2}
    Vacuum = vac
    Scanners = {}
    None = none
    PageCap = 3
    BatchMax = 2
    MergeLimit = 1
    FlushModes = {FALSE}
    QueryModes = {"cnf"}
    Coalesce = FALSE
    RepackOverflow = FALSE
    MaxBlocks = 2
    MaxFaults = 1
SYMMETRY FullSymmetry
INVARIANTS TypeOK NoLostEntry NoGhostEntry CounterExact FreedUnlinked ChainIntact
PROPERTY RefinesContents
