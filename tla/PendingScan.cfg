SPECIFICATION StreamSpec
CONSTANTS
    t1 = t1
    t2 = t2
    r1 = r1
    r2 = r2
    r3 = r3
    i1 = i1
    i2 = i2
    Trigrams = {t1}
    Values = {{t1}}
    Tids = {r1, r2}
    Built = {r1}
    Inserters = {i1}
    Vacuum = vac
    Scanners = {s1}
    None = none
    PageCap = 1
    BatchMax = 1
    MergeLimit = 0
    FlushModes = {FALSE, TRUE}
    QueryModes = {"cnf"}
    Coalesce = TRUE
    RepackOverflow = FALSE
    MaxBlocks = 2
    MaxFaults = 0
\* no symmetry: r1 is the row ambuild indexed, and liveness
INVARIANT NoMissedRow
PROPERTY VacuumFinishes
