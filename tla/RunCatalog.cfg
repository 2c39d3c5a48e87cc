SPECIFICATION Spec
CONSTANTS
    Trigrams = {1, 2}
    Tids = {1, 2}
    Batches <- RowBatches
    InitBase <- BaseRow
    Scanners = {s1}
    CatalogCap = 3
    LevelCaps = {1, 3}
    Aliases = 1
    MaxRuns = 2
    MaxRoots = 4
    MaxFaults = 1
INVARIANTS TypeOK ScanComplete  CountExact NoTreeForgotten
PROPERTIES RefinesRunStore
