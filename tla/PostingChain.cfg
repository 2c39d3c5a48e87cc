SPECIFICATION Spec
CONSTANTS
    MaxTid = 5
    Layouts <- ShortAndWide
    Scanners = {s1}
    MaxFaults = 1
INVARIANTS TypeOK ScanComplete OnlyOverflowKeepsDead StatsExact EmptiedLeavesGo
