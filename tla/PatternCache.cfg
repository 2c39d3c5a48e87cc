SPECIFICATION Spec
CONSTANTS
    N = 2
    Patterns = {p, q, bad}
    Rejected = {bad}
    Collations = {c, d}
    Timeouts = {TRUE, FALSE}
    Handles = {h1, h2, h3, h4}
    MaxDepth = 3
    MaxClock = 4
    MaxLost = 1
SYMMETRY Interchangeable
INVARIANTS PinnedHandleLive PinsCounted MatchCollation DeadlineCovers
PROPERTY LeaksOnlyWhenAllPinned
