\* Two calls, a rate whose sleeps are mostly skipped and one whose are not, and
\* a limit that changes while they run.
CONSTANTS
    c1 = c1
    c2 = c2
    Calls = {c1, c2}
    Intervals = {1, 3}
    Threshold = 2
    BatchSize = 3
    MaxTime = 3
    MaxLimits = 2
SYMMETRY Symmetry
SPECIFICATION Spec
INVARIANTS StricterLimitWins SharedLimitHolds
CHECK_DEADLOCK FALSE
