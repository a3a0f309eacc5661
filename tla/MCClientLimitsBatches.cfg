\* Two batches, one of which asks for less than the client's rate.
CONSTANTS
    c1 = c1
    c2 = c2
    Calls = {c1, c2}
    Intervals = {1, 3}
    Threshold = 2
    BatchSize = 3
    MaxTime = 3
    MaxLimits = 2
SPECIFICATION Spec
INVARIANT BatchesCollectivelyUnderLimit
CHECK_DEADLOCK FALSE
