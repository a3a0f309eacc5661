\* Two callers and four slots; the interval exceeds the threshold, so that both
\* the skipped and the real sleep happen; the fourth slot saturates the cursor.
CONSTANTS
    c1 = c1
    c2 = c2
    Callers = {c1, c2}
    Interval = 3
    Threshold = 2
    MaxNs = 8
    MaxTime = 4
    MaxGrants = 4
SPECIFICATION FairSpec
INVARIANTS TypeOK SlotsSpaced NoStockpile RateCap
PROPERTIES CursorAdvances AcquireReturns
CHECK_DEADLOCK FALSE
