\* Two periods of 200ms suffice to see a chunk held back.
CONSTANTS
    N = 2
    Concurrency = 2
    ChunkMax = 2
    MaxElapsed = 2
    MaxCancels = 1
SPECIFICATION FairSpec
INVARIANT NeverStarved
CHECK_DEADLOCK FALSE
