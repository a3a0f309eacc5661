\* A plain target behind an HTTP proxy, that speaks first.
CONSTANTS
    o1 = o1
    Ops = {o1}
    Configs <- MCHttpProxy
    BufMax = 3
    NameLengths = {0, 2}
    MaxHeaders = 0
    MaxData = 1
    WriteLen = 1
    MaxBytes = 1
SPECIFICATION FairSpec
INVARIANT BytesArriveAsSent
CHECK_DEADLOCK FALSE
