\* Two operations at once on a connection that carries two bytes; the CONNECT
\* reply can fill its buffer exactly and exceed it.
CONSTANTS
    o1 = o1
    o2 = o2
    Ops = {o1, o2}
    Configs <- MCConfigs
    BufMax = 3
    NameLengths = {0, 2}
    MaxHeaders = 2
    MaxData = 2
    WriteLen = 2
    MaxBytes = 1
SPECIFICATION FairSpec
INVARIANTS TunnelGranted TunnelAligned WritesDoNotMix
PROPERTIES ClosedForGood ConnectEnds OperationsReturn
CHECK_DEADLOCK FALSE
