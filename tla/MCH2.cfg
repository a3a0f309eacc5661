SPECIFICATION Spec
CONSTANTS
    HuffmanTable <- MCHuffmanTable
    Eos <- MCEos
    StaticTable <- MCStaticTable
    Width = 16
    Announced = 110
    Overhead = 32
    None = None
    HeaderLists <- MCHeaderLists
    PeerBlocks <- MCPeerBlocks
    Inputs <- MCInputs
    Integers7 <- MCIntegers7
    Probes <- MCProbes
    Frame <- MCFrame
    MaxBlocks = 3
    MaxMissing = 2
INVARIANTS
    EncodedReadsBack
    PeerInSync
    HuffmanCanonical
    IntegerExact
    FramesReadBack
CHECK_DEADLOCK FALSE
