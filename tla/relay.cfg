CONSTANTS
    Classes = 3
    ForwardBuf = 4
    MTUs = {1, 3, 5}
    CopyBuf = 2
    ServerBuf = 2
    HeaderLen = 1
    UpLen = 3
    DownLen = 3
    WireCap = 1
SPECIFICATION RelayFairSpec
CHECK_DEADLOCK FALSE
INVARIANTS RelayTypeOK StreamsIntact AllocatorFits
PROPERTIES RelayEnds Delivered
