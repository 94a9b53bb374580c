CONSTANTS
    t1 = t1 u1 = u1 Other = Other
    TcpFlows = {t1}
    UdpFlows = {u1}
    OutQueueLen = 1
SPECIFICATION FairSpec
CHECK_DEADLOCK FALSE
INVARIANTS TypeOK CompletedOnce HandlerReleases QuietAfterStop
PROPERTIES FlowServed StopEnds
