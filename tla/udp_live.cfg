CONSTANTS
    a1 = a1
    c1 = c1
    c2 = c2
    None = None
    Addrs = {a1}
    Conns = {c1}
    QueueCap = 1
SPECIFICATION FairSpec
CHECK_DEADLOCK FALSE
PROPERTIES Reclaims ListenerFreed
