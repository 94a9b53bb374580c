CONSTANTS
    a1 = a1
    c1 = c1
    c2 = c2
    None = None
    Addrs = {a1}
    Conns = {c1, c2}
    QueueCap = 1
SPECIFICATION Spec
SYMMETRY Symmetry
CHECK_DEADLOCK FALSE
INVARIANTS TypeOK ListenerSendSafe NoTombstone
