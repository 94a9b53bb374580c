CONSTANTS
    a1 = a1 a2 = a2 c1 = c1 c2 = c2 w1 = w1
    b1 = b1 b2 = b2 b3 = b3
    None = None
    Addrs = {a1, a2}
    Conns = {c1, c2}
    Workers = {w1}
    Buffers = {b1, b2, b3}
    QueueCap = 1
    OutCap = 1
    MaxIn = 2
    MaxOut = 1
SPECIFICATION FairSpec
CHECK_DEADLOCK FALSE
INVARIANTS TypeOK Exclusive OwnDatagramsOnce
PROPERTY BuffersReturn
