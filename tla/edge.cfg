CONSTANTS
    p1 = p1 p2 = p2 p3 = p3
    x1 = x1
    NoPort = NoPort NoConn = NoConn
    HaConn = 2
    EdgeIPs <- MCEdgeIPs
    Region1 <- MCRegion1
    Region2 <- MCRegion2
    Ports <- MCPorts
SPECIFICATION FairSpec
INVARIANTS TypeOK SocketsAccounted DistinctEdges
PROPERTY RegisteredReplaced
