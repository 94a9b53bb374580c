CONSTANTS
    r1 = r1 r2 = r2 r3 = r3 r4 = r4
    NoReq = NoReq
    Reqs <- MCReqs
    PoolSize = 2
SPECIFICATION FairSpec
CHECK_DEADLOCK FALSE
INVARIANTS TypeOK CountMatchesPool
PROPERTIES PoolImplemented DrainedAfterClose
