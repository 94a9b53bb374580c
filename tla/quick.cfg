CONSTANTS NoFile = NoFile Torn = Torn Expiry = 2 MaxTime = 4 MaxDomains = 2 MaxWarps = 2 Modes = {"off", "auto", "manual"}
SPECIFICATION FairSpec
INVARIANTS TypeOK DomainKept WarpKept
PROPERTY StartEnds
