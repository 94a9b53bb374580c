CONSTANTS NoFile = NoFile Torn = Torn Expiry = 2 MaxTime = 7 MaxDomains = 3 MaxWarps = 1 Modes = {"off"}
SPECIFICATION FairSpec
PROPERTY OfflineExpires
