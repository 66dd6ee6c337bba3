CONSTANTS
    CodeLengths <- TwoTiers
    Capacity <- TwoTiersCapacity
    TTL = 2
    Skew = 1
    IndexModes = {TRUE}
    BatchLimit = 1
    MaxVersion = 2
    LastTime = 5
SPECIFICATION FairSpec
INVARIANTS
    TypeOK
    IndexExact
    IndexMatchesRecord
PROPERTIES
    ImplementsPool
    ExpiredReclaimed
