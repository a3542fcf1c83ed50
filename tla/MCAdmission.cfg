SPECIFICATION SpecAll
CONSTANTS
    r1 = r1
    r2 = r2
    BucketLimit = 5
    BucketWindow = 10
    IdleMax = 11
    Ids = {k1, k2}
    Tokens = {t1, t2}
    Projects = {p1}
    Admins = {a1}
    Clients = {c1}
    TTL = 1
    Grace = 1
    CacheSize = 1
    None = None
    Jobs <- MCJobs
    Residencies = {"eu", "us"}
    Pipelines <- MCPipelines
    Contents <- MCContents
    Requests = {r1, r2}
    Clock <- MCClock
    Limit = 2
    Window = 5
    MaxDelay = 1
    MaxSkew = 1
    MaxTime = 10
    MaxCalls = 4
SYMMETRY Symmetry
INVARIANTS
    LimitHolds
    BurstIsBounded
    RefusalIsEarned
    RowsConsistent
    HealthOrdersPlan
    ResidencyTags
    
PROPERTIES
    RefusalIsDeserved
    RevocationIsFinal
    StaleAcceptanceBounded
CHECK_DEADLOCK FALSE
