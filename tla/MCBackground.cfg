SPECIFICATION FairAll
CONSTANTS
    s1 = s1
    s2 = s2
    t1 = t1
    Texts = {t1, t2, t3}
    MaxEntries = 2
    TTL = 1
    Threshold = 2
    Window = 1
    Cooldown = 1
    None = None
    Requests = {r1, r2}
    Lookups = {r1, r2}
    Limit = 1
    BufferSize = 1
    RingCap = 2
    MaxCalls = 5
    MaxReplays = 3
INVARIANTS
    
    RecentIsLast
    NoShadowAfterClose
PROPERTIES
    StopsAfterSignal
    ImplementsLRU
    ReconnectsWhenUp
    StableFileLoaded
CHECK_DEADLOCK FALSE
