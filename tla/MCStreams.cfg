SPECIFICATION FairAll
CONSTANTS
    w1 = w1
    c1 = c1
    None = None
    MaxMessages = 2
    MaxEvents = 2
    Watchers = {w1}
    Deployments <- MCDeployments
    ChanCap = 1
    MaxSends = 2
    Attempts = 2
    Tools = {"a", "b"}
    MaxRounds = 1
    MaxCalls = 2
    Clients = {c1}
    Kinds <- MCKinds
    MaxKeys = 2
    QueueCap = 1
    MaxPending = 2
INVARIANTS
    MessagesSentOnce
    TextKept
    ChannelsClosedOnce
    AnswersFitCalls
    
PROPERTIES
    ReaderEnds
    
CHECK_DEADLOCK FALSE
