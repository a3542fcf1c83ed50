SPECIFICATION FairAll
CONSTANTS
    i1 = i1
    c1 = c1
    c2 = c2
    Tasks = {t1, t2}
    Workers = {w1, w2}
    Requests = {r1, r2}
    QueueCap = 1
    MaxTasks = 1
    ErrKinds = {"governance", "other"}
    Persistent = FALSE
    MultiTurn = FALSE
    Blocking = TRUE
    Restarts = FALSE
    Peers = FALSE
    None = None
INVARIANTS
    
    ExecutedOnce
PROPERTIES
    BreakersReopen
    WorkingFinishes
    ShutdownCompletes
CHECK_DEADLOCK FALSE
