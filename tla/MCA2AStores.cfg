SPECIFICATION SpecAll
CONSTANTS
    t1 = t1
    Tasks = {t1, t2}
    Workers = {w1, w2}
    Requests = {r1, r2}
    QueueCap = 1
    MaxTasks = 2
    ErrKinds = {"governance", "other"}
    Persistent = TRUE
    MultiTurn = TRUE
    Blocking = FALSE
    Restarts = TRUE
    Peers = TRUE
    None = None
SYMMETRY Symmetry
INVARIANTS
    WorkingHasOwner
    CancelHitsItsTask
    QuietAfterShutdown
CHECK_DEADLOCK FALSE
