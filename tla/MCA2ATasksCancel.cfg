SPECIFICATION Spec
CONSTANTS
    Tasks = {t1}
    Workers = {w1}
    Requests = {r1, r2}
    QueueCap = 1
    MaxTasks = 1
    ErrKinds = {"governance"}
    Persistent = FALSE
    MultiTurn = FALSE
    Blocking = FALSE
    Restarts = FALSE
    Peers = FALSE
    None = None
PROPERTIES
    CancelKeepsResults
CHECK_DEADLOCK FALSE
