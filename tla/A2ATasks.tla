------------------------------ MODULE A2ATasks ------------------------------
(***************************************************************************)
(* internal/mcp/a2a_handler.go and its task stores: the life of A2A tasks  *)
(* between the JSON-RPC handlers, the work queue, the worker pool, the     *)
(* store, shutdown and restart.                                            *)
(*                                                                         *)
(* status[t] is what a reader of the store sees.  MemoryTaskStore hands    *)
(* out pointers, so an assignment to task.Status shows at once;            *)
(* PersistentTaskStore hands out copies, so it shows at the next Update.   *)
(* Setting a status and the Update right after it is therefore one step in *)
(* both stores; the places where no Update follows tell them apart.        *)
(***************************************************************************)
EXTENDS Integers, Sequences, FiniteSets

CONSTANTS
    Tasks,          \* task ids that newTaskID may draw
    Workers,        \* the worker pool
    Requests,       \* HTTP requests served concurrently
    QueueCap,       \* capacity of workQueue
    MaxTasks,       \* capacity of the in-memory store
    ErrKinds,       \* errors the chat executor may return
    Persistent,     \* the store is PersistentTaskStore
    MultiTurn,      \* clients send messages to existing tasks
    Blocking,       \* clients may ask to wait for the result
    Restarts,       \* the process may crash and start again
    Peers,          \* another gateway may start on the same database
    None            \* no task, no worker

ASSUME ConstantsAssumption ==
    /\ QueueCap \in Nat \ {0}
    /\ MaxTasks \in Nat \ {0}
    /\ ErrKinds \subseteq {"governance", "other"}
    /\ {Persistent, MultiTurn, Blocking, Restarts, Peers} \subseteq BOOLEAN
    /\ None \notin Tasks \cup Workers
    /\ Workers # {}

VARIABLES
    status,     \* status[t], "absent" while t is not in the store
    unused,     \* ids not drawn yet
    queue,      \* workQueue
    shut,       \* how far Shutdown is
    worker,     \* worker[w]: what w does, and for which task
    canceled,   \* canceled[w]: the context of w's execution is canceled
    cancelFn,   \* cancelFuncs: the execution that tasks/cancel would reach
    request,    \* request[r]: what r does, and for which task
    panicked    \* a handler sent on the closed queue

vars == <<status, unused, queue, shut, worker, canceled, cancelFn, request,
          panicked>>
poolVars == <<worker, canceled, cancelFn>>

Terminal == {"completed", "failed", "canceled"}
States == {"submitted", "working"} \cup Terminal

Doing(at, t) == [pc |-> at, task |-> t]
Idle == Doing("idle", None)
Asking(at, t, new) == [pc |-> at, task |-> t, isNew |-> new]
NoRequest == Asking("idle", None, FALSE)

TypeOK ==
    /\ status \in [Tasks -> States \cup {"absent"}]
    /\ unused \subseteq Tasks
    /\ queue \in Seq(Tasks) /\ Len(queue) <= QueueCap
    /\ shut \in {"no", "flagged", "closed", "waiting", "done"}
    /\ worker \in [Workers ->
          [pc : {"idle", "fetch", "start", "exec", "cleanup", "exited"},
           task : Tasks \cup {None}]]
    /\ canceled \in [Workers -> BOOLEAN]
    /\ cancelFn \in [Tasks -> Workers \cup {None}]
    /\ request \in [Requests ->
          [pc : {"idle", "check", "enqueue", "store", "block", "work", "exec",
                 "cancel"},
           task : Tasks \cup {None}, isNew : BOOLEAN]]
    /\ panicked \in BOOLEAN

\* A gateway that starts with an empty store and may still draw the given ids.
InitWith(ids) ==
    /\ status = [t \in Tasks |-> "absent"]
    /\ unused = ids
    /\ queue = <<>>
    /\ shut = "no"
    /\ worker = [w \in Workers |-> Idle]
    /\ canceled = [w \in Workers |-> FALSE]
    /\ cancelFn = [t \in Tasks |-> None]
    /\ request = [r \in Requests |-> NoRequest]
    /\ panicked = FALSE

Init == InitWith(Tasks)

Stored == {t \in Tasks : status[t] # "absent"}

\* (variant: the queue is never closed)
ClosedNever == FALSE

\* Shutdown has closed workQueue.
Closed == shut \notin {"no", "flagged"}

HasRoom == Len(queue) < QueueCap

-----------------------------------------------------------------------------
(* message/send *)

\* (variant: an id may be drawn twice)
SendReusedId(r, t) ==
    /\ request[r].pc = "idle" /\ t \in unused
    /\ \E at \in {"check"} \cup (IF Blocking THEN {"block"} ELSE {}) :
          request' = [request EXCEPT ![r] = Asking(at, t, TRUE)]
    /\ UNCHANGED <<status, unused, queue, shut, poolVars, panicked>>

\* handleMessageSend without a task id, asking for a result now or later.
SendNew(r, t) ==
    /\ request[r].pc = "idle" /\ t \in unused
    /\ unused' = unused \ {t}
    /\ \E at \in {"check"} \cup (IF Blocking THEN {"block"} ELSE {}) :
          request' = [request EXCEPT ![r] = Asking(at, t, TRUE)]
    /\ UNCHANGED <<status, queue, shut, poolVars, panicked>>

\* handleMessageSend with a task id: a working task is returned as it is, any
\* other is reset to submitted, before it is known whether the queue has room.
SendExisting(r, t) ==
    /\ MultiTurn
    /\ request[r].pc = "idle" /\ t \in Stored
    /\ status[t] # "working"
    /\ status' = IF Persistent THEN status
                               ELSE [status EXCEPT ![t] = "submitted"]
    /\ \E at \in {"check"} \cup (IF Blocking THEN {"block"} ELSE {}) :
          request' = [request EXCEPT ![r] = Asking(at, t, FALSE)]
    /\ UNCHANGED <<unused, queue, shut, poolVars, panicked>>

Return(r) == request' = [request EXCEPT ![r] = NoRequest]

\* enqueueNonBlocking, in three steps: it reads shuttingDown, ...
CheckShutdown(r) ==
    /\ request[r].pc = "check"
    /\ \/ shut = "no" /\ request' = [request EXCEPT ![r].pc = "enqueue"]
       \/ shut # "no" /\ Return(r)
    /\ UNCHANGED <<status, unused, queue, shut, poolVars, panicked>>

\* ... offers the id to the queue, which may be full or closed, ...
Enqueue(r) ==
    /\ request[r].pc = "enqueue"
    /\ \/ /\ ~Closed /\ HasRoom
          /\ queue' = Append(queue, request[r].task)
          /\ request' = [request EXCEPT ![r].pc = "store"]
          /\ UNCHANGED panicked
       \/ /\ ~Closed /\ ~HasRoom
          /\ Return(r)
          /\ UNCHANGED <<queue, panicked>>
       \/ /\ Closed
          /\ Return(r)
          /\ panicked' = TRUE
          /\ UNCHANGED queue
    /\ UNCHANGED <<status, unused, shut, poolVars>>

\* Create fails in a full memory store.  Update of a memory task that the
\* store holds changes nothing a reader sees: it is the same task.
StoreTask(t, isNew) ==
    status' = IF isNew
                THEN IF ~Persistent /\ Cardinality(Stored) >= MaxTasks
                       THEN status
                       ELSE [status EXCEPT ![t] = "submitted"]
                ELSE IF Persistent
                       THEN [status EXCEPT ![t] = "submitted"]
                       ELSE status

\* ... and stores the task.
StoreEnqueued(r) ==
    /\ request[r].pc = "store"
    /\ StoreTask(request[r].task, request[r].isNew)
    /\ Return(r)
    /\ UNCHANGED <<unused, queue, shut, poolVars, panicked>>

\* handleMessageSendBlockingWithMode: store, work, execute in the request.
BlockingStore(r) ==
    /\ request[r].pc = "block"
    /\ StoreTask(request[r].task, request[r].isNew)
    /\ \/ status'[request[r].task] # "absent"
          /\ request' = [request EXCEPT ![r].pc = "work"]
       \/ status'[request[r].task] = "absent" /\ Return(r)
    /\ UNCHANGED <<unused, queue, shut, poolVars, panicked>>

BlockingWork(r) ==
    /\ request[r].pc = "work"
    /\ status' = [status EXCEPT ![request[r].task] = "working"]
    /\ request' = [request EXCEPT ![r].pc = "exec"]
    /\ UNCHANGED <<unused, queue, shut, poolVars, panicked>>

\* An error is written to the store; a result is not, so that only a reader
\* of the shared in-memory task sees it.
BlockingFinish(r) ==
    /\ request[r].pc = "exec"
    /\ \/ status' = [status EXCEPT ![request[r].task] = "failed"]
       \/ status' = IF Persistent THEN status
                      ELSE [status EXCEPT ![request[r].task] = "completed"]
    /\ Return(r)
    /\ UNCHANGED <<unused, queue, shut, poolVars, panicked>>

-----------------------------------------------------------------------------
(* tasks/cancel *)

\* handleTasksCancel looks at the status without the lock and cancels the
\* registered execution of a working task, ...
CancelCheck(r, t) ==
    /\ request[r].pc = "idle" /\ t \in Stored
    /\ status[t] \notin Terminal
    /\ canceled' = IF status[t] = "working" /\ cancelFn[t] # None
                     THEN [canceled EXCEPT ![cancelFn[t]] = TRUE]
                     ELSE canceled
    /\ request' = [request EXCEPT ![r] = Asking("cancel", t, FALSE)]
    /\ UNCHANGED <<status, unused, queue, shut, worker, cancelFn, panicked>>

\* ... then writes canceled whatever the status is by now.
CancelWrite(r) ==
    /\ request[r].pc = "cancel"
    /\ status' = [status EXCEPT ![request[r].task] = "canceled"]
    /\ Return(r)
    /\ UNCHANGED <<unused, queue, shut, poolVars, panicked>>

-----------------------------------------------------------------------------
(* The worker pool *)

\* A worker receives from the queue; a closed queue is drained first.
Take(w) ==
    /\ worker[w].pc = "idle" /\ queue # <<>>
    /\ worker' = [worker EXCEPT ![w] = Doing("fetch", Head(queue))]
    /\ queue' = Tail(queue)
    /\ UNCHANGED <<status, unused, shut, canceled, cancelFn, request, panicked>>

Exit(w) ==
    /\ worker[w].pc = "idle" /\ queue = <<>> /\ Closed
    /\ worker' = [worker EXCEPT ![w] = Doing("exited", None)]
    /\ UNCHANGED <<status, unused, queue, shut, canceled, cancelFn, request,
                   panicked>>

\* (variant: the execution is not registered)
RegisterNothing(w, t) ==
    /\ canceled' = [canceled EXCEPT ![w] = FALSE]
    /\ UNCHANGED cancelFn

\* A fresh context for the execution, reachable through cancelFuncs.
Register(w, t) ==
    /\ canceled' = [canceled EXCEPT ![w] = FALSE]
    /\ cancelFn' = [cancelFn EXCEPT ![t] = w]

\* executeTask: a task that is not in the store is skipped, ...
Fetch(w) ==
    LET t == worker[w].task IN
    /\ worker[w].pc = "fetch"
    /\ \/ /\ t \notin Stored
          /\ worker' = [worker EXCEPT ![w] = Idle]
          /\ UNCHANGED <<canceled, cancelFn>>
       \/ /\ t \in Stored
          /\ worker' = [worker EXCEPT ![w].pc = "start"]
          /\ Register(w, t)
    /\ UNCHANGED <<status, unused, queue, shut, request, panicked>>

\* ... any other is set to working, whatever its status, ...
Start(w) ==
    /\ worker[w].pc = "start"
    /\ status' = [status EXCEPT ![worker[w].task] = "working"]
    /\ worker' = [worker EXCEPT ![w].pc = "exec"]
    /\ UNCHANGED <<unused, queue, shut, canceled, cancelFn, request, panicked>>

\* (variant: a canceled execution sets no status)
OutcomeCancelForgotten(w) ==
    {"completed"} \cup
    {IF k = "other" /\ canceled[w] THEN "working" ELSE "failed" : k \in ErrKinds}

\* ... and to a terminal state when the executor returns.  An error of the
\* governance pipeline wins over the cancellation of the context.
Outcome(w) ==
    {"completed"} \cup
    {IF k = "other" /\ canceled[w] THEN "canceled" ELSE "failed" : k \in ErrKinds}

Finish(w) ==
    /\ worker[w].pc = "exec"
    /\ \E s \in Outcome(w) : status' = [status EXCEPT ![worker[w].task] = s]
    /\ worker' = [worker EXCEPT ![w].pc = "cleanup"]
    /\ UNCHANGED <<unused, queue, shut, canceled, cancelFn, request, panicked>>

\* (variant: the entry stays)
CleanupKeepsEntry(w) ==
    /\ worker[w].pc = "cleanup"
    /\ worker' = [worker EXCEPT ![w] = Idle]
    /\ UNCHANGED <<status, unused, queue, shut, canceled, cancelFn, request,
                   panicked>>

\* The deferred function removes the entry of the task, whoever owns it now.
Cleanup(w) ==
    /\ worker[w].pc = "cleanup"
    /\ cancelFn' = [cancelFn EXCEPT ![worker[w].task] = None]
    /\ worker' = [worker EXCEPT ![w] = Idle]
    /\ UNCHANGED <<status, unused, queue, shut, canceled, request, panicked>>

-----------------------------------------------------------------------------
(* Shutdown, restart, eviction *)

ShutdownFlag ==
    /\ shut = "no"
    /\ shut' = "flagged"
    /\ UNCHANGED <<status, unused, queue, poolVars, request, panicked>>

ShutdownClose ==
    /\ shut = "flagged"
    /\ shut' = "closed"
    /\ UNCHANGED <<status, unused, queue, poolVars, request, panicked>>

ShutdownCancel ==
    /\ shut = "closed"
    /\ shut' = "waiting"
    /\ canceled' = [w \in Workers |->
                      canceled[w] \/ \E t \in Tasks : cancelFn[t] = w]
    /\ UNCHANGED <<status, unused, queue, worker, cancelFn, request, panicked>>

\* (variant: nobody waits)
ShutdownDoneAtOnce ==
    /\ shut = "waiting"
    /\ shut' = "done"
    /\ UNCHANGED <<status, unused, queue, poolVars, request, panicked>>

\* wg.Wait returns.
ShutdownDone ==
    /\ shut = "waiting"
    /\ \A w \in Workers : worker[w].pc = "exited"
    /\ shut' = "done"
    /\ UNCHANGED <<status, unused, queue, poolVars, request, panicked>>

\* (variant: working tasks are left as they are)
RecoverSubmitted ==
    [t \in Tasks |-> CASE ~Persistent -> "absent"
                       [] status[t] = "submitted" -> "failed"
                       [] OTHER -> status[t]]

\* RecoverStale of the persistent store; the memory store starts empty.
RecoverStale ==
    [t \in Tasks |-> CASE ~Persistent -> "absent"
                       [] status[t] \in {"submitted", "working"} -> "failed"
                       [] OTHER -> status[t]]

\* The process ends, in any state, and NewA2AHandler runs in the next one.
Restart ==
    /\ Restarts
    /\ status' = RecoverStale
    /\ queue' = <<>>
    /\ shut' = "no"
    /\ worker' = [w \in Workers |-> Idle]
    /\ canceled' = [w \in Workers |-> FALSE]
    /\ cancelFn' = [t \in Tasks |-> None]
    /\ request' = [r \in Requests |-> NoRequest]
    /\ UNCHANGED <<unused, panicked>>

\* NewA2AHandler of another gateway on the same database.
PeerStarts ==
    /\ Peers /\ Persistent
    /\ status' = RecoverStale
    /\ UNCHANGED <<unused, queue, shut, poolVars, request, panicked>>

\* evictExpired removes tasks not updated for a TTL (an hour): not the task of
\* a request, which has just updated it, nor one in execution, which ends
\* within five minutes; a task may wait longer than that in the queue.
Evict(t) ==
    /\ ~Persistent /\ shut # "done"
    /\ status[t] \notin {"absent", "working"}
    /\ \A r \in Requests : request[r].task # t
    /\ \A w \in Workers : worker[w].task = t => worker[w].pc \in {"fetch", "start"}
    /\ status' = [status EXCEPT ![t] = "absent"]
    /\ UNCHANGED <<unused, queue, shut, poolVars, request, panicked>>

-----------------------------------------------------------------------------

Serve(r) ==
    \/ CheckShutdown(r)
    \/ Enqueue(r)
    \/ StoreEnqueued(r)
    \/ BlockingStore(r)
    \/ BlockingWork(r)
    \/ BlockingFinish(r)
    \/ CancelWrite(r)

Work(w) == Take(w) \/ Exit(w) \/ Fetch(w) \/ Start(w) \/ Finish(w) \/ Cleanup(w)

Shutdown == ShutdownFlag \/ ShutdownClose \/ ShutdownCancel \/ ShutdownDone

Next ==
    \/ \E r \in Requests, t \in Tasks :
          SendNew(r, t) \/ SendExisting(r, t) \/ CancelCheck(r, t)
    \/ \E r \in Requests : Serve(r)
    \/ \E w \in Workers : Work(w)
    \/ Shutdown
    \/ Restart
    \/ PeerStarts
    \/ \E t \in Tasks : Evict(t)

Spec == Init /\ [][Next]_vars

\* Handlers and workers run to their end (the executor has a timeout) and
\* Shutdown, once called, goes on.  Nobody has to send, cancel or shut down.
Fairness ==
    /\ \A r \in Requests : WF_vars(Serve(r))
    /\ \A w \in Workers : WF_vars(Work(w))
    /\ WF_vars(ShutdownClose \/ ShutdownCancel \/ ShutdownDone)

FairSpec == Spec /\ Fairness

-----------------------------------------------------------------------------
(* Properties *)

\* A task that readers see as working is being executed, by a worker or by the
\* request that waits for it: neither concurrent executions of the same task
\* nor cancellations nor a restart leave one working for ever.
WorkingHasOwner ==
    \A t \in Tasks : status[t] = "working" =>
        \/ \E w \in Workers : worker[w] = Doing("exec", t)
        \/ \E r \in Requests : request[r].pc = "exec" /\ request[r].task = t

\* The entry of cancelFuncs belongs to an execution of that very task that has
\* not returned: tasks/cancel never cancels the context of another task.
CancelHitsItsTask ==
    \A t \in Tasks : cancelFn[t] # None =>
        /\ worker[cancelFn[t]].task = t
        /\ worker[cancelFn[t]].pc \in {"start", "exec", "cleanup"}

\* Without messages to existing tasks, every execution can be reached by
\* tasks/cancel and by Shutdown until it has written its result.
ExecutionIsCancelable ==
    \A w \in Workers :
        worker[w].pc \in {"start", "exec"} => cancelFn[worker[w].task] = w

\* Without messages to existing tasks, a task is queued or executed once.
ExecutedOnce ==
    /\ \A i, j \in 1 .. Len(queue) : queue[i] = queue[j] => i = j
    /\ \A w \in Workers, i \in 1 .. Len(queue) : worker[w].task # queue[i]
    /\ \A v, w \in Workers :
          v # w => worker[v].task # worker[w].task \/ worker[v].task = None

\* When Shutdown returns, every id accepted into the queue has been handled
\* and no worker will write to the store that is closed next.
QuietAfterShutdown ==
    shut = "done" =>
        /\ queue = <<>>
        /\ \A w \in Workers : worker[w].pc = "exited"
        /\ \A t \in Tasks : cancelFn[t] = None

\* A task that is being executed reaches a terminal state.
WorkingFinishes ==
    \A t \in Tasks : status[t] = "working" ~> status[t] \in Terminal

\* Shutdown returns, although workers first drain the queue and requests that
\* passed the shuttingDown test may still add to it.
ShutdownCompletes == shut = "flagged" ~> shut = "done"

-----------------------------------------------------------------------------
(* What comments and documentation say of tasks. *)

\* "enqueueNonBlocking stores the task and enqueues it for async processing":
\* a submitted task is picked up and finished.
SubmittedFinishes ==
    \A t \in Tasks :
        status[t] = "submitted" ~> status[t] \in Terminal \cup {"absent"}

\* "handleTasksCancel cancels a task if not already in a terminal state":
\* cancelling never replaces a result.
CancelKeepsResults ==
    [][\A t \in Tasks :
          status[t] \in {"completed", "failed"} => status'[t] # "canceled"]_vars

\* "Shutdown gracefully stops the worker pool": no handler panics meanwhile.
NoPanic == ~panicked

\* "blocking_mode: true: Blocks until the task completes": a reader of the
\* store then finds the task in a terminal state.
BlockingResultIsStored ==
    [][\A r \in Requests :
          request[r].pc = "exec" /\ request'[r].pc = "idle"
          => status'[request[r].task] \in Terminal]_vars

=============================================================================
