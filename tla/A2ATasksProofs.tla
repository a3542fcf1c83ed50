--------------------------- MODULE A2ATasksProofs ----------------------------
(***************************************************************************)
(* Proofs about A2ATasks for any number of tasks, workers and requests and *)
(* for both stores.                                                        *)
(***************************************************************************)
EXTENDS A2ATasks, TLAPS

WorkerStates ==
    [pc : {"idle", "fetch", "start", "exec", "cleanup", "exited"}, task : Tasks \cup {None}]
RequestStates ==
    [pc : {"idle", "check", "enqueue", "store", "block", "work", "exec", "cancel"},
     task : Tasks \cup {None}, isNew : BOOLEAN]

\* The types, without the bound on the queue.
Types ==
    /\ status \in [Tasks -> States \cup {"absent"}]
    /\ queue \in Seq(Tasks)
    /\ shut \in {"no", "flagged", "closed", "waiting", "done"}
    /\ worker \in [Workers -> WorkerStates]
    /\ canceled \in [Workers -> BOOLEAN]
    /\ cancelFn \in [Tasks -> Workers \cup {None}]
    /\ request \in [Requests -> RequestStates]

\* A worker leaves only when the queue is closed and drained, and nothing enters a
\* closed queue.
ExitedAfterDrain ==
    \A w \in Workers : worker[w].pc = "exited" => Closed /\ queue = <<>>

\* Requests that wait exist only where clients may ask for it.
WaitsIfAsked ==
    ~Blocking => \A r \in Requests : request[r].pc \notin {"block", "work", "exec"}

\* A handler at work has a task.
RequestsHaveTasks == \A r \in Requests : request[r].pc # "idle" => request[r].task \in Tasks

\* Shutdown has returned only after all workers have.
DoneAfterWorkers == shut = "done" => \A w \in Workers : worker[w].pc = "exited"

IInv ==
    /\ Types
    /\ CancelHitsItsTask
    /\ ExitedAfterDrain
    /\ DoneAfterWorkers
    /\ WaitsIfAsked
    /\ RequestsHaveTasks
    /\ ~(Persistent /\ Blocking) => WorkingHasOwner

-----------------------------------------------------------------------------
(* What steps of one kind leave alone *)

\* A change of requests and of statuses that makes no task working.
LEMMA RequestMoves ==
    ASSUME IInv, NEW r \in Requests, NEW to \in RequestStates,
           request' = [request EXCEPT ![r] = to],
           to.pc \in {"block", "work", "exec"} => Blocking,
           to.pc # "idle" => to.task \in Tasks,
           request[r].pc = "exec" =>
               status'[request[r].task] # "working" \/ (Persistent /\ Blocking),
           status' \in [Tasks -> States \cup {"absent"}],
           \A t \in Tasks : status'[t] = "working" => status[t] = "working",
           UNCHANGED <<shut, worker, cancelFn>>,
           canceled' \in [Workers -> BOOLEAN],
           queue' = queue \/ (~Closed /\ queue' \in Seq(Tasks))
    PROVE  IInv'
<1>1. request' \in [Requests -> RequestStates]
  BY DEF IInv, Types
<1>2. Types'
  BY <1>1 DEF IInv, Types
<1>3. CancelHitsItsTask' /\ ExitedAfterDrain' /\ DoneAfterWorkers'
  BY DEF IInv, CancelHitsItsTask, ExitedAfterDrain, DoneAfterWorkers, Closed
<1>4. WaitsIfAsked' /\ RequestsHaveTasks'
  BY DEF IInv, Types, WaitsIfAsked, RequestsHaveTasks
<1>5. ASSUME ~(Persistent /\ Blocking) PROVE WorkingHasOwner'
  <2> SUFFICES ASSUME NEW t \in Tasks, status'[t] = "working"
               PROVE  \/ \E w \in Workers : worker'[w] = Doing("exec", t)
                      \/ \E x \in Requests : request'[x].pc = "exec" /\ request'[x].task = t
    BY DEF WorkingHasOwner
  <2>1. CASE \E w \in Workers : worker[w] = Doing("exec", t)
    BY <2>1
  <2>2. ASSUME NEW x \in Requests, request[x].pc = "exec", request[x].task = t
        PROVE  request'[x].pc = "exec" /\ request'[x].task = t
    <3>1. x # r
      BY <1>5, <2>2
    <3> QED
      BY <2>2, <3>1 DEF IInv, Types
  <2> QED
    BY <1>5, <2>1, <2>2 DEF IInv, WorkingHasOwner
<1> QED
  BY <1>2, <1>3, <1>4, <1>5 DEF IInv

\* Returning from a handler.
LEMMA Returned == NoRequest \in RequestStates /\ NoRequest.pc = "idle"
BY DEF NoRequest, Asking, RequestStates

\* SendNew, SendExisting, CancelCheck
LEMMA Arrivals ==
    ASSUME IInv, NEW r \in Requests, NEW t \in Tasks,
           SendNew(r, t) \/ SendExisting(r, t) \/ CancelCheck(r, t)
    PROVE  IInv'
<1>1. PICK at \in {"check", "block", "cancel"}, new \in BOOLEAN :
          /\ request' = [request EXCEPT ![r] = Asking(at, t, new)]
          /\ at = "block" => Blocking
  BY Zenon DEF SendNew, SendExisting, CancelCheck
<1>2. /\ Asking(at, t, new) \in RequestStates /\ Asking(at, t, new).pc = at
      /\ Asking(at, t, new).task = t
  BY DEF Asking, RequestStates
<1>3. request[r].pc = "idle" /\ UNCHANGED <<shut, worker, cancelFn, queue>>
  BY Zenon DEF SendNew, SendExisting, CancelCheck, poolVars
<1>4. /\ status' \in [Tasks -> States \cup {"absent"}]
      /\ \A u \in Tasks : status'[u] = "working" => status[u] = "working"
  BY Zenon DEF SendNew, SendExisting, CancelCheck, IInv, Types, States
<1>5. canceled' \in [Workers -> BOOLEAN]
  BY Zenon DEF SendNew, SendExisting, CancelCheck, poolVars, IInv, Types
<1> QED
  BY Zenon, <1>1, <1>2, <1>3, <1>4, <1>5, RequestMoves

\* What StoreTask may do to the statuses.
LEMMA Storing ==
    ASSUME Types, NEW t, NEW new, StoreTask(t, new)
    PROVE  /\ status' \in [Tasks -> States \cup {"absent"}]
           /\ \A u \in Tasks : status'[u] = "working" => status[u] = "working"
BY Zenon DEF StoreTask, Types, States

\* A request moves on from pc to another one, or returns.
LEMMA MovesOn ==
    ASSUME Types, NEW r \in Requests, NEW at \in {"enqueue", "store", "work", "exec"},
           request' = [request EXCEPT ![r].pc = at]
    PROVE  \E to \in RequestStates :
              /\ request' = [request EXCEPT ![r] = to]
              /\ to.pc = at /\ to.task = request[r].task
<1> DEFINE to == [request[r] EXCEPT !.pc = at]
<1>1. request[r] \in RequestStates
  BY DEF Types
<1>2. to \in RequestStates /\ to.pc = at /\ to.task = request[r].task
  BY <1>1 DEF RequestStates
<1>3. request' = [request EXCEPT ![r] = to]
  OBVIOUS
<1> QED
  BY Zenon, <1>2, <1>3

\* Serve, except BlockingWork
LEMMA Serving ==
    ASSUME IInv, NEW r \in Requests,
           \/ CheckShutdown(r) \/ Enqueue(r) \/ StoreEnqueued(r) \/ BlockingStore(r)
           \/ BlockingFinish(r) \/ CancelWrite(r)
    PROVE  IInv'
<1>0. Types /\ UNCHANGED <<shut, worker, cancelFn, canceled>> /\ canceled' \in [Workers -> BOOLEAN]
  BY DEF CheckShutdown, Enqueue, StoreEnqueued, BlockingStore, BlockingFinish, CancelWrite,
         poolVars, IInv, Types
<1>1. PICK to \in RequestStates :
          /\ request' = [request EXCEPT ![r] = to]
          /\ to.pc \in {"block", "work", "exec"} => request[r].pc = "block"
          /\ to.pc # "idle" => to.task = request[r].task /\ request[r].pc # "idle"
  BY <1>0, MovesOn, Returned
  DEF CheckShutdown, Enqueue, StoreEnqueued, BlockingStore, BlockingFinish, CancelWrite, Return
<1>2. (to.pc \in {"block", "work", "exec"} => Blocking) /\ (to.pc # "idle" => to.task \in Tasks)
  BY <1>1 DEF IInv, WaitsIfAsked, RequestsHaveTasks
<1>3. queue' = queue \/ (~Closed /\ queue' \in Seq(Tasks))
  <2>1. CASE Enqueue(r)
    <3>1. CASE ~Closed /\ HasRoom /\ queue' = Append(queue, request[r].task)
      <4>1. request[r].task \in Tasks
        BY <2>1 DEF IInv, Enqueue, RequestsHaveTasks
      <4> QED
        BY <1>0, <3>1, <4>1 DEF Types
    <3> QED
      BY <2>1, <3>1 DEF Enqueue
  <2> QED
    BY <2>1 DEF CheckShutdown, StoreEnqueued, BlockingStore, BlockingFinish, CancelWrite
<1>4. /\ status' \in [Tasks -> States \cup {"absent"}]
      /\ \A u \in Tasks : status'[u] = "working" => status[u] = "working"
  <2>1. CASE StoreEnqueued(r) \/ BlockingStore(r)
    BY <1>0, <2>1, Storing DEF StoreEnqueued, BlockingStore
  <2>2. CASE BlockingFinish(r) \/ CancelWrite(r)
    BY <1>0, <2>2 DEF BlockingFinish, CancelWrite, Types, States, Terminal
  <2>3. CASE CheckShutdown(r) \/ Enqueue(r)
    BY <1>0, <2>3 DEF CheckShutdown, Enqueue, Types
  <2> QED
    BY <2>1, <2>2, <2>3
<1>5. ASSUME request[r].pc = "exec"
      PROVE  status'[request[r].task] # "working" \/ (Persistent /\ Blocking)
  <2>1. BlockingFinish(r) /\ request[r].task \in Tasks /\ Blocking
    BY <1>5 DEF CheckShutdown, Enqueue, StoreEnqueued, BlockingStore, CancelWrite,
                IInv, WaitsIfAsked, RequestsHaveTasks
  <2> QED
    BY <1>0, <2>1 DEF BlockingFinish, Types
<1> QED
  BY Zenon, <1>0, <1>1, <1>2, <1>3, <1>4, <1>5, RequestMoves

\* BlockingWork
LEMMA Waiting ==
    ASSUME IInv, NEW r \in Requests, BlockingWork(r)
    PROVE  IInv'
<1>0. /\ Types /\ UNCHANGED <<shut, worker, cancelFn, canceled, queue>>
      /\ request[r].pc = "work" /\ request[r].task \in Tasks
  BY DEF BlockingWork, poolVars, IInv, RequestsHaveTasks
<1>1. PICK to \in RequestStates :
          /\ request' = [request EXCEPT ![r] = to] /\ to.pc = "exec" /\ to.task = request[r].task
  BY Zenon, <1>0, MovesOn DEF BlockingWork
<1>2. request'[r] = to /\ \A x \in Requests \ {r} : request'[x] = request[x]
  BY <1>0, <1>1 DEF Types
<1>3. status' = [status EXCEPT ![request[r].task] = "working"]
  BY DEF BlockingWork
<1>4. Types'
  BY <1>0, <1>1, <1>3 DEF Types, States
<1>5. CancelHitsItsTask' /\ ExitedAfterDrain' /\ DoneAfterWorkers'
  BY <1>0 DEF IInv, CancelHitsItsTask, ExitedAfterDrain, DoneAfterWorkers, Closed
<1>6. WaitsIfAsked' /\ RequestsHaveTasks'
  BY <1>0, <1>1, <1>2 DEF IInv, WaitsIfAsked, RequestsHaveTasks
<1>7. ASSUME ~(Persistent /\ Blocking) PROVE WorkingHasOwner'
  <2> SUFFICES ASSUME NEW t \in Tasks, status'[t] = "working"
               PROVE  \/ \E w \in Workers : worker'[w] = Doing("exec", t)
                      \/ \E x \in Requests : request'[x].pc = "exec" /\ request'[x].task = t
    BY DEF WorkingHasOwner
  <2>1. CASE t = request[r].task
    BY <1>1, <1>2, <2>1
  <2>2. CASE t # request[r].task
    <3>1. status[t] = "working"
      BY <1>0, <1>3, <2>2 DEF Types
    <3>2. ASSUME NEW x \in Requests, request[x].pc = "exec", request[x].task = t
          PROVE  request'[x].pc = "exec" /\ request'[x].task = t
      BY <1>0, <1>2, <3>2
    <3> QED
      BY <1>0, <1>7, <3>1, <3>2 DEF IInv, WorkingHasOwner
  <2> QED
    BY <2>1, <2>2
<1> QED
  BY <1>4, <1>5, <1>6, <1>7 DEF IInv

\* A step of worker w, which makes no task working but its own.
LEMMA WorkerMoves ==
    ASSUME IInv, NEW w \in Workers, NEW to \in WorkerStates,
           worker[w].pc # "exited",
           worker' = [worker EXCEPT ![w] = to],
           to.pc = "exited" => Closed /\ queue = <<>>,
           worker[w].pc = "exec" => \A t \in Tasks : t = worker[w].task => status'[t] # "working",
           status' \in [Tasks -> States \cup {"absent"}],
           \A t \in Tasks : status'[t] = "working" =>
               status[t] = "working" \/ to = Doing("exec", t),
           UNCHANGED <<shut, request>>,
           canceled' \in [Workers -> BOOLEAN],
           queue' \in Seq(Tasks), queue = <<>> => queue' = queue,
           CancelHitsItsTask', cancelFn' \in [Tasks -> Workers \cup {None}]
    PROVE  IInv'
<1>1. worker'[w] = to /\ \A v \in Workers \ {w} : worker'[v] = worker[v]
  BY DEF IInv, Types
<1>2. Types'
  BY Zenon DEF IInv, Types
<1>3. ExitedAfterDrain' /\ DoneAfterWorkers' /\ WaitsIfAsked' /\ RequestsHaveTasks'
  BY <1>1 DEF IInv, ExitedAfterDrain, DoneAfterWorkers, WaitsIfAsked, RequestsHaveTasks, Closed
<1>4. ASSUME ~(Persistent /\ Blocking) PROVE WorkingHasOwner'
  <2> SUFFICES ASSUME NEW t \in Tasks, status'[t] = "working"
               PROVE  \/ \E v \in Workers : worker'[v] = Doing("exec", t)
                      \/ \E x \in Requests : request'[x].pc = "exec" /\ request'[x].task = t
    BY DEF WorkingHasOwner
  <2>1. CASE to = Doing("exec", t)
    BY <1>1, <2>1
  <2>2. CASE status[t] = "working"
    <3>1. ASSUME NEW v \in Workers, worker[v] = Doing("exec", t)
          PROVE  worker'[v] = Doing("exec", t)
      <4>1. worker[v].pc = "exec" /\ worker[v].task = t
        BY <3>1 DEF Doing
      <4>2. v # w
        BY <4>1
      <4> QED
        BY <1>1, <3>1, <4>2
    <3> QED
      BY <1>4, <2>2, <3>1 DEF IInv, WorkingHasOwner
  <2> QED
    BY <2>1, <2>2
<1> QED
  BY <1>2, <1>3, <1>4 DEF IInv

\* Take, Exit
LEMMA Receiving ==
    ASSUME IInv, NEW w \in Workers, Take(w) \/ Exit(w)
    PROVE  IInv'
<1>0. /\ Types /\ worker[w].pc = "idle"
      /\ UNCHANGED <<status, shut, request, canceled, cancelFn>>
  BY DEF Take, Exit, IInv
<1>1. ASSUME NEW to, worker' = [worker EXCEPT ![w] = to]
      PROVE  CancelHitsItsTask'
  <2> SUFFICES ASSUME NEW t \in Tasks, cancelFn[t] # None
               PROVE  /\ worker'[cancelFn[t]].task = t
                      /\ worker'[cancelFn[t]].pc \in {"start", "exec", "cleanup"}
    BY <1>0 DEF CancelHitsItsTask
  <2>1. cancelFn[t] \in Workers /\ cancelFn[t] # w
    BY <1>0 DEF IInv, CancelHitsItsTask, Types
  <2> QED
    BY <1>0, <1>1, <2>1 DEF IInv, CancelHitsItsTask, Types
<1>2. CASE Take(w)
  <2> DEFINE to == Doing("fetch", Head(queue))
  <2>1. queue # <<>> /\ queue' = Tail(queue) /\ worker' = [worker EXCEPT ![w] = to]
    BY <1>2 DEF Take
  <2>2. Head(queue) \in Tasks /\ queue' \in Seq(Tasks)
    BY <1>0, <2>1 DEF Types
  <2>3. to \in WorkerStates /\ to.pc = "fetch"
    BY <2>2 DEF Doing, WorkerStates
  <2> QED
    BY Zenon, <1>0, <1>1, <2>1, <2>2, <2>3, WorkerMoves DEF Types
<1>3. CASE Exit(w)
  <2> DEFINE to == Doing("exited", None)
  <2>1. queue = <<>> /\ queue' = queue /\ Closed /\ worker' = [worker EXCEPT ![w] = to]
    BY <1>3 DEF Exit
  <2>2. to \in WorkerStates /\ to.pc = "exited"
    BY DEF Doing, WorkerStates
  <2> QED
    BY Zenon, <1>0, <1>1, <2>1, <2>2, WorkerMoves DEF Types
<1> QED
  BY <1>2, <1>3

\* Fetch
LEMMA Fetching ==
    ASSUME IInv, NEW w \in Workers, Fetch(w)
    PROVE  IInv'
<1> DEFINE t == worker[w].task
<1>0. /\ Types /\ worker[w].pc = "fetch" /\ worker[w] \in WorkerStates
      /\ UNCHANGED <<status, shut, request, queue>>
  BY DEF Fetch, IInv, Types
<1>1. ASSUME NEW u \in Tasks PROVE cancelFn[u] # w
  BY <1>0, ConstantsAssumption DEF IInv, CancelHitsItsTask
<1>2. CASE worker' = [worker EXCEPT ![w] = Idle] /\ UNCHANGED <<canceled, cancelFn>>
  <2>1. Idle \in WorkerStates /\ Idle.pc = "idle"
    BY DEF Idle, Doing, WorkerStates
  <2>2. CancelHitsItsTask'
    BY <1>0, <1>1, <1>2 DEF IInv, CancelHitsItsTask, Types
  <2> QED
    BY Zenon, <1>0, <1>2, <2>1, <2>2, WorkerMoves DEF Types
<1>3. CASE t \in Stored /\ worker' = [worker EXCEPT ![w].pc = "start"] /\ Register(w, t)
  <2> DEFINE to == [worker[w] EXCEPT !.pc = "start"]
  <2>1. to \in WorkerStates /\ to.pc = "start" /\ to.task = t
        /\ worker' = [worker EXCEPT ![w] = to]
    BY <1>0, <1>3 DEF WorkerStates
  <2>2. t \in Tasks /\ cancelFn' = [cancelFn EXCEPT ![t] = w]
        /\ canceled' = [canceled EXCEPT ![w] = FALSE]
    BY <1>3 DEF Register, Stored
  <2>3. cancelFn' \in [Tasks -> Workers \cup {None}] /\ canceled' \in [Workers -> BOOLEAN]
    BY <1>0, <2>2 DEF Types
  <2> HIDE DEF to
  <2>4. CancelHitsItsTask'
    <3> SUFFICES ASSUME NEW u \in Tasks, cancelFn'[u] # None
                 PROVE  /\ worker'[cancelFn'[u]].task = u
                        /\ worker'[cancelFn'[u]].pc \in {"start", "exec", "cleanup"}
      BY DEF CancelHitsItsTask
    <3>1. CASE u = t
      BY <1>0, <2>1, <2>2, <3>1 DEF Types
    <3>2. CASE u # t
      <4>1. cancelFn'[u] = cancelFn[u] /\ cancelFn[u] \in Workers \ {w}
        BY <1>0, <1>1, <2>2, <3>2 DEF Types
      <4> QED
        BY <1>0, <2>1, <4>1 DEF IInv, CancelHitsItsTask, Types
    <3> QED
      BY <3>1, <3>2
  <2> QED
    BY Zenon, <1>0, <2>1, <2>3, <2>4, WorkerMoves DEF Types
<1> QED
  BY <1>2, <1>3 DEF Fetch

\* Start, Finish
LEMMA Executing ==
    ASSUME IInv, NEW w \in Workers, Start(w) \/ Finish(w)
    PROVE  IInv'
<1> DEFINE t == worker[w].task
<1>0. /\ Types /\ worker[w].pc \in {"start", "exec"} /\ worker[w] \in WorkerStates
      /\ UNCHANGED <<shut, request, queue, canceled, cancelFn>>
  BY DEF Start, Finish, IInv, Types
<1>1. PICK at \in {"exec", "cleanup"}, new \in States :
          /\ worker' = [worker EXCEPT ![w].pc = at]
          /\ status' = [status EXCEPT ![t] = new]
          /\ new = "working" => at = "exec" /\ worker[w].pc = "start"
  BY DEF Start, Finish, Outcome, States, Terminal
<1> DEFINE to == [worker[w] EXCEPT !.pc = at]
<1>2. /\ to \in WorkerStates /\ to.pc = at /\ to.task = t /\ worker' = [worker EXCEPT ![w] = to]
      /\ at = "exec" => to = Doing("exec", t)
  BY <1>0, <1>1 DEF WorkerStates, Doing
<1>3. status' \in [Tasks -> States \cup {"absent"}]
  BY Zenon, <1>0, <1>1 DEF Types
<1> HIDE DEF to
<1>4. CancelHitsItsTask'
  <2> SUFFICES ASSUME NEW u \in Tasks, cancelFn[u] # None
               PROVE  /\ worker'[cancelFn[u]].task = u
                      /\ worker'[cancelFn[u]].pc \in {"start", "exec", "cleanup"}
    BY <1>0 DEF CancelHitsItsTask
  <2>1. cancelFn[u] \in Workers /\ worker[cancelFn[u]].task = u
    BY <1>0 DEF Types, IInv, CancelHitsItsTask
  <2>2. CASE cancelFn[u] = w
    BY <1>0, <1>2, <2>1, <2>2 DEF Types
  <2>3. CASE cancelFn[u] # w
    BY <1>0, <1>2, <2>1, <2>3 DEF IInv, CancelHitsItsTask, Types
  <2> QED
    BY <2>2, <2>3
<1>5. \A u \in Tasks : status'[u] = "working" => status[u] = "working" \/ to = Doing("exec", u)
  BY <1>0, <1>1, <1>2 DEF Types
<1>6. worker[w].pc = "exec" => \A u \in Tasks : u = t => status'[u] # "working"
  BY <1>0, <1>1 DEF Types
<1> QED
  BY Zenon, <1>0, <1>2, <1>3, <1>4, <1>5, <1>6, WorkerMoves DEF Types

\* Cleanup
LEMMA Cleaning ==
    ASSUME IInv, NEW w \in Workers, Cleanup(w)
    PROVE  IInv'
<1> DEFINE t == worker[w].task
<1>0. /\ Types /\ worker[w].pc = "cleanup"
      /\ UNCHANGED <<status, shut, request, queue, canceled>>
      /\ cancelFn' = [cancelFn EXCEPT ![t] = None] /\ worker' = [worker EXCEPT ![w] = Idle]
  BY DEF Cleanup, IInv
<1>1. Idle \in WorkerStates /\ Idle.pc = "idle"
  BY DEF Idle, Doing, WorkerStates
<1>2. cancelFn' \in [Tasks -> Workers \cup {None}]
  BY Zenon, <1>0 DEF Types
<1>3. CancelHitsItsTask'
  <2> SUFFICES ASSUME NEW u \in Tasks, cancelFn'[u] # None
               PROVE  /\ worker'[cancelFn'[u]].task = u
                      /\ worker'[cancelFn'[u]].pc \in {"start", "exec", "cleanup"}
    BY DEF CancelHitsItsTask
  <2>1. u # t /\ cancelFn'[u] = cancelFn[u]
    BY <1>0 DEF Types
  <2>2. cancelFn[u] \in Workers /\ cancelFn[u] # w
    BY <1>0, <2>1 DEF IInv, CancelHitsItsTask, Types
  <2> QED
    BY <1>0, <2>1, <2>2 DEF IInv, CancelHitsItsTask, Types
<1> QED
  BY Zenon, <1>0, <1>1, <1>2, <1>3, WorkerMoves DEF Types

\* Shutdown
LEMMA Stopping ==
    ASSUME IInv, Shutdown
    PROVE  IInv'
<1>1. /\ shut' \in {"no", "flagged", "closed", "waiting", "done"}
      /\ Closed => Closed'
      /\ shut' = "done" => \A w \in Workers : worker[w].pc = "exited"
  BY DEF Shutdown, ShutdownFlag, ShutdownClose, ShutdownCancel, ShutdownDone, Closed
<1>2. UNCHANGED <<status, queue, worker, cancelFn, request>>
  BY DEF Shutdown, ShutdownFlag, ShutdownClose, ShutdownCancel, ShutdownDone, poolVars
<1>3. canceled' \in [Workers -> BOOLEAN]
  <2>1. CASE ShutdownCancel
    BY <2>1 DEF ShutdownCancel, IInv, Types
  <2> QED
    BY <2>1 DEF Shutdown, ShutdownFlag, ShutdownClose, ShutdownDone, poolVars, IInv, Types
<1>4. Types' /\ ExitedAfterDrain' /\ DoneAfterWorkers'
  BY <1>1, <1>2, <1>3 DEF IInv, Types, ExitedAfterDrain, DoneAfterWorkers
<1>5. CancelHitsItsTask' /\ WaitsIfAsked' /\ RequestsHaveTasks'
      /\ (WorkingHasOwner => WorkingHasOwner')
  BY <1>2 DEF IInv, CancelHitsItsTask, WaitsIfAsked, RequestsHaveTasks, WorkingHasOwner
<1> QED
  BY <1>4, <1>5 DEF IInv

\* No task is working after RecoverStale.
LEMMA Recovered ==
    ASSUME Types, status' = RecoverStale
    PROVE  status' \in [Tasks -> States \cup {"absent"}]
           /\ \A t \in Tasks : status'[t] # "working"
BY DEF Types, RecoverStale, States, Terminal

\* Restart
LEMMA Restarting ==
    ASSUME IInv, Restart
    PROVE  IInv'
<1>1. Idle \in WorkerStates /\ Idle.pc = "idle"
  BY DEF Idle, Doing, WorkerStates
<1>2. /\ status' \in [Tasks -> States \cup {"absent"}]
      /\ \A t \in Tasks : status'[t] # "working"
  BY Recovered DEF Restart, IInv
<1>3. Types'
  BY <1>1, <1>2, Returned DEF Restart, Types
<1>4. CancelHitsItsTask' /\ ExitedAfterDrain' /\ DoneAfterWorkers'
  BY <1>1 DEF Restart, CancelHitsItsTask, ExitedAfterDrain, DoneAfterWorkers
<1>5. WaitsIfAsked' /\ RequestsHaveTasks'
  BY Returned DEF Restart, WaitsIfAsked, RequestsHaveTasks
<1>6. WorkingHasOwner'
  BY <1>2 DEF WorkingHasOwner
<1> QED
  BY <1>3, <1>4, <1>5, <1>6 DEF IInv

\* A step of nothing but statuses that makes no task working.
LEMMA StatusMoves ==
    ASSUME IInv, UNCHANGED <<queue, shut, worker, canceled, cancelFn, request>>,
           status' \in [Tasks -> States \cup {"absent"}],
           \A t \in Tasks : status'[t] = "working" => status[t] = "working"
    PROVE  IInv'
BY DEF IInv, Types, CancelHitsItsTask, ExitedAfterDrain, DoneAfterWorkers, WaitsIfAsked,
       RequestsHaveTasks, WorkingHasOwner, Closed

\* The invariant is kept.
LEMMA Inductive ==
    ASSUME IInv, [Next]_vars
    PROVE  IInv'
<1>1. CASE PeerStarts
  BY <1>1, Recovered, StatusMoves DEF PeerStarts, poolVars, IInv
<1>2. ASSUME NEW t \in Tasks, Evict(t) PROVE IInv'
  BY <1>2, StatusMoves DEF Evict, poolVars, IInv, Types
<1>3. CASE UNCHANGED vars
  BY <1>3, StatusMoves DEF vars, poolVars, IInv, Types
<1>4. ASSUME NEW r \in Requests, Serve(r) PROVE IInv'
  BY <1>4, Serving, Waiting DEF Serve
<1>5. ASSUME NEW w \in Workers, Work(w) PROVE IInv'
  BY <1>5, Receiving, Fetching, Executing, Cleaning DEF Work
<1> QED
  BY <1>1, <1>2, <1>3, <1>4, <1>5, Arrivals, Stopping, Restarting DEF Next

\* Initially there are no tasks and every worker waits.
LEMMA Initially == Init => IInv
<1> SUFFICES ASSUME Init PROVE IInv
  OBVIOUS
<1>1. Idle \in WorkerStates /\ Idle.pc = "idle"
  BY DEF Idle, Doing, WorkerStates
<1>2. Types
  BY <1>1, Returned DEF Init, InitWith, Types
<1>3. CancelHitsItsTask /\ ExitedAfterDrain /\ DoneAfterWorkers /\ WorkingHasOwner
  BY <1>1 DEF Init, InitWith, CancelHitsItsTask, ExitedAfterDrain, DoneAfterWorkers, WorkingHasOwner
<1>4. WaitsIfAsked /\ RequestsHaveTasks
  BY Returned DEF Init, InitWith, WaitsIfAsked, RequestsHaveTasks
<1> QED
  BY <1>2, <1>3, <1>4 DEF IInv

\* handleTasksCancel and the deferred function of executeTask: an entry of cancelFuncs
\* always belongs to an execution of its own task that has not returned.
THEOREM Cancellation == Spec => []CancelHitsItsTask
<1>1. IInv /\ [Next]_vars => IInv'
  BY Inductive
<1>2. IInv => CancelHitsItsTask
  BY DEF IInv
<1> QED
  BY Initially, <1>1, <1>2, PTL DEF Spec

\* executeTask, tasks/cancel, RecoverStale and evictExpired: no task is left working
\* without an execution, in either store, as long as clients of the database store do not
\* wait for results (handleMessageSendBlockingWithMode does not write them).
THEOREM Ownership == ASSUME ~(Persistent /\ Blocking) PROVE Spec => []WorkingHasOwner
<1>1. IInv /\ [Next]_vars => IInv'
  BY Inductive
<1>2. IInv => WorkingHasOwner
  BY DEF IInv
<1> QED
  BY Initially, <1>1, <1>2, PTL DEF Spec

\* Shutdown: when it returns the queue is drained, all workers have returned and nothing
\* is left to cancel.
THEOREM Quiet == Spec => []QuietAfterShutdown
<1>1. IInv /\ [Next]_vars => IInv'
  BY Inductive
<1>2. IInv => QuietAfterShutdown
  <2> SUFFICES ASSUME IInv, shut = "done"
               PROVE  /\ queue = <<>>
                      /\ \A w \in Workers : worker[w].pc = "exited"
                      /\ \A t \in Tasks : cancelFn[t] = None
    BY DEF QuietAfterShutdown
  <2>1. \A w \in Workers : worker[w].pc = "exited"
    BY DEF IInv, DoneAfterWorkers
  <2>2. queue = <<>>
    BY <2>1, ConstantsAssumption DEF IInv, ExitedAfterDrain
  <2>3. \A t \in Tasks : cancelFn[t] = None
    BY <2>1 DEF IInv, Types, CancelHitsItsTask
  <2> QED
    BY <2>1, <2>2, <2>3
<1> QED
  BY Initially, <1>1, <1>2, PTL DEF Spec
-----------------------------------------------------------------------------
(***************************************************************************)
(* One execution per task.  Without messages to existing tasks, an id is   *)
(* drawn once and is then in one place at a time: with the request that    *)
(* drew it, in the queue, or with a worker.                                *)
(***************************************************************************)

\* The request has an id that it has not put into the queue.
Holding(r) == request[r].pc \in {"check", "enqueue", "block", "work", "exec"}

\* What is in one of the places is not in another, and none of it can be drawn again.
OnePlace ==
    /\ \A i \in 1 .. Len(queue) : queue[i] \notin unused
    /\ \A w \in Workers : worker[w].task \notin unused
    /\ \A r \in Requests : Holding(r) =>
          /\ request[r].task \notin unused
          /\ \A i \in 1 .. Len(queue) : request[r].task # queue[i]
          /\ \A w \in Workers : request[r].task # worker[w].task
          /\ \A q \in Requests : q # r /\ Holding(q) => request[r].task # request[q].task

\* A worker at work has a task.
WorkersHaveTasks ==
    \A w \in Workers : worker[w].pc \notin {"idle", "exited"} => worker[w].task \in Tasks

OnceInv ==
    /\ unused \subseteq Tasks
    /\ WorkersHaveTasks
    /\ OnePlace
    /\ ExecutedOnce
    /\ ExecutionIsCancelable

\* A request that moves takes up no id it did not have.
LEMMA OnceIfRequestMoves ==
    ASSUME IInv, OnceInv, NEW r \in Requests, NEW to,
           request' = [request EXCEPT ![r] = to],
           to.pc \in {"check", "enqueue", "block", "work", "exec"}
               => Holding(r) /\ to.task = request[r].task,
           UNCHANGED <<unused, queue, worker, cancelFn>>
    PROVE  OnceInv'
<1>1. ASSUME NEW q \in Requests, Holding(q)'
      PROVE  Holding(q) /\ request'[q].task = request[q].task
  BY <1>1 DEF Holding, IInv, Types
<1>2. OnePlace'
  BY <1>1 DEF OnceInv, OnePlace
<1>3. (unused \subseteq Tasks)' /\ WorkersHaveTasks' /\ ExecutedOnce' /\ ExecutionIsCancelable'
  BY DEF OnceInv, WorkersHaveTasks, ExecutedOnce, ExecutionIsCancelable
<1> QED
  BY <1>2, <1>3 DEF OnceInv

\* SendNew
LEMMA OnceIfDrawn ==
    ASSUME IInv, OnceInv, NEW r \in Requests, NEW t \in Tasks, SendNew(r, t)
    PROVE  OnceInv'
<1>1. /\ t \in unused /\ unused' = unused \ {t} /\ ~Holding(r)
      /\ UNCHANGED <<queue, worker, cancelFn>>
  BY DEF SendNew, poolVars, Holding
<1>2. PICK at : request' = [request EXCEPT ![r] = Asking(at, t, TRUE)]
  BY Zenon DEF SendNew
<1>3. request'[r].task = t /\ \A q \in Requests \ {r} : request'[q] = request[q]
  BY <1>2 DEF Asking, IInv, Types
<1>4. \A q \in Requests \ {r} : Holding(q)' => Holding(q) /\ request'[q].task # t
  BY <1>1, <1>3 DEF Holding, OnceInv, OnePlace
<1>5. OnePlace'
  BY <1>1, <1>3, <1>4 DEF OnceInv, OnePlace
<1>6. (unused \subseteq Tasks)' /\ WorkersHaveTasks' /\ ExecutedOnce' /\ ExecutionIsCancelable'
  BY <1>1 DEF OnceInv, WorkersHaveTasks, ExecutedOnce, ExecutionIsCancelable
<1> QED
  BY <1>5, <1>6 DEF OnceInv

\* Enqueue
LEMMA OnceIfQueued ==
    ASSUME IInv, OnceInv, NEW r \in Requests, request[r].pc = "enqueue",
           queue' = Append(queue, request[r].task),
           request' = [request EXCEPT ![r].pc = "store"],
           UNCHANGED <<unused, worker, cancelFn>>
    PROVE  OnceInv'
<1> DEFINE t == request[r].task
<1>1. Holding(r) /\ t \in Tasks /\ queue \in Seq(Tasks)
  BY DEF Holding, IInv, Types, RequestsHaveTasks
<1>2. /\ Len(queue') = Len(queue) + 1 /\ queue'[Len(queue) + 1] = t
      /\ \A i \in 1 .. Len(queue) : queue'[i] = queue[i]
      /\ Len(queue) \in Nat
  BY <1>1
<1>3. \A q \in Requests : Holding(q)' => q # r /\ Holding(q) /\ request'[q].task = request[q].task
  BY DEF Holding, IInv, Types
<1>4. \A q \in Requests : Holding(q)' => request'[q].task # t
  BY <1>1, <1>3 DEF OnceInv, OnePlace
<1>5. \A i \in 1 .. Len(queue') : queue'[i] = t \/ (i \in 1 .. Len(queue) /\ queue'[i] = queue[i])
  BY <1>2
<1>6. /\ t \notin unused /\ \A w \in Workers : t # worker[w].task
      /\ \A i \in 1 .. Len(queue) : t # queue[i]
  BY <1>1 DEF OnceInv, OnePlace
<1> HIDE DEF t
<1>7. OnePlace'
  <2>1. \A i \in 1 .. Len(queue') : queue'[i] \notin unused
    BY <1>5, <1>6 DEF OnceInv, OnePlace
  <2>2. ASSUME NEW q \in Requests, Holding(q)'
        PROVE  /\ request'[q].task \notin unused
               /\ \A i \in 1 .. Len(queue') : request'[q].task # queue'[i]
               /\ \A w \in Workers : request'[q].task # worker[w].task
               /\ \A p \in Requests : p # q /\ Holding(p)' => request'[q].task # request'[p].task
    BY <1>3, <1>4, <1>5, <2>2 DEF OnceInv, OnePlace
  <2> QED
    BY <2>1, <2>2 DEF OnceInv, OnePlace
<1>8. ExecutedOnce'
  <2>1. \A i, j \in 1 .. Len(queue') : queue'[i] = queue'[j] => i = j
    BY <1>2, <1>6 DEF OnceInv, ExecutedOnce
  <2>2. \A w \in Workers, i \in 1 .. Len(queue') : worker[w].task # queue'[i]
    BY <1>5, <1>6 DEF OnceInv, ExecutedOnce
  <2> QED
    BY <2>1, <2>2 DEF OnceInv, ExecutedOnce
<1>9. (unused \subseteq Tasks)' /\ WorkersHaveTasks' /\ ExecutionIsCancelable'
  BY DEF OnceInv, WorkersHaveTasks, ExecutionIsCancelable
<1> QED
  BY <1>7, <1>8, <1>9 DEF OnceInv

\* Serve
LEMMA OnceIfServed ==
    ASSUME IInv, OnceInv, NEW r \in Requests, Serve(r)
    PROVE  OnceInv'
<1>1. CASE /\ Enqueue(r) /\ queue' = Append(queue, request[r].task)
           /\ request' = [request EXCEPT ![r].pc = "store"]
  BY Zenon, <1>1, OnceIfQueued DEF Enqueue, poolVars
<1>2. CASE Return(r) /\ UNCHANGED <<unused, queue, worker, cancelFn>>
  BY Zenon, <1>2, Returned, OnceIfRequestMoves DEF Return
<1>3. ASSUME NEW at \in {"enqueue", "work", "exec"}, Holding(r),
             request' = [request EXCEPT ![r].pc = at],
             UNCHANGED <<unused, queue, worker, cancelFn>>
      PROVE  OnceInv'
  BY ZenonT(40), <1>3, MovesOn, OnceIfRequestMoves DEF IInv
<1>4. CASE CheckShutdown(r)
  BY <1>2, <1>3, <1>4 DEF CheckShutdown, poolVars, Holding
<1>5. CASE Enqueue(r)
  BY Zenon, <1>1, <1>2, <1>5 DEF Enqueue, poolVars
<1>6. CASE BlockingStore(r) \/ BlockingWork(r)
  BY <1>2, <1>3, <1>6 DEF BlockingStore, BlockingWork, poolVars, Holding
<1>7. CASE StoreEnqueued(r) \/ BlockingFinish(r) \/ CancelWrite(r)
  BY <1>2, <1>7 DEF StoreEnqueued, BlockingFinish, CancelWrite, poolVars
<1> QED
  BY <1>4, <1>5, <1>6, <1>7 DEF Serve

\* Take
LEMMA OnceIfTaken ==
    ASSUME IInv, OnceInv, NEW w \in Workers, Take(w)
    PROVE  OnceInv'
<1> DEFINE t == Head(queue)
<1>1. /\ worker[w].pc = "idle" /\ queue # <<>> /\ queue \in Seq(Tasks)
      /\ worker' = [worker EXCEPT ![w] = Doing("fetch", t)] /\ queue' = Tail(queue)
      /\ UNCHANGED <<unused, request, cancelFn>>
  BY DEF Take, IInv, Types
<1>2. /\ Len(queue) \in Nat /\ Len(queue) >= 1 /\ t = queue[1] /\ Len(queue') = Len(queue) - 1
      /\ \A i \in 1 .. Len(queue') : i + 1 \in 1 .. Len(queue) /\ queue'[i] = queue[i + 1]
  BY <1>1
<1>3. /\ worker'[w].task = t /\ worker'[w].pc = "fetch"
      /\ \A v \in Workers \ {w} : worker'[v] = worker[v]
  BY <1>1 DEF Doing, IInv, Types
<1>4. /\ 1 \in 1 .. Len(queue) /\ t \in Tasks
      /\ \A i \in 1 .. Len(queue') : queue'[i] # t
  <2>1. \A i \in 1 .. Len(queue') : i + 1 # 1
    BY <1>2
  <2>2. 1 \in 1 .. Len(queue)
    BY <1>2
  <2> QED
    BY <1>1, <1>2, <2>1, <2>2 DEF OnceInv, ExecutedOnce
<1>5. t \notin unused /\ \A v \in Workers : worker[v].task # t
  BY <1>2, <1>4 DEF OnceInv, OnePlace, ExecutedOnce
<1>6. \A r \in Requests : Holding(r)' <=> Holding(r)
  BY <1>1 DEF Holding
<1> HIDE DEF t
<1>7. OnePlace'
  <2>1. ASSUME NEW r \in Requests, Holding(r)
        PROVE  /\ \A i \in 1 .. Len(queue') : request[r].task # queue'[i]
               /\ \A v \in Workers : request[r].task # worker'[v].task
    BY <1>2, <1>3, <1>4, <2>1 DEF OnceInv, OnePlace
  <2>2. /\ \A i \in 1 .. Len(queue') : queue'[i] \notin unused
        /\ \A v \in Workers : worker'[v].task \notin unused
    BY <1>2, <1>3, <1>5 DEF OnceInv, OnePlace
  <2> QED
    BY <1>1, <1>6, <2>1, <2>2 DEF OnceInv, OnePlace
<1>8. ExecutedOnce'
  <2>1. \A i, j \in 1 .. Len(queue') : queue'[i] = queue'[j] => i = j
    BY <1>2 DEF OnceInv, ExecutedOnce
  <2>2. \A v \in Workers, i \in 1 .. Len(queue') : worker'[v].task # queue'[i]
    BY <1>2, <1>3, <1>4 DEF OnceInv, ExecutedOnce
  <2>3. \A u, v \in Workers : u # v /\ worker'[u].task # None => worker'[u].task # worker'[v].task
    BY <1>3, <1>5 DEF OnceInv, ExecutedOnce
  <2> QED
    BY <2>1, <2>2, <2>3 DEF ExecutedOnce
<1>9. (unused \subseteq Tasks)' /\ WorkersHaveTasks' /\ ExecutionIsCancelable'
  BY <1>1, <1>3, <1>4 DEF OnceInv, WorkersHaveTasks, ExecutionIsCancelable
<1> QED
  BY <1>7, <1>8, <1>9 DEF OnceInv

\* A worker that goes on with its task, or leaves it.
LEMMA OnceIfWorkerMoves ==
    ASSUME IInv, OnceInv, NEW w \in Workers, NEW to,
           worker' = [worker EXCEPT ![w] = to],
           to.task = worker[w].task \/ to.task = None,
           WorkersHaveTasks', ExecutionIsCancelable',
           UNCHANGED <<unused, queue, request>>
    PROVE  OnceInv'
<1>1. /\ worker'[w].task \in {worker[w].task, None}
      /\ \A v \in Workers \ {w} : worker'[v].task = worker[v].task
  BY DEF IInv, Types
<1>2. None \notin Tasks /\ queue \in Seq(Tasks)
  BY ConstantsAssumption DEF IInv, Types
<1>3. None \notin unused /\ \A i \in 1 .. Len(queue) : queue[i] # None
  BY <1>2 DEF OnceInv
<1>4. \A r \in Requests : (Holding(r)' <=> Holding(r)) /\ (Holding(r) => request[r].task # None)
  BY <1>2 DEF Holding, IInv, RequestsHaveTasks
<1>5. OnePlace'
  BY <1>1, <1>3, <1>4 DEF OnceInv, OnePlace
<1>6. ExecutedOnce'
  BY <1>1, <1>3 DEF OnceInv, ExecutedOnce
<1> QED
  BY <1>5, <1>6 DEF OnceInv

\* Exit, Fetch, Start, Finish, Cleanup
LEMMA OnceIfWorked ==
    ASSUME IInv, OnceInv, NEW w \in Workers,
           Exit(w) \/ Fetch(w) \/ Start(w) \/ Finish(w) \/ Cleanup(w)
    PROVE  OnceInv'
<1>1. \A v \in Workers \ {w} : worker'[v] = worker[v]
  BY DEF Exit, Fetch, Start, Finish, Cleanup, IInv, Types
<1>2. UNCHANGED <<unused, queue, request>>
  BY DEF Exit, Fetch, Start, Finish, Cleanup
<1>3. worker[w] \in WorkerStates /\ worker \in [Workers -> WorkerStates]
  BY DEF IInv, Types
<1>4. /\ worker' = [worker EXCEPT ![w] = worker'[w]]
      /\ worker'[w].task = worker[w].task \/ worker'[w].task = None
      /\ worker'[w].pc \in {"start", "exec"} =>
            /\ worker'[w].task = worker[w].task
            /\ Start(w) \/ (Fetch(w) /\ Register(w, worker[w].task))
  <2>1. CASE Exit(w)
    BY <1>3, <2>1 DEF Exit, Doing
  <2>2. CASE Cleanup(w) \/ (Fetch(w) /\ worker' = [worker EXCEPT ![w] = Idle])
    BY <1>3, <2>2 DEF Cleanup, Idle, Doing
  <2>3. CASE Fetch(w) /\ Register(w, worker[w].task) /\ worker' = [worker EXCEPT ![w].pc = "start"]
    BY <1>3, <2>3 DEF WorkerStates
  <2>4. CASE Start(w) \/ Finish(w)
    BY <1>3, <2>4 DEF Start, Finish, WorkerStates
  <2> QED
    BY <2>1, <2>2, <2>3, <2>4 DEF Fetch
<1>5. ExecutionIsCancelable'
  <2> SUFFICES ASSUME NEW v \in Workers, worker'[v].pc \in {"start", "exec"}
               PROVE  cancelFn'[worker'[v].task] = v
    BY DEF ExecutionIsCancelable
  <2>1. worker[w].task \in Tasks \cup {None} /\ cancelFn \in [Tasks -> Workers \cup {None}]
    BY <1>3 DEF WorkerStates, IInv, Types
  <2>2. CASE v = w /\ Start(w)
    BY <1>4, <2>2 DEF Start, OnceInv, ExecutionIsCancelable
  <2>3. CASE v = w /\ Fetch(w) /\ Register(w, worker[w].task)
    <3>1. worker[w].task \in Tasks
      BY <2>3 DEF Fetch, OnceInv, WorkersHaveTasks
    <3> QED
      BY <1>4, <2>1, <2>3, <3>1 DEF Register
  <2>4. CASE v # w
    <3>1. worker'[v] = worker[v] /\ cancelFn[worker[v].task] = v
      BY <1>1, <2>4 DEF OnceInv, ExecutionIsCancelable
    <3>2. worker[v].task # worker[w].task \/ worker[v].task = None
      BY <2>4 DEF OnceInv, ExecutedOnce
    <3>3. worker[v].task \in Tasks
      BY <3>1 DEF OnceInv, WorkersHaveTasks
    <3> QED
      BY ConstantsAssumption, <2>1, <3>1, <3>2, <3>3 DEF Exit, Fetch, Register, Start, Finish, Cleanup
  <2> QED
    BY <1>4, <2>2, <2>3, <2>4
<1>6. WorkersHaveTasks'
  <2>1. worker[w].task \in Tasks => worker'[w].task \in Tasks \/ worker'[w].pc \in {"idle", "exited"}
    BY <1>3 DEF Exit, Fetch, Start, Finish, Cleanup, Idle, Doing, WorkerStates
  <2>2. worker[w].pc = "idle" => worker'[w].pc = "exited"
    BY <1>3 DEF Exit, Fetch, Start, Finish, Cleanup, Doing
  <2>3. worker[w].pc # "exited"
    BY DEF Exit, Fetch, Start, Finish, Cleanup
  <2> QED
    BY <1>1, <2>1, <2>2, <2>3 DEF OnceInv, WorkersHaveTasks
<1> QED
  BY <1>2, <1>4, <1>5, <1>6, OnceIfWorkerMoves

\* Restart
LEMMA OnceIfRestarted == ASSUME OnceInv, Restart PROVE OnceInv'
<1>1. /\ queue' = <<>> /\ unused' = unused
      /\ \A w \in Workers : worker'[w].task = None /\ worker'[w].pc = "idle"
      /\ \A r \in Requests : request'[r].pc = "idle"
  BY DEF Restart, Idle, Doing, NoRequest, Asking
<1>2. None \notin unused /\ 1 .. Len(queue') = {}
  BY <1>1, ConstantsAssumption DEF OnceInv
<1>3. OnePlace' /\ WorkersHaveTasks' /\ ExecutedOnce' /\ ExecutionIsCancelable'
  BY <1>1, <1>2 DEF OnePlace, Holding, WorkersHaveTasks, ExecutedOnce, ExecutionIsCancelable
<1> QED
  BY <1>1, <1>3 DEF OnceInv

\* Without messages to existing tasks every step keeps OnceInv.
LEMMA OnceInductive == ASSUME ~MultiTurn, IInv, OnceInv, [Next]_vars PROVE OnceInv'
<1>1. CASE UNCHANGED <<unused, queue, worker, cancelFn, request>>
  BY <1>1 DEF OnceInv, OnePlace, Holding, WorkersHaveTasks, ExecutedOnce, ExecutionIsCancelable
<1>2. ASSUME NEW r \in Requests, NEW t \in Tasks, CancelCheck(r, t) PROVE OnceInv'
  <2>1. Asking("cancel", t, FALSE).pc = "cancel"
    BY DEF Asking
  <2>2. UNCHANGED <<unused, queue, worker, cancelFn>>
    BY <1>2 DEF CancelCheck
  <2>3. request' = [request EXCEPT ![r] = Asking("cancel", t, FALSE)]
    BY <1>2 DEF CancelCheck
  <2> QED
    BY Zenon, <2>1, <2>2, <2>3, OnceIfRequestMoves
<1>3. ASSUME NEW r \in Requests, NEW t \in Tasks, SendExisting(r, t) PROVE FALSE
  BY <1>3 DEF SendExisting
<1>4. ASSUME NEW w \in Workers, Work(w) PROVE OnceInv'
  BY <1>4, OnceIfTaken, OnceIfWorked DEF Work
<1>5. CASE Shutdown \/ PeerStarts \/ \E t \in Tasks : Evict(t)
  BY <1>1, <1>5 DEF Shutdown, ShutdownFlag, ShutdownClose, ShutdownCancel, ShutdownDone,
     PeerStarts, Evict, poolVars
<1>6. CASE UNCHANGED vars
  BY <1>1, <1>6 DEF vars, poolVars
<1> QED
  BY <1>2, <1>3, <1>4, <1>5, <1>6, OnceIfDrawn, OnceIfServed, OnceIfRestarted DEF Next

LEMMA OnceInitially == Init => OnceInv
<1> SUFFICES ASSUME Init PROVE OnceInv
  OBVIOUS
<1>1. /\ queue = <<>> /\ unused = Tasks
      /\ \A w \in Workers : worker[w].task = None /\ worker[w].pc = "idle"
      /\ \A r \in Requests : request[r].pc = "idle"
  BY DEF Init, InitWith, Idle, Doing, NoRequest, Asking
<1>2. None \notin unused /\ 1 .. Len(queue) = {}
  BY <1>1, ConstantsAssumption
<1> QED
  BY <1>1, <1>2 DEF OnceInv, OnePlace, Holding, WorkersHaveTasks, ExecutedOnce, ExecutionIsCancelable

\* enqueueNonBlocking and runWorker: a task that is sent once is never in the queue twice,
\* nor with two workers, nor in the queue while a worker has it; neither cancellations,
\* shutdowns nor restarts bring it back.
THEOREM Once == ASSUME ~MultiTurn PROVE Spec => []ExecutedOnce
<1>1. IInv /\ OnceInv /\ [Next]_vars => (IInv /\ OnceInv)'
  BY Inductive, OnceInductive
<1>2. OnceInv => ExecutedOnce
  BY DEF OnceInv
<1> QED
  BY Initially, OnceInitially, <1>1, <1>2, PTL DEF Spec

\* executeTask: the deferred delete of cancelFuncs never removes the entry of an execution
\* that goes on, so that tasks/cancel and Shutdown reach every execution.
THEOREM Reachable == ASSUME ~MultiTurn PROVE Spec => []ExecutionIsCancelable
<1>1. IInv /\ OnceInv /\ [Next]_vars => (IInv /\ OnceInv)'
  BY Inductive, OnceInductive
<1>2. OnceInv => ExecutionIsCancelable
  BY DEF OnceInv
<1> QED
  BY Initially, OnceInitially, <1>1, <1>2, PTL DEF Spec
=============================================================================
