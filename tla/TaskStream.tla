---------------------------- MODULE TaskStream ------------------------------
(***************************************************************************)
(* How the updates of one A2A task reach its watchers: notify and          *)
(* handleTaskStream of internal/mcp/a2a_handler.go, the TaskNotifier, the  *)
(* RedisTaskBridge to another gateway, and the webhook of the              *)
(* PushNotifier.                                                           *)
(*                                                                         *)
(* Each execution of the task (a round) works on a task object.  With      *)
(* MemoryTaskStore all rounds share the stored object; with                *)
(* PersistentTaskStore each has a copy of its own.  The notifier passes    *)
(* the object, not its contents: a watcher reads the status when it        *)
(* handles the update.  The bridge and the webhook pass the contents.      *)
(***************************************************************************)
EXTENDS Integers, Sequences, FiniteSets

CONSTANTS
    Watchers,
    Deployments,    \* combinations of Modes looked at
    ChanCap,        \* capacity of a watcher's channel
    MaxRounds,      \* bound on message/send for the task
    Attempts        \* webhook attempts

VARIABLES
    mode,       \* the deployment
    object,     \* object[k]: the status of the task object of round k
    database,   \* the status in the database (PersistentTaskStore)
    exec,       \* exec[k]: the execution of round k
    stage,      \* stage[n]: where notifying party n is in notify
    tries,      \* tries[n]: its webhook attempts
    canceled,   \* executions whose context is canceled; 0: tasks/cancel was called
    wire,       \* updates on their way to the other gateway
    chan,       \* chan[w]: the watcher's channel
    watchers,   \* TaskNotifier.watchers
    shut,       \* how far Shutdown is
    closed,     \* watchers whose channel has been closed
    panicked,   \* a channel was closed twice, or sent to after close
    stream      \* stream[w]: the handler, the last status it sent, done sent

vars == <<mode, object, database, exec, stage, tries, canceled, wire, chan,
          watchers, shut, closed, panicked, stream>>
task == <<object, database, exec>>
channels == <<chan, watchers, closed, panicked>>

Rounds == 1..MaxRounds
Parties == Rounds \cup {0}          \* 0: the handler of tasks/cancel
Here == IF mode.remote THEN {} ELSE Watchers
There == Watchers \ Here

\* PersistentTaskStore; tasks executed by their handler; watchers on another gateway;
\* Redis losing messages; a webhook; messages to the existing task.
Modes == {"persistent", "blocking", "remote", "lossy", "push", "again"}
Terminal == {"completed", "failed", "canceled"}
Status == {"submitted", "working"} \cup Terminal

\* The object that round k works on, and what store.Get shows.
Object(k) == IF mode.persistent THEN k ELSE 1
Stored == IF mode.persistent THEN database ELSE object[1]

\* An update in a channel: a task object, or contents from the bridge (k = 0).
Shared(k) == [k |-> Object(k), status |-> "submitted"]
Contents(s) == [k |-> 0, status |-> s]
Look(u) == IF u.k = 0 THEN u.status ELSE object[u.k]

\* What party n notifies about: in the database store, tasks/cancel has a copy.
Update(n) ==
    IF n # 0 THEN Shared(n)
    ELSE IF mode.persistent THEN Contents("canceled") ELSE Shared(1)

TypeOK ==
    /\ mode \in [Modes -> BOOLEAN]
    /\ object \in [Rounds -> Status] /\ database \in Status
    /\ exec \in [Rounds -> {"none", "queued", "start", "chat", "end", "over"}]
    /\ stage \in [Parties -> {"idle", "local", "bridge", "push"}]
    /\ tries \in [Parties -> 1..Attempts]
    /\ canceled \subseteq Parties
    /\ \A w \in Watchers : Len(chan[w]) <= ChanCap
    /\ watchers \subseteq Watchers /\ closed \subseteq Watchers
    /\ shut \in {"no", "flagged", "bridge", "done"}
    /\ stream \in [Watchers ->
          [at : {"idle", "found", "waiting", "open", "sent", "ended"},
           last : Status \cup {"none"}, done : BOOLEAN,
           held : [k : Rounds \cup {0}, status : Status]]]

\* The task has been created and queued, or is about to be executed by the
\* handler of message/send (blocking).
Init ==
    /\ mode \in {d \in Deployments : (d.lossy => d.remote) /\ (d.remote => d.persistent)}
    /\ object = [k \in Rounds |-> "submitted"] /\ database = "submitted"
    /\ exec = [k \in Rounds |-> IF k = 1 THEN "queued" ELSE "none"]
    /\ stage = [n \in Parties |-> "idle"]
    /\ tries = [n \in Parties |-> 1]
    /\ canceled = {}
    /\ wire = <<>>
    /\ chan = [w \in Watchers |-> <<>>]
    /\ watchers = {} /\ closed = {} /\ panicked = FALSE
    /\ shut = "no"
    /\ stream = [w \in Watchers |-> [at |-> "idle", last |-> "none", done |-> FALSE,
                                  held |-> Contents("submitted")]]

-----------------------------------------------------------------------------
(* The task *)

Write(k, s) == object' = [object EXCEPT ![Object(k)] = s]

\* executeTask sets working, or handleMessageSendBlocking does and tells nobody.
Start(k) ==
    /\ exec[k] = "queued"
    /\ Write(k, "working") /\ database' = "working"
    /\ exec' = [exec EXCEPT ![k] = IF mode.blocking THEN "chat" ELSE "start"]
    /\ stage' = IF mode.blocking THEN stage ELSE [stage EXCEPT ![k] = "local"]
    /\ UNCHANGED <<mode, tries, canceled, wire, channels, shut, stream>>

\* The chat executor returns.  The blocking handler does not Update on success.
Finish(k) ==
    /\ exec[k] = "chat"
    /\ \E s \in {"completed", "failed"} \cup (IF k \in canceled THEN {"canceled"} ELSE {}) :
          /\ Write(k, s)
          /\ database' = IF mode.blocking /\ s = "completed" THEN database ELSE s
    /\ exec' = [exec EXCEPT ![k] = IF mode.blocking THEN "over" ELSE "end"]
    /\ stage' = IF mode.blocking THEN stage ELSE [stage EXCEPT ![k] = "local"]
    /\ UNCHANGED <<mode, tries, canceled, wire, channels, shut, stream>>

\* Executions with a context in cancelFuncs.
Active == {k \in Rounds : ~mode.blocking /\ exec[k] \in {"start", "chat", "end"}}

\* handleTasksCancel; cancelFuncs has the latest execution, or has lost it.
Cancel ==
    /\ 0 \notin canceled
    /\ Stored \notin Terminal
    /\ \E hit \in {{}, {k \in Active : Stored = "working" /\ \A j \in Active : j <= k}} :
          canceled' = canceled \cup {0} \cup hit
    /\ object' = IF mode.persistent THEN object ELSE [object EXCEPT ![1] = "canceled"]
    /\ database' = "canceled"
    /\ stage' = [stage EXCEPT ![0] = "local"]
    /\ UNCHANGED <<mode, exec, tries, wire, channels, shut, stream>>

\* message/send for the existing task: a task that is not working is reset, and
\* queued unless the gateway is shutting down.
SendAgain(k) ==
    /\ mode.again /\ exec[k] = "none" /\ exec[k - 1] # "none" /\ shut = "no"
    /\ Stored # "working" /\ exec[k - 1] # "queued"
    /\ Write(k, "submitted") /\ database' = "submitted"
    /\ exec' = [exec EXCEPT ![k] = "queued"]
    /\ UNCHANGED <<mode, stage, tries, canceled, wire, channels, shut, stream>>

-----------------------------------------------------------------------------
(* notify *)

\* A full channel loses its oldest update.
Put(c, u) == Append(IF Len(c) < ChanCap THEN c ELSE Tail(c), u)

\* TaskNotifier.Notify on one gateway
Notified(group, u) ==
    /\ chan' = [w \in Watchers |->
                  IF w \in watchers \cap group THEN Put(chan[w], u) ELSE chan[w]]
    /\ panicked' = (panicked \/ (watchers \cap group \cap closed # {}))
    /\ UNCHANGED <<watchers, closed>>

NotifyLocal(n) ==
    /\ stage[n] = "local"
    /\ IF shut = "done" THEN UNCHANGED channels ELSE Notified(Here, Update(n))
    /\ stage' = [stage EXCEPT ![n] = "bridge"]
    /\ UNCHANGED <<mode, task, tries, canceled, wire, shut, stream>>

\* notify has returned: the execution goes on.
Returned(n) ==
    /\ stage' = [stage EXCEPT ![n] = "idle"]
    /\ tries' = [tries EXCEPT ![n] = 1]
    /\ exec' = IF n = 0 THEN exec
               ELSE [exec EXCEPT ![n] = IF @ = "start" THEN "chat" ELSE "over"]

\* Without a watcher there, the other gateway's part is left out.
BridgeOpen == mode.remote /\ shut \in {"no", "flagged"}

\* RedisTaskBridge.Publish; an error is only logged.
Publish(n) ==
    /\ stage[n] = "bridge"
    /\ \/ BridgeOpen /\ wire' = Append(wire, Look(Update(n)))
       \/ (mode.lossy \/ ~BridgeOpen) /\ UNCHANGED wire
    /\ IF mode.push THEN stage' = [stage EXCEPT ![n] = "push"] /\ UNCHANGED <<tries, exec>>
       ELSE Returned(n)
    /\ UNCHANGED <<mode, object, database, canceled, channels, shut, stream>>

Retries(i) == i < Attempts

\* PushNotifier.Notify: an attempt succeeds, fails for good, or is repeated.
Push(n) ==
    /\ stage[n] = "push"
    /\ \/ Returned(n)
       \/ Retries(tries[n]) /\ tries' = [tries EXCEPT ![n] = (@ % Attempts) + 1] /\ UNCHANGED <<stage, exec>>
    /\ UNCHANGED <<mode, object, database, canceled, wire, channels, shut, stream>>

\* handleMessage on the other gateway, or its subscription was down.
Relay ==
    /\ wire # <<>> /\ wire' = Tail(wire)
    /\ \/ Notified(There, Contents(Head(wire)))
       \/ mode.lossy /\ UNCHANGED channels
    /\ UNCHANGED <<mode, task, stage, tries, canceled, shut, stream>>

-----------------------------------------------------------------------------
(* handleTaskStream *)

NoteUnchanged == UNCHANGED <<mode, task, stage, tries, canceled, wire, shut>>

To(w, at) == stream' = [stream EXCEPT ![w].at = at]

\* A terminal task is sent at once, with done.
SendsTerminal(w) ==
    stream' = [stream EXCEPT ![w].at = "ended", ![w].last = Stored, ![w].done = TRUE]

\* The first store.Get; another gateway finds the task in the database.
Open(w) ==
    /\ stream[w].at = "idle"
    /\ IF Stored \in Terminal THEN SendsTerminal(w) ELSE To(w, "found")
    /\ UNCHANGED channels /\ NoteUnchanged

\* Subscribe: a closed notifier hands out a closed channel.
Subscribe(w) ==
    /\ stream[w].at = "found"
    /\ IF w \in Here /\ shut = "done"
       THEN closed' = closed \cup {w} /\ UNCHANGED <<chan, watchers, panicked>>
       ELSE watchers' = watchers \cup {w} /\ UNCHANGED <<chan, closed, panicked>>
    /\ To(w, "waiting") /\ NoteUnchanged

\* (variant: the status is not read again)
StillTerminal == FALSE
\* The second store.Get, after Subscribe.
IsTerminal == Stored \in Terminal

\* Unsubscribe, deferred: the channel is closed if it is still registered.
Unsubscribe(w) ==
    /\ watchers' = watchers \ {w}
    /\ closed' = IF w \in watchers THEN closed \cup {w} ELSE closed
    /\ panicked' = (panicked \/ (w \in watchers /\ w \in closed))
    /\ chan' = [chan EXCEPT ![w] = <<>>]

Recheck(w) ==
    /\ stream[w].at = "waiting"
    /\ IF IsTerminal THEN SendsTerminal(w) /\ Unsubscribe(w)
       ELSE To(w, "open") /\ UNCHANGED channels
    /\ NoteUnchanged

\* An update is marshalled and sent; a closed channel still hands out what it holds.
Receive(w) ==
    /\ stream[w].at = "open"
    /\ \/ /\ chan[w] # <<>>
          /\ stream' = [stream EXCEPT ![w].at = "sent", ![w].held = Head(chan[w]),
                                      ![w].last = Look(Head(chan[w]))]
          /\ chan' = [chan EXCEPT ![w] = Tail(@)] /\ UNCHANGED <<watchers, closed, panicked>>
       \/ /\ chan[w] = <<>> /\ w \in closed
          /\ To(w, "ended") /\ Unsubscribe(w)
    /\ NoteUnchanged

\* The status is read again to decide whether the stream is done.
Decide(w) ==
    /\ stream[w].at = "sent"
    /\ IF Look(stream[w].held) \in Terminal
       THEN /\ stream' = [stream EXCEPT ![w].at = "ended", ![w].done = TRUE]
            /\ Unsubscribe(w)
       ELSE To(w, "open") /\ UNCHANGED channels
    /\ NoteUnchanged

\* The client goes away.
Leave(w) ==
    /\ stream[w].at = "open"
    /\ To(w, "ended") /\ Unsubscribe(w)
    /\ NoteUnchanged

-----------------------------------------------------------------------------
(* Shutdown *)

Flag ==
    /\ shut = "no" /\ shut' = "flagged"
    /\ canceled' = canceled \cup Active
    /\ UNCHANGED <<mode, task, stage, tries, wire, channels, stream>>

\* The workers have returned: the bridge is closed.
CloseBridge ==
    /\ shut = "flagged" /\ shut' = "bridge"
    /\ mode.blocking \/ \A k \in Rounds : exec[k] \in {"none", "over"}
    /\ UNCHANGED <<mode, task, stage, tries, canceled, wire, channels, stream>>

\* (variant: the closed channels stay registered)
RemainingAll == watchers
Remaining == watchers \ Here

\* TaskNotifier.Close
CloseNotifier ==
    /\ shut = "bridge" /\ shut' = "done"
    /\ closed' = closed \cup (watchers \cap Here)
    /\ panicked' = (panicked \/ watchers \cap Here \cap closed # {})
    /\ watchers' = Remaining
    /\ UNCHANGED <<mode, task, stage, tries, canceled, wire, chan, stream>>

-----------------------------------------------------------------------------

Execution(k) == Start(k) \/ Finish(k)
Notify(n) == NotifyLocal(n) \/ Publish(n) \/ Push(n)
Watch(w) == Subscribe(w) \/ Recheck(w) \/ Receive(w) \/ Decide(w)

Next ==
    \/ \E k \in Rounds : Execution(k)
    \/ \E k \in Rounds \ {1} : SendAgain(k)
    \/ Cancel \/ Relay
    \/ \E n \in Parties : Notify(n)
    \/ \E w \in Watchers : Open(w) \/ Watch(w) \/ Leave(w)
    \/ Flag \/ CloseBridge \/ CloseNotifier

Spec == Init /\ [][Next]_vars

\* Workers run, the chat executor has a deadline, a webhook attempt a timeout, the
\* subscription is served; nobody has to cancel, send again, watch, leave or stop.
Fairness ==
    /\ \A k \in Rounds : WF_vars(Execution(k))
    /\ \A n \in Parties : WF_vars(Notify(n))
    /\ \A w \in Watchers : WF_vars(Watch(w))
    /\ WF_vars(Relay)

FairSpec == Spec /\ Fairness

-----------------------------------------------------------------------------
(* Properties *)

\* A watcher's channel is closed once and never sent to afterwards, whatever the
\* order of Notify, Unsubscribe and Close: a second close would panic.
ChannelsClosedOnce == ~panicked

\* A stream of a queued task ends: the watcher gets the terminal update although it
\* subscribed while the task was finishing, its channel overflowed, the webhook did
\* not answer, or the updates of two executions crossed.  On another gateway this
\* needs Redis to lose nothing.
StreamEnds ==
    \A w \in Watchers :
       (stream[w].at # "idle" /\ ~mode.blocking /\ ~mode.lossy)
          ~> stream[w].at = "ended"

\* docs/agent-protocols.md: the events of a stream are "`task_update` (status changes),
\* `done` (terminal state)": a stream of a finished task is done, also when the task
\* was executed by the handler of message/send.
DoneWhenTerminal ==
    \A w \in Watchers : (stream[w].at # "idle" /\ ~mode.lossy) ~> (stream[w].at = "ended")

\* done tells that the last update of the stream carried a terminal status.
DoneFollowsTerminal ==
    \A w \in Watchers : stream[w].done => stream[w].last \in Terminal
=============================================================================
