------------------------------- MODULE Ledger -------------------------------
(***************************************************************************)
(* What a request leaves behind: a usage entry and perhaps a shadow replay, *)
(* both handled by goroutines of their own after the answer, and the       *)
(* budget check, which reads what the usage writer has written by then.    *)
(* cmd/gateway/main.go ends all of it on a signal.  A call costs one unit. *)
(***************************************************************************)
EXTENDS Integers, Sequences, FiniteSets

CONSTANTS
    Requests,       \* requests of one key that can be in flight together
    Limit,          \* budget_limit_usd
    BufferSize,     \* of the channel of usage.Writer
    RingCap,        \* of the ring of replay results
    MaxCalls,       \* bound on provider calls
    MaxReplays      \* bound on replays

ASSUME LedgerAssumption ==
    Limit \in Nat \ {0} /\ BufferSize \in Nat /\ RingCap \in Nat \ {0} /\ MaxCalls \in Nat
    /\ MaxReplays \in Nat /\ IsFiniteSet(Requests)

VARIABLES
    failClosed,     \* budget_fail_closed
    up,             \* the database answers
    phase,          \* of main: run, signalled, closing, draining, stopped
    flying,         \* requests past the budget check
    calls,          \* provider calls made
    spent,          \* SUM(cost_usd) of the key in the current period
    unchecked,      \* a request passed without a sum in this period
    queue,          \* entries in the channel of the usage writer
    hand,           \* entries process has taken and not written
    shadow,         \* shadow[r], the replay of a request: none, started, calling
    ring, head, count,
    stored          \* history: results stored, oldest first

vars == <<failClosed, up, phase, flying, calls, spent, unchecked, queue, hand, shadow,
          ring, head, count, stored>>
replay == <<shadow, ring, head, count, stored>>

Init ==
    /\ failClosed \in BOOLEAN
    /\ up = TRUE
    /\ phase = "run"
    /\ flying = {}
    /\ calls = 0
    /\ spent = 0
    /\ unchecked = FALSE
    /\ queue = 0
    /\ hand = 0
    /\ shadow = [r \in Requests |-> "none"]
    /\ ring = [i \in 0 .. RingCap - 1 |-> {}]
    /\ head = 0
    /\ count = 0
    /\ stored = <<>>

Running == phase # "stopped"

-----------------------------------------------------------------------------
(* The budget *)

\* (variant: a budget is exceeded when more than all of it is spent)
Exceeded(sum) == sum > Limit
\* CheckBudget, with a sum
Refused(sum) == sum >= Limit

\* checkBudget: without a database, budget_fail_closed decides.  The server
\* accepts requests until main shuts it down.
CheckBudget(r) ==
    /\ phase \in {"run", "signalled", "closing"} /\ r \notin flying
    /\ calls + Cardinality(flying) < MaxCalls
    /\ IF up THEN ~Refused(spent) /\ UNCHANGED unchecked
       ELSE ~failClosed /\ unchecked' = TRUE
    /\ flying' = flying \cup {r}
    /\ UNCHANGED <<failClosed, up, phase, calls, spent, queue, hand, replay>>

NewPeriod ==
    /\ Running /\ spent > 0
    /\ spent' = 0
    /\ unchecked' = FALSE
    /\ UNCHANGED <<failClosed, up, phase, flying, calls, queue, hand, replay>>

-----------------------------------------------------------------------------
(* The usage writer *)

\* Record: a full buffer drops the entry.
Record == queue' = IF queue < BufferSize THEN queue + 1 ELSE queue

\* process: take the next entry
Take ==
    /\ Running /\ queue > 0 /\ hand = 0
    /\ queue' = queue - 1
    /\ hand' = 1
    /\ UNCHANGED <<failClosed, up, phase, flying, calls, spent, unchecked, replay>>

\* write: an entry that cannot be written is lost.  Its time, and so its period,
\* is that of the writing.
Write ==
    /\ Running /\ hand = 1
    /\ hand' = 0
    /\ spent' = IF up THEN spent + 1 ELSE spent
    /\ UNCHANGED <<failClosed, up, phase, flying, calls, unchecked, queue, replay>>

-----------------------------------------------------------------------------
(* Replay *)

Closed == phase \in {"closing", "draining", "stopped"}

\* Manager.store
StoreResult(x) ==
    /\ ring' = [ring EXCEPT ![head] = x]
    /\ head' = (head + 1) % RingCap
    /\ count' = IF count < RingCap THEN count + 1 ELSE count
    /\ stored' = Append(stored, x)

\* The goroutine of Replay looks at stopCh once, before the call.
ShadowStart(r) ==
    /\ Running /\ shadow[r] = "started"
    /\ shadow' = [shadow EXCEPT ![r] = IF Closed THEN "none" ELSE "calling"]
    /\ UNCHANGED <<failClosed, up, phase, flying, calls, spent, unchecked, queue, hand,
                   ring, head, count, stored>>

\* The call has succeeded, failed or timed out, or there was no key for it.
ShadowEnd(r) ==
    /\ Running /\ shadow[r] = "calling"
    /\ StoreResult({r})
    /\ shadow' = [shadow EXCEPT ![r] = "none"]
    /\ UNCHANGED <<failClosed, up, phase, flying, calls, spent, unchecked, queue, hand>>

\* (variant: the oldest result is taken to be at the head)
RecentFromHead(n) == LET m == IF n > count THEN count ELSE n
                     IN  [i \in 1 .. m |-> ring[(head + count - m + i - 1) % RingCap]]
\* Manager.Recent
Recent(n) ==
    LET m == IF n > count THEN count ELSE n
        start == (head - count + RingCap) % RingCap
    IN  [i \in 1 .. m |-> ring[(start + (count - m) + i - 1) % RingCap]]

-----------------------------------------------------------------------------
(* The end of a request, and the end of the process *)

Replays == Len(stored) + Cardinality({r \in Requests : shadow[r] # "none"})

\* The provider failed: no usage.
Fail(r) ==
    /\ Running /\ r \in flying
    /\ flying' = flying \ {r}
    /\ UNCHANGED <<failClosed, up, phase, calls, spent, unchecked, queue, hand, replay>>

\* The provider answered: usage, and perhaps a replay.  (Bounds: one replay at a
\* time for each request slot, and MaxReplays.)
Answer(r, sampled) ==
    /\ Running /\ r \in flying
    /\ flying' = flying \ {r}
    /\ calls' = calls + 1
    /\ Record
    /\ sampled => shadow[r] = "none" /\ Replays < MaxReplays
    /\ shadow' = IF sampled THEN [shadow EXCEPT ![r] = "started"] ELSE shadow
    /\ UNCHANGED <<failClosed, up, phase, spent, unchecked, hand, ring, head, count, stored>>

Move(from, to) == phase = from /\ phase' = to
\* (variant: Close does not wait)
CloseAtOnce == Move("closing", "draining")
\* (variant: Close waits for the requests too)
CloseWaitsForAll == Move("closing", "draining") /\ \A r \in Requests : shadow[r] = "none" /\ r \notin flying
\* ReplayManager.Close: stopCh is closed, and then the goroutines are waited for.
CloseWaits == Move("closing", "draining") /\ \A r \in Requests : shadow[r] = "none"

\* main: MarkShuttingDown on the signal; CloseHandlers; Shutdown, which waits for
\* the requests, or gives up at its timeout; the return.
Main ==
    /\ \/ Move("run", "signalled")
       \/ Move("signalled", "closing")
       \/ CloseWaits
       \/ Move("draining", "stopped")
    /\ UNCHANGED <<failClosed, up, flying, calls, spent, unchecked, queue, hand, replay>>

Database ==
    /\ Running /\ up' = ~up
    /\ UNCHANGED <<failClosed, phase, flying, calls, spent, unchecked, queue, hand, replay>>

Next ==
    \/ \E r \in Requests :
          \/ CheckBudget(r)
          \/ Fail(r)
          \/ Answer(r, TRUE)
          \/ Answer(r, FALSE)
          \/ ShadowStart(r)
          \/ ShadowEnd(r)
    \/ Take
    \/ Write
    \/ NewPeriod
    \/ Main
    \/ Database

Spec == Init /\ [][Next]_vars

\* The goroutines of replays run and their calls time out; main runs.
Fairness ==
    /\ \A r \in Requests : WF_vars(ShadowStart(r)) /\ WF_vars(ShadowEnd(r))
    /\ WF_vars(phase # "run" /\ Main)
FairSpec == Spec /\ Fairness

-----------------------------------------------------------------------------
(* Properties *)

TypeOK ==
    /\ failClosed \in BOOLEAN /\ up \in BOOLEAN /\ unchecked \in BOOLEAN
    /\ phase \in {"run", "signalled", "closing", "draining", "stopped"}
    /\ flying \subseteq Requests
    /\ calls \in Nat /\ spent \in Nat
    /\ queue \in 0 .. BufferSize /\ hand \in 0 .. 1
    /\ shadow \in [Requests -> {"none", "started", "calling"}]
    /\ head \in 0 .. RingCap - 1 /\ count \in 0 .. RingCap

\* A key whose checks all found the database overruns its budget by no more
\* than the entries that can be on their way to the database and the requests
\* that can be in flight: the check does not see these, but it sees all others.
OvershootBounded ==
    ~unchecked =>
        spent + queue + hand + Cardinality(flying)
            <= Limit + BufferSize + Cardinality(Requests)

\* The admin API's view of the ring, Recent(n), is the last n results stored,
\* oldest first, before and after the ring wraps.
RecentIsLast ==
    \A n \in 0 .. RingCap + 1 :
        LET m == IF n > Len(stored) THEN Len(stored) ELSE n
            k == IF m > RingCap THEN RingCap ELSE m
        IN  Recent(n) = SubSeq(stored, Len(stored) - k + 1, Len(stored))

\* Once the replay manager is closed no shadow call is under way, although
\* requests that are still in flight go on asking for replays.
NoShadowAfterClose == phase \in {"draining", "stopped"} => \A r \in Requests : shadow[r] # "calling"

\* After the signal the process stops.
StopsAfterSignal == phase # "run" ~> phase = "stopped"
=============================================================================
