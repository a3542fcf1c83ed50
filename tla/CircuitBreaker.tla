--------------------------- MODULE CircuitBreaker ---------------------------
(***************************************************************************)
(* internal/circuit/breaker.go: the breaker of one provider and model, as  *)
(* every gateway instance runs it.  An instance whose Redis client is      *)
(* healthy works on the hash the instances share; the others fall back to  *)
(* a counter of their own.  The choice is made anew by every call.         *)
(*                                                                         *)
(* A caller is one request inside executePlan: Allow, then attempts that   *)
(* end in RecordSuccess or RecordFailure.                                  *)
(*                                                                         *)
(* Time.  The code only ever compares time.Since(t) with a duration, so a  *)
(* timestamp is kept as its age in ticks, saturated at Old, above which no *)
(* comparison changes.  Counters saturate at Threshold for the same        *)
(* reason: they are compared with the threshold and reset to zero, nothing *)
(* else.                                                                   *)
(***************************************************************************)
EXTENDS Integers

CONSTANTS
    Instances,      \* gateway processes
    Callers,        \* requests that use the breaker concurrently
    Home,           \* Home[c]: the instance that serves caller c
    Threshold,      \* failures that open the breaker
    Window,         \* ticks; a longer gap restarts the local count
    Cooldown,       \* ticks the breaker stays open
    Second,         \* ticks per second: Redis timestamps are whole seconds
    Attempts,       \* attempts of one caller at this target
    MaxFaults       \* bound on lost Redis commands and crashed instances

ASSUME ConstantsAssumption ==
    /\ Home \in [Callers -> Instances]
    /\ Threshold \in Nat \ {0}
    /\ Window \in Nat
    /\ Cooldown \in Nat
    /\ Second \in Nat \ {0}
    /\ Attempts \in Nat \ {0}
    /\ MaxFaults \in Nat

Unset == -1                             \* an absent hash field
Old == 1 + (IF Window > Cooldown THEN Window ELSE Cooldown)
                                        \* no comparison tells more from it
Age == 0 .. Old
Saturated(a) == IF a < Old THEN a ELSE Old
Older(a) == IF a < Old THEN a + 1 ELSE a
More(n) == IF n < Threshold THEN n + 1 ELSE n

VARIABLES
    local,      \* local[i]: the failures, lastFail and openedAt of instance i
    hash,       \* the Redis hash: failures, last_fail, opened_at
    healthy,    \* healthy[i]: what the Redis client of i answers to Healthy()
    faults,     \* faults that may still happen
    phase,      \* ticks since the last whole second
    call        \* call[c]: where caller c is and what its call has read

vars == <<local, hash, healthy, faults, phase, call>>

NewBreaker == [failures |-> 0, sinceFail |-> Old, sinceOpened |-> Old]

\* attempt: the attempt of executePlan; stamp: the age of now.Unix() in
\* redisRecordFailure; newCount: its result of HINCRBY.
Call(at, n) == [pc |-> at, attempt |-> n, stamp |-> 0, newCount |-> 0]
Idle == Call("idle", 1)

Breakers == [failures : 0 .. Threshold, sinceFail : Age, sinceOpened : Age]
Calls == [pc : {"idle", "calling", "incr", "mark"}, attempt : 1 .. Attempts,
          stamp : Age, newCount : 0 .. Threshold]

TypeOK ==
    /\ local \in [Instances -> Breakers]
    /\ hash \in [failures : 0 .. Threshold,
                 sinceFail : Age \cup {Unset}, sinceOpened : Age \cup {Unset}]
    /\ healthy \in [Instances -> BOOLEAN]
    /\ faults \in 0 .. MaxFaults
    /\ phase \in 0 .. Second - 1
    /\ call \in [Callers -> Calls]

Init ==
    /\ local = [i \in Instances |-> NewBreaker]
    /\ hash = [failures |-> 0, sinceFail |-> Unset, sinceOpened |-> Unset]
    /\ healthy \in [Instances -> BOOLEAN]
    /\ faults = MaxFaults
    /\ phase = 0
    /\ call = [c \in Callers |-> Idle]

\* A command that Redis answers, and one that is lost.
Answered == UNCHANGED faults
Lost == faults > 0 /\ faults' = faults - 1

-----------------------------------------------------------------------------
(* What Allow answers in each backend. *)

LocalAdmits(i) ==
    \/ local[i].failures < Threshold
    \/ local[i].sinceOpened > Cooldown

SharedAdmits ==
    \/ hash.failures < Threshold
    \/ hash.sinceOpened # Unset /\ hash.sinceOpened > Cooldown

\* (variant: past the cooldown it restarts the cooldown)
LocalAllowRestartsCooldown(c) ==
    LET i == Home[c] IN
    /\ call[c].pc = "idle" /\ ~healthy[i]
    /\ LocalAdmits(i)
    /\ local' = [local EXCEPT ![i].sinceOpened =
                     IF local[i].failures < Threshold THEN @ ELSE 0]
    /\ call' = [call EXCEPT ![c] = Call("calling", 1)]
    /\ UNCHANGED <<hash, healthy, faults, phase>>

\* localAllow: past the cooldown it forgets the failures.  A refusal changes
\* nothing and is not a step.
LocalAllow(c) ==
    LET i == Home[c] IN
    /\ call[c].pc = "idle" /\ ~healthy[i]
    /\ LocalAdmits(i)
    /\ local' = [local EXCEPT ![i].failures =
                     IF @ < Threshold THEN @ ELSE 0]
    /\ call' = [call EXCEPT ![c] = Call("calling", 1)]
    /\ UNCHANGED <<hash, healthy, faults, phase>>

\* redisAllow only reads; an error of HGETALL admits the request.
RedisAllow(c) ==
    /\ call[c].pc = "idle" /\ healthy[Home[c]]
    /\ (SharedAdmits /\ Answered) \/ Lost
    /\ call' = [call EXCEPT ![c] = Call("calling", 1)]
    /\ UNCHANGED <<local, hash, healthy, phase>>

LocalRecordSuccess(c) ==
    /\ call[c].pc = "calling" /\ ~healthy[Home[c]]
    /\ local' = [local EXCEPT ![Home[c]].failures = 0]
    /\ call' = [call EXCEPT ![c] = Idle]
    /\ UNCHANGED <<hash, healthy, faults, phase>>

\* The error of HSET is ignored: when it is lost the count survives.
RedisRecordSuccess(c) ==
    /\ call[c].pc = "calling" /\ healthy[Home[c]]
    /\ \/ hash' = [hash EXCEPT !.failures = 0] /\ Answered
       \/ hash' = hash /\ Lost
    /\ call' = [call EXCEPT ![c] = Idle]
    /\ UNCHANGED <<local, healthy, phase>>

\* executePlan after a failed attempt: the end of this target (error not
\* retryable, last attempt, request cancelled) or the next attempt.
NextAttempt(c) ==
    \/ call' = [call EXCEPT ![c] = Idle]
    \/ /\ call[c].attempt < Attempts
       /\ call' = [call EXCEPT ![c] = Call("calling", call[c].attempt + 1)]

\* executePlan without an adapter or a provider key: nothing is recorded.
NoAttempt(c) ==
    /\ call[c].pc = "calling"
    /\ call' = [call EXCEPT ![c] = Idle]
    /\ UNCHANGED <<local, hash, healthy, faults, phase>>

LocalFailed(b) ==
    LET n == IF b.sinceFail > Window THEN 1 ELSE More(b.failures) IN
    [failures    |-> n,
     sinceFail   |-> 0,
     sinceOpened |-> IF n >= Threshold THEN 0 ELSE b.sinceOpened]

LocalRecordFailure(c) ==
    /\ call[c].pc = "calling" /\ ~healthy[Home[c]]
    /\ local' = [local EXCEPT ![Home[c]] = LocalFailed(@)]
    /\ NextAttempt(c)
    /\ UNCHANGED <<hash, healthy, faults, phase>>

\* redisRecordFailure takes three steps: it reads the clock, ...
RedisReadClock(c) ==
    /\ call[c].pc = "calling" /\ healthy[Home[c]]
    /\ call' = [call EXCEPT ![c].pc = "incr", ![c].stamp = Saturated(phase)]
    /\ UNCHANGED <<local, hash, healthy, faults, phase>>

\* (variant: the count before the increment decides)
RedisHIncrByOldCount(c) ==
    /\ call[c].pc = "incr"
    /\ hash' = [hash EXCEPT !.failures = More(@)]
    /\ call' = [call EXCEPT ![c].pc = "mark",
                            ![c].newCount = hash.failures]
    /\ UNCHANGED <<local, healthy, faults, phase>>

\* ... increments the counter with HINCRBY, ...
RedisHIncrBy(c) ==
    /\ call[c].pc = "incr"
    /\ hash' = [hash EXCEPT !.failures = More(@)]
    /\ call' = [call EXCEPT ![c].pc = "mark",
                            ![c].newCount = More(hash.failures)]
    /\ UNCHANGED <<local, healthy, faults, phase>>

\* (an HINCRBY that reports an error may have been applied or not)
RedisHIncrByFails(c) ==
    /\ call[c].pc = "incr" /\ Lost
    /\ hash' \in {hash, [hash EXCEPT !.failures = More(@)]}
    /\ NextAttempt(c)
    /\ UNCHANGED <<local, healthy, phase>>

\* (variant: opened_at is written past the threshold only)
MarkedPastThreshold(h, cl) ==
    [h EXCEPT !.sinceFail = cl.stamp,
              !.sinceOpened = IF cl.newCount > Threshold THEN cl.stamp ELSE @]

\* ... and writes last_fail and, from the threshold on, opened_at.
Marked(h, cl) ==
    [h EXCEPT !.sinceFail = cl.stamp,
              !.sinceOpened = IF cl.newCount >= Threshold THEN cl.stamp ELSE @]

RedisHSet(c) ==
    /\ call[c].pc = "mark"
    /\ \/ hash' = Marked(hash, call[c]) /\ Answered
       \/ hash' = hash /\ Lost
    /\ NextAttempt(c)
    /\ UNCHANGED <<local, healthy, phase>>

-----------------------------------------------------------------------------
(* The environment: the clock, the health checker, crashes. *)

Tick ==
    /\ phase' = IF phase + 1 < Second THEN phase + 1 ELSE 0
    /\ local' = [i \in Instances |->
                    [local[i] EXCEPT !.sinceFail = Older(@),
                                     !.sinceOpened = Older(@)]]
    /\ hash' = [hash EXCEPT
                    !.sinceFail = IF @ = Unset THEN @ ELSE Older(@),
                    !.sinceOpened = IF @ = Unset THEN @ ELSE Older(@)]
    /\ call' = [c \in Callers |->
                   IF call[c].pc \in {"incr", "mark"}
                     THEN [call[c] EXCEPT !.stamp = Older(@)]
                     ELSE call[c]]
    /\ UNCHANGED <<healthy, faults>>

\* redis.Client.healthCheck stores the outcome of a PING.
HealthCheck(i) ==
    /\ healthy' = [healthy EXCEPT ![i] = ~@]
    /\ UNCHANGED <<local, hash, faults, phase, call>>

\* An instance restarts: its counter and its callers are gone, the hash stays.
Crash(i) ==
    /\ Lost
    /\ local' = [local EXCEPT ![i] = NewBreaker]
    /\ call' = [c \in Callers |-> IF Home[c] = i THEN Idle ELSE call[c]]
    /\ UNCHANGED <<hash, healthy, phase>>

-----------------------------------------------------------------------------

Allow(c) == LocalAllow(c) \/ RedisAllow(c)
RecordSuccess(c) == LocalRecordSuccess(c) \/ RedisRecordSuccess(c)
RecordFailure(c) ==
    \/ LocalRecordFailure(c)
    \/ RedisReadClock(c)
    \/ RedisHIncrBy(c)
    \/ RedisHIncrByFails(c)
    \/ RedisHSet(c)

Next ==
    \/ \E c \in Callers :
          Allow(c) \/ RecordSuccess(c) \/ RecordFailure(c) \/ NoAttempt(c)
    \/ \E i \in Instances : HealthCheck(i) \/ Crash(i)
    \/ Tick

Spec == Init /\ [][Next]_vars

\* The clock advances, and an admitted call ends: every provider call has a
\* timeout and every Redis command a deadline.  Nothing makes a new request
\* arrive or the health checker change its mind.
Fairness ==
    /\ WF_vars(Tick)
    /\ \A c \in Callers :
          WF_vars(RecordSuccess(c) \/ RecordFailure(c) \/ NoAttempt(c))

FairSpec == Spec /\ Fairness

-----------------------------------------------------------------------------
(* Properties *)

\* localAllow refuses a request only when a call of the same instance failed
\* within the last Cooldown ticks: openedAt never outlives the failure that
\* set it, although calls admitted earlier keep reporting while it is open.
LocalRefusalIsRecent ==
    \A i \in Instances : LocalAdmits(i) \/ local[i].sinceFail <= Cooldown

\* Between HINCRBY and HSET of redisRecordFailure the counter has reached the
\* threshold and opened_at is missing.  Once no call is between the two, a
\* refusal by redisAllow is backed by an opened_at at most Cooldown old,
\* whatever successes, failures and health changes were interleaved, until a
\* command is lost or an instance crashes.
SharedRefusalIsRecent ==
    \/ SharedAdmits
    \/ faults < MaxFaults
    \/ hash.sinceOpened \in 0 .. Cooldown
    \/ \E c \in Callers : call[c].pc = "mark" /\ call[c].newCount >= Threshold

\* localRecordFailure counts failures of one burst: a breaker with a threshold
\* above one opens only on a failure at most Window after the previous one.
LocalOpensInWindow ==
    [][\A i \in Instances :
          /\ Threshold > 1
          /\ local[i].failures < Threshold
          /\ local'[i].failures >= Threshold
          => local[i].sinceFail <= Window]_vars

\* A run in which no command is lost and no instance crashes.
NoFault == [](faults = MaxFaults)

\* If the Redis clients stop changing between healthy and unhealthy, a local
\* breaker that refuses requests admits one again, although the calls in flight
\* when it opened may fail one after the other and open it anew.
HealthSettles == <>[][healthy' = healthy]_healthy

LocalReopens ==
    HealthSettles => \A i \in Instances : ~LocalAdmits(i) ~> LocalAdmits(i)

\* The same of the shared breaker, as long as nothing is lost.
SharedReopens ==
    HealthSettles /\ NoFault => (~SharedAdmits ~> SharedAdmits)

\* "WithCooldown sets how long the breaker stays open": the shared breaker
\* reopens, whatever was lost.
CooldownEnds ==
    HealthSettles => (~SharedAdmits ~> SharedAdmits)

=============================================================================
