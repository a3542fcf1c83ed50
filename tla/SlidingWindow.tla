---------------------------- MODULE SlidingWindow ----------------------------
(***************************************************************************)
(* internal/ratelimit/redis.go: the request limit of one virtual key, kept *)
(* in a Redis sorted set that all gateway instances share.                 *)
(*                                                                         *)
(* checkCount reads the clock of its own instance, draws a sequence number *)
(* and sends both to a Lua script that Redis runs atomically.  Between the *)
(* clock and the script other requests run and time passes, and the clocks *)
(* of two instances differ; MaxDelay and MaxSkew bound both.               *)
(***************************************************************************)
EXTENDS Integers, FiniteSets

CONSTANTS
    Requests,   \* concurrent callers of CheckRPM
    Clock,      \* Clock[r]: how far the clock of r's instance is ahead
    Limit,      \* requests per window
    Window,     \* ticks
    MaxDelay,   \* ticks between time.Now and the script
    MaxSkew,    \* ticks a clock may be wrong
    MaxTime,    \* bound on the run
    MaxCalls    \* bound on the calls of a run

ASSUME ConstantsAssumption ==
    /\ Limit \in Nat \ {0}
    /\ Window \in Nat \ {0}
    /\ MaxDelay \in Nat
    /\ MaxSkew \in Nat
    /\ MaxTime \in Nat
    /\ MaxCalls \in Nat
    /\ Clock \in [Requests -> -MaxSkew .. MaxSkew]

VARIABLES
    now,        \* real time
    seq,        \* the counter behind the unique members
    zset,       \* the sorted set
    touched,    \* when the script last set the expiry of the key
    grants,     \* history: the members ever admitted
    call        \* call[r]: the member r is about to send

vars == <<now, seq, zset, touched, grants, call>>

\* A member: its id, its score, and (history) when it was admitted.
Members == [id : Nat \ {0}, score : Int, at : Nat]
Calls == [pc : {"passed", "refused", "eval"}, id : Nat, score : Int, read : Nat]

\* A call that has returned: CheckRPM said yes or no.
Returned(pc) == [pc |-> pc, id |-> 0, score |-> 0, read |-> 0]

TypeOK ==
    /\ now \in Nat
    /\ seq \in Nat
    /\ zset \subseteq Members
    /\ grants \subseteq Members
    /\ touched \in Nat
    /\ call \in [Requests -> Calls]

Init ==
    /\ now = 0
    /\ seq = 0
    /\ zset = {}
    /\ touched = 0
    /\ grants = {}
    /\ call = [r \in Requests |-> Returned("passed")]

\* time.Now, then INCR of the sequence counter (when that fails the request is
\* let through and nothing has changed).
ReadClock(r) ==
    /\ call[r].pc # "eval" /\ seq < MaxCalls
    /\ seq' = seq + 1
    /\ call' = [call EXCEPT ![r] = [pc |-> "eval", id |-> seq + 1,
                                    score |-> now + Clock[r], read |-> now]]
    /\ UNCHANGED <<now, zset, touched, grants>>

\* (variant: a window of half the length is kept)
KeptHalf(c) == {m \in zset : 2 * m.score > 2 * c.score - Window}

\* ZREMRANGEBYSCORE key -inf (now - window)
Kept(c) == {m \in zset : m.score > c.score - Window}

Member(c) == [id |-> c.id, score |-> c.score, at |-> now]

\* (variant: refused requests are counted)
ScriptCountsRefused(c, room) ==
    /\ room <=> Cardinality(Kept(c)) + 1 <= Limit
    /\ zset' = Kept(c) \cup {Member(c)}
    /\ grants' = IF room THEN grants \cup {Member(c)} ELSE grants
    /\ touched' = now

\* The script: drop the expired members, admit if there is room.
Script(c, room) ==
    /\ room <=> Cardinality(Kept(c)) + 1 <= Limit
    /\ zset' = IF room THEN Kept(c) \cup {Member(c)} ELSE Kept(c)
    /\ grants' = IF room THEN grants \cup {Member(c)} ELSE grants
    /\ touched' = now

Return(r, answer) ==
    /\ call[r].pc = "eval"
    /\ call' = [call EXCEPT ![r] = Returned(answer)]
    /\ UNCHANGED <<now, seq>>

Admit(r) == Return(r, "passed") /\ Script(call[r], TRUE)

Refuse(r) == Return(r, "refused") /\ Script(call[r], FALSE)

\* Eval fails and the request is let through: the script did not run,
FailOpen(r) == Return(r, "passed") /\ UNCHANGED <<zset, touched, grants>>

\* or it ran, found no room, and only its answer was lost.  (A lost answer to
\* a script that found room is Admit.)
AnswerLost(r) == Return(r, "passed") /\ Script(call[r], FALSE)

\* EXPIRE key 120: two windows after the last script the key is gone.
Expire ==
    /\ zset # {} /\ now >= touched + 2 * Window
    /\ zset' = {}
    /\ UNCHANGED <<now, seq, touched, grants, call>>

Tick ==
    /\ now < MaxTime
    /\ \A r \in Requests : call[r].pc = "eval" => now < call[r].read + MaxDelay
    /\ now' = now + 1
    /\ UNCHANGED <<seq, zset, touched, grants, call>>

Next ==
    \/ \E r \in Requests :
          \/ ReadClock(r)
          \/ Admit(r)
          \/ Refuse(r)
          \/ FailOpen(r)
          \/ AnswerLost(r)
    \/ Expire
    \/ Tick

Spec == Init /\ [][Next]_vars

-----------------------------------------------------------------------------
(* Properties *)

\* The members admitted in the last span ticks.
GrantedIn(span) == {m \in grants : m.at > now - span}

\* Requests that Redis answered are limited over every stretch of a window
\* less the delay of a call and the skew of two clocks, whatever the order in
\* which the scripts of several instances run.
Span == Window - MaxDelay - 2 * MaxSkew

LimitHolds == Cardinality(GrantedIn(Span)) <= Limit

\* The sorted set never outgrows the limit.
SetIsBounded == Cardinality(zset) <= Limit

\* A request is refused only if the limit was used up within a window plus the
\* delay and the skew: refusals, failed calls and expired members do not count.
RefusalIsDeserved ==
    [][\A r \in Requests :
          call[r].pc = "eval" /\ call'[r].pc = "refused"
          => Cardinality(GrantedIn(Window + MaxDelay + 2 * MaxSkew)) >= Limit]_vars

=============================================================================
