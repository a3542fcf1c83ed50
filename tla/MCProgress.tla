----------------------------- MODULE MCProgress ------------------------------
(***************************************************************************)
(* Instance for TLC of A2A tasks on one gateway without messages to        *)
(* existing tasks, and of the circuit breaker with a command that may be   *)
(* lost.  They share no state, so each behaviour moves one of them, part,  *)
(* and leaves the other where it starts.                                   *)
(***************************************************************************)
EXTENDS A2ATasks

CONSTANTS i1, c1, c2

VARIABLES part, local, hash, healthy, faults, phase, call

breakerVars == <<local, hash, healthy, faults, phase, call>>

Breaker == INSTANCE CircuitBreaker WITH
    Instances <- {i1}, Callers <- {c1, c2}, Home <- [c \in {c1, c2} |-> i1],
    Threshold <- 2, Window <- 1, Cooldown <- 1, Second <- 2, Attempts <- 1, MaxFaults <- 1

InitAll ==
    /\ part \in {"breaker", "tasks"}
    /\ Breaker!Init /\ (part # "breaker" => healthy[i1])
    /\ Init

NextAll ==
    /\ \/ part = "breaker" /\ Breaker!Next /\ UNCHANGED vars
       \/ part = "tasks" /\ Next /\ UNCHANGED breakerVars
    /\ UNCHANGED part

\* The fairness conditions of CircuitBreaker and of A2ATasks.
FairBreaker ==
    /\ WF_breakerVars(part = "breaker" /\ Breaker!Tick)
    /\ \A c \in {c1, c2} :
          WF_breakerVars(part = "breaker" /\ (Breaker!RecordSuccess(c)
                             \/ Breaker!RecordFailure(c) \/ Breaker!NoAttempt(c)))

FairTasks ==
    /\ \A r \in Requests : WF_vars(part = "tasks" /\ Serve(r))
    /\ \A w \in Workers : WF_vars(part = "tasks" /\ Work(w))
    /\ WF_vars(part = "tasks" /\ (ShutdownClose \/ ShutdownCancel \/ ShutdownDone))

FairAll ==
    /\ InitAll /\ [][NextAll]_<<part, breakerVars, vars>>
    /\ FairBreaker /\ FairTasks

-----------------------------------------------------------------------------
(* Properties; those of tasks are explained in A2ATasks *)

\* localAllow, redisAllow: a breaker that refuses admits again, the shared one as long as
\* nothing is lost.
BreakersReopen == Breaker!LocalReopens /\ Breaker!SharedReopens
=============================================================================
