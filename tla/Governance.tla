------------------------------ MODULE Governance ------------------------------
(***************************************************************************)
(* What the pipeline of internal/api/openai promises about a request,      *)
(* whatever path it takes through caches, retries, fallbacks, tool rounds  *)
(* and streams.  Messages are checked before any provider sees them, and   *)
(* checked again whenever messages are added; content reaches the client   *)
(* only from checked messages, and only if it is itself fit to be seen;    *)
(* and a request is answered once, after which no provider sees it.        *)
(***************************************************************************)
EXTENDS Naturals

CONSTANT Requests

VARIABLES
    stage,      \* stage[r]: idle, checking, cleared or answered
    told,       \* told[r]: how often messages were added to r
    seen,       \* seen[r]: what providers were sent for r
    given       \* given[r]: nothing, a refusal, or fit content

vars == <<stage, told, seen, given>>

Init ==
    /\ stage = [r \in Requests |-> "idle"]
    /\ told = [r \in Requests |-> 0]
    /\ seen = [r \in Requests |-> {}]
    /\ given = [r \in Requests |-> "nothing"]

Move(r, from, to) == stage[r] \in from /\ stage' = [stage EXCEPT ![r] = to]

Submit(r) == Move(r, {"idle"}, "checking") /\ UNCHANGED <<told, seen, given>>
Clear(r) == Move(r, {"checking"}, "cleared") /\ UNCHANGED <<told, seen, given>>
Add(r) ==
    /\ Move(r, {"cleared"}, "checking")
    /\ told' = [told EXCEPT ![r] = @ + 1]
    /\ UNCHANGED <<seen, given>>

\* A provider is sent one thing, possibly once more.
Sends(r) == \E x \in seen'[r] : seen' = [seen EXCEPT ![r] = @ \cup {x}]
Send(r) == stage[r] = "cleared" /\ Sends(r) /\ UNCHANGED <<stage, told, given>>

\* The call that is sent may be the one that settles the answer.
Settle(r, from, what) ==
    /\ Move(r, from, "answered")
    /\ given' = [given EXCEPT ![r] = what]
    /\ UNCHANGED told
    /\ UNCHANGED seen \/ (stage[r] = "cleared" /\ Sends(r))

Refuse(r) == Settle(r, {"idle", "checking", "cleared"}, "refusal")
Deliver(r) == Settle(r, {"cleared"}, "content")

Next == \E r \in Requests :
    Submit(r) \/ Clear(r) \/ Add(r) \/ Send(r) \/ Refuse(r) \/ Deliver(r)

Spec == Init /\ [][Next]_vars
=============================================================================
