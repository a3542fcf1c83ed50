------------------------------ MODULE MCStreams ------------------------------
(***************************************************************************)
(* Instance for TLC of what answers in several pieces: the provider        *)
(* adapters, the streams of A2A tasks, the tool loop and the sessions of   *)
(* the MCP server.  They share no state, so each behaviour moves one of    *)
(* them, part, and leaves the others where they start.                     *)
(***************************************************************************)
EXTENDS Streams

CONSTANTS w1, c1

VARIABLE part

-----------------------------------------------------------------------------
(* The values that TLC takes *)

\* Two messages of all roles: the last message of the user may be either, both or none.
MCAsked == [1..2 -> Adapt!Roles]

\* One mode on top of each store, and the other gateway with and without loss.
With(on) ==
    [m \in {"persistent", "blocking", "remote", "lossy", "push", "again"} |-> m \in on]
MCDeployments ==
    {With(on) : on \in
        UNION {{p, p \cup {"again"}, p \cup {"push"}, p \cup {"blocking"}} :
                 p \in {{}, {"persistent"}}}
        \cup {{"persistent", "remote"}, {"persistent", "remote", "lossy"}}}

\* Keys that are exposed under their name, under a tool name, and, once a name is taken
\* away, under their id.
MCKinds == {[name |-> [base |-> "chat", n |-> 0, tidy |-> FALSE], tool |-> None],
            [name |-> None, tool |-> [base |-> "code", n |-> 0, tidy |-> TRUE]]}

-----------------------------------------------------------------------------
(* One of them moves *)

Parts == {"adapters", "stream", "loop", "server"}

\* The components that do not move start in one fixed state.
InitAll ==
    /\ part \in Parts
    /\ adapter \in IF part = "adapters" THEN Adapt!Names ELSE {"openai"}
    /\ asked \in IF part = "adapters" THEN MCAsked ELSE {<<"user">>}
    /\ Adapt!Init
    /\ mode \in IF part = "stream" THEN MCDeployments ELSE {With({})}
    /\ Watch!Init
    /\ Loop!Init /\ (part # "loop" => caller = {} /\ registry = {})
    /\ Server!Init

NextAll ==
    /\ \/ part = "adapters" /\ Adapt!Next /\ UNCHANGED <<streamVars, loopVars, serverVars>>
       \/ part = "stream" /\ Watch!Next /\ UNCHANGED <<adaptVars, loopVars, serverVars>>
       \/ part = "loop" /\ Loop!Next /\ UNCHANGED <<adaptVars, streamVars, serverVars>>
       \/ part = "server" /\ Server!Next /\ UNCHANGED <<adaptVars, streamVars, loopVars>>
    /\ UNCHANGED part

allVars == <<part, adaptVars, streamVars, loopVars, serverVars>>

\* The fairness conditions of every component (Fairness of its module), when it moves.
Runs(p) == part = p

FairAdapters ==
    /\ WF_adaptVars(Runs("adapters") /\ Adapt!Deliver)
    /\ WF_adaptVars(Runs("adapters") /\ context = "cancelled"
                      /\ (Adapt!Send \/ Adapt!Completing \/ Adapt!Reading))

FairStream ==
    /\ \A k \in 1..2 : WF_streamVars(Runs("stream") /\ Watch!Execution(k))
    /\ \A n \in 0..2 : WF_streamVars(Runs("stream") /\ Watch!Notify(n))
    /\ WF_streamVars(Runs("stream") /\ Watch!Watch(w1))
    /\ WF_streamVars(Runs("stream") /\ Watch!Relay)

FairAll ==
    /\ InitAll /\ [][NextAll]_allVars
    /\ FairAdapters /\ FairStream
=============================================================================
