-------------------------- MODULE MCCircuitBreaker --------------------------
(* Instances of CircuitBreaker for TLC. *)
EXTENDS CircuitBreaker, TLC

CONSTANTS i1, i2, c1, c2

\* Two requests on one instance.
MCHomeOne == (c1 :> i1) @@ (c2 :> i1)

\* One request on each of two instances.
MCHomeApart == (c1 :> i1) @@ (c2 :> i2)

\* With one request on each, the instances may be exchanged together with their requests.
MCExchange ==
    {f \in Permutations({c1, c2, i1, i2}) :
        \A c \in {c1, c2} : f[c] \in {c1, c2} /\ f[MCHomeApart[c]] = MCHomeApart[f[c]]}

=============================================================================
