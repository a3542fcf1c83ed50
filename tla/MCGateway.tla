------------------------------ MODULE MCGateway ------------------------------
(* Gateway on a small instance: a model with guardrails routed to a target in *)
(* the region and one outside it, and one without guardrails.                 *)
EXTENDS Gateway

P(kind, keyed, model, text, eu, tools) ==
    [kind |-> kind, keyed |-> keyed, allowed |-> TRUE, model |-> model, text |-> text,
     eu |-> eu, tools |-> tools]

Requested ==
    { P("chat", TRUE, "g", "pii", TRUE, TRUE),
      P("chat", FALSE, "g", "bad", FALSE, TRUE),
      P("chat", FALSE, "u", "clean", FALSE, TRUE),
      P("stream", TRUE, "g", "clean", TRUE, FALSE),
      P("embed", TRUE, "u", "pii", TRUE, FALSE),
      P("mcp", TRUE, "g", "clean", FALSE, FALSE),
      P("mcp", FALSE, "g", "clean", FALSE, FALSE),
      [P("chat", TRUE, "u", "clean", FALSE, FALSE) EXCEPT !.allowed = FALSE] }

\* A call of ExecuteForMCP without a key shares cache and tracker with a request of
\* any other kind.
Unkeyed == {p \in Requested : p.kind = "mcp" /\ ~p.keyed}
MCProfiles == [r1 |-> Requested \ Unkeyed, r2 |-> Unkeyed]

MCRoute == [g |-> <<"us", "eu">>, u |-> <<"keyless", "us">>]
=============================================================================
