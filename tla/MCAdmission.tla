----------------------------- MODULE MCAdmission -----------------------------
(***************************************************************************)
(* Instance for TLC of the components that decide whether a request is let *)
(* in, what of it, and where it goes: the two rate limiters, keys, routing *)
(* and guardrails.  They share no state, so each behaviour moves one of    *)
(* them, part, and leaves the others where they start.                     *)
(***************************************************************************)
EXTENDS RateLimiters, Keys, Policies, TLC

CONSTANTS r1, r2

\* Two callers on two instances whose clocks differ as much as they may.
MCClock == (r1 :> -MaxSkew) @@ (r2 :> MaxSkew)

VARIABLE part

-----------------------------------------------------------------------------
(* The values that TLC takes *)

\* Rows and tokens are interchangeable.
Symmetry == Permutations(Ids) \cup Permutations(Tokens)

\* Two providers, the first with two regions; tags that follow the name and tags that
\* do not; every strategy, with no, some and equal latencies.
eu == <<"eu", "west">>
us == <<"us", "east">>
ap == <<"ap">>
Reg(n, p, t) == [name |-> n, priority |-> p, tag |-> t]
Firsts == {<<Reg(eu, p, ""), Reg(us, q, t)>> : p \in {0, 2}, q \in {1, 2}, t \in {"", "eu"}}
Seconds == {<<>>} \cup {<<Reg(n, p, t)>> : n \in {eu, ap}, p \in {1, 2}, t \in {"", "us"}}
To(p, w) == [provider |-> p, weight |-> w]
MCJobs ==
    {[regions |-> ("p1" :> f @@ "p2" :> s), local |-> l, strategy |-> st[1],
      latency |-> st[2], sick |-> k, routes |-> rt, fallbacks |-> <<To("p2", 0)>>] :
        f \in Firsts, s \in Seconds, l \in {<<>>, us},
        st \in {<<"priority", <<>>>>, <<"latency", <<>>>>, <<"latency", us :> 1>>,
                <<"latency", us :> 1 @@ eu :> 1>>},
        k \in {{}, {<<"p1", us>>}, {<<"p1", eu>>, <<"p2", eu>>}},
        rt \in {<<To("p1", 0)>>, <<To("p2", 2), To("p1", 0)>>}}

\* Pipelines of two stages of every kind; requests of one or two messages.
MCStages ==
    {[kind |-> "pii", types |-> t, action |-> a] : t \in {{}, {"cc"}}, a \in {"redact", "block"}}
    \cup {[kind |-> "regex", rules |-> <<[token |-> "secret", action |-> a],
                                         [token |-> "word", action |-> b]>>] :
            a \in {"redact", "log"}, b \in {"block", "redact"}}
    \cup {[kind |-> "keyword", token |-> k, action |-> "block"] : k \in {"word", "mark"}}
    \cup {[kind |-> "keyword", token |-> "word", action |-> "log"]}
    \cup {[kind |-> "length", min |-> 2, max |-> 3], [kind |-> "plugin"]}
    \cup {[kind |-> "json_schema", strict |-> b] : b \in BOOLEAN}
    \cup {[kind |-> "webhook", onError |-> b, onTimeout |-> ~b] : b \in BOOLEAN}
MCPipelines == {<<s, t>> : s, t \in MCStages}
Words == {"cc", "email", "secret", "word", "invalid", "text"}
MCContents ==
    {<<<<x, y>>>> : x, y \in Words} \cup {<<<<x>>, <<y>>>> : x, y \in Words} \cup {<<<<>>>>}

-----------------------------------------------------------------------------
(* One of them moves *)

Parts == {"window", "bucket", "keys", "routing", "guardrails"}

\* The components that do not move start in one fixed state.
InitAll ==
    /\ part \in Parts
    /\ Init /\ Bucket!Init
    /\ KeysInit /\ (part # "keys" => path = "auth")
    /\ job \in IF part = "routing" THEN Jobs ELSE {CHOOSE j \in Jobs : TRUE}
    /\ Route!Init
    /\ stages \in IF part = "guardrails" THEN Pipelines ELSE {CHOOSE p \in Pipelines : TRUE}
    /\ given \in IF part = "guardrails" THEN Contents ELSE {<<<<>>>>}
    /\ Guard!Init /\ (part # "guardrails" => direction = "input")

NextAll ==
    /\ \/ /\ part = "window" /\ Next
          /\ UNCHANGED <<bucketVars, keyVars, routeVars, guardVars>>
       \/ /\ part = "bucket" /\ Bucket!Next
          /\ UNCHANGED <<vars, keyVars, routeVars, guardVars>>
       \/ /\ part = "keys" /\ KeysNext
          /\ UNCHANGED <<vars, bucketVars, routeVars, guardVars>>
       \/ /\ part = "routing" /\ Route!Plan
          /\ UNCHANGED <<vars, bucketVars, keyVars, guardVars>>
       \/ /\ part = "guardrails" /\ Guard!Next
          /\ UNCHANGED <<vars, bucketVars, keyVars, routeVars>>
    /\ UNCHANGED part

allVars == <<part, vars, bucketVars, keyVars, routeVars, guardVars>>

SpecAll == InitAll /\ [][NextAll]_allVars
=============================================================================
