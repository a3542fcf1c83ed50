------------------------------- MODULE Gateway -------------------------------
(***************************************************************************)
(* internal/api/openai: what happens to a request between its arrival and  *)
(* its answer.  A request is a chat completion (with the rounds that       *)
(* execute MCP tools), a streamed one, an embedding, or a call that the    *)
(* MCP server and the A2A handler make through ExecuteForMCP.  Requests    *)
(* share the response cache and the health tracker.                        *)
(*                                                                         *)
(* Texts.  Guardrails divide texts into clean ones, ones they redact       *)
(* ("pii") and ones they block ("bad"); the messages of a request are a    *)
(* sequence of these classes, and redaction turns "pii" into "clean".      *)
(*                                                                         *)
(* The rate limiter, the budget, the circuit breaker and the provider      *)
(* answer any way they can; SlidingWindow, TokenBucket, Ledger and         *)
(* CircuitBreaker say which answers they give.                             *)
(***************************************************************************)
EXTENDS Integers, Sequences, FiniteSets

CONSTANTS
    Requests,
    Profiles,       \* Profiles[r]: what r can be: kind, keyed, allowed,
                    \* model, text, eu, tools
    Targets,        \* provider:region:model triples
    Route,          \* Route[m]: the primary target of m, then its fallbacks
    Residents,      \* the targets in the region that X-Data-Residency asks for
    Keyless,        \* targets whose provider has no adapter or no active key
    Guarded,        \* models for which guardrails run
    Attempts,       \* attempts per target
    MaxRounds,      \* tool rounds of the executor
    MaxChunks,      \* bound on the chunks of a stream
    NoTarget        \* providers.Target{}

\* A model that can be asked for has a route.
ASSUME RouteAssumption ==
    \A r \in Requests : \A p \in Profiles[r] : Route[p.model] \in Seq(Targets)

Texts == {"clean", "pii", "bad"}

VARIABLES
    req,        \* req[r]: the request r, see Fresh
    cache,      \* the exact cache: messages to response
    health      \* the health tracker: target to its record

vars == <<req, cache, health>>

NoResp == [text |-> "clean", calls |-> FALSE]
Resps == [text : Texts, calls : BOOLEAN]

\* skip: the identity has SkipRateLimit, SkipBudget and SkipUsageLog;
\* at, try: where executePlan is; up: the goroutine that reads a stream;
\* answer: what the client gets.  History: sent, the targets that received the
\* messages of a round; rated, the calls of CheckRPM; paid, the calls providers
\* answered; logged, the usage entries;
\* broke, the provider broke the stream off.
Fresh(p) ==
    [pc |-> "admit", prof |-> p, msgs |-> <<p.text>>, skip |-> FALSE, round |-> 0,
     plan |-> <<>>, at |-> 1, try |-> 1, resp |-> NoResp, up |-> "none", chunks |-> 0,
     answer |-> "none", sent |-> {}, rated |-> 0, paid |-> 0, logged |-> 0, broke |-> FALSE]

Unused == [kind |-> "none", keyed |-> FALSE, allowed |-> TRUE, model |-> "none", text |-> "clean",
           eu |-> FALSE, tools |-> FALSE]
Idle == [Fresh(Unused) EXCEPT !.pc = "idle"]

Init ==
    /\ req = [r \in Requests |-> Idle]
    /\ cache = <<>>
    /\ health = <<>>

Kind(r) == req[r].prof.kind
Set(r, q) == req' = [req EXCEPT ![r] = q]

\* The handler returns, and its local state is gone.
Answer(r, q, a) ==
    Set(r, [q EXCEPT !.pc = "done", !.answer = a, !.msgs = <<>>, !.plan = <<>>,
                     !.at = 1, !.try = 1, !.up = "none", !.chunks = 0, !.resp.calls = FALSE])

\* Usage is logged for a key, unless the identity skips it.
Logged(q) == [q EXCEPT !.logged = IF q.prof.keyed /\ ~q.skip THEN @ + 1 ELSE @]

-----------------------------------------------------------------------------
(* internal/health/tracker.go and the order of a plan *)

\* A record says whether the last call failed and whether the last success is
\* within the window; a target without a record is taken for healthy.
IsHealthy(t) == t \notin DOMAIN health \/ (~health[t].failed /\ health[t].recent)

Recorded(t, rec) == [u \in DOMAIN health \cup {t} |-> IF u = t THEN rec ELSE health[u]]
RecordSuccess(t) == health' = Recorded(t, [failed |-> FALSE, recent |-> TRUE])
RecordFailure(t) ==
    health' = Recorded(t, [failed |-> TRUE,
                           recent |-> t \in DOMAIN health /\ health[t].recent])

\* A record grows older than the window; after an hour it is dropped.
Stale(t) ==
    /\ t \in DOMAIN health /\ health[t].recent
    /\ health' = Recorded(t, [health[t] EXCEPT !.recent = FALSE])
    /\ UNCHANGED <<req, cache>>

Evict(t) ==
    /\ t \in DOMAIN health /\ ~health[t].recent /\ ~health[t].failed
    /\ health' = [u \in DOMAIN health \ {t} |-> health[u]]
    /\ UNCHANGED <<req, cache>>

\* A loop over targets that appends those in S to its result.
Kept(targets, S) ==
    LET kept[i \in 0 .. Len(targets)] ==
            IF i = 0 THEN <<>>
            ELSE IF targets[i] \in S THEN Append(kept[i - 1], targets[i])
            ELSE kept[i - 1]
    IN  kept[Len(targets)]

\* Healthy targets first, in the given order; nothing moves if none is healthy.
ReorderByHealth(targets) ==
    LET healthy == {t \in Targets : IsHealthy(t)}
    IN  Kept(targets, healthy) \o Kept(targets, Targets \ healthy)

Plan(m) == ReorderByHealth(Route[m])

\* (variant: rather than deny the request, keep what there is)
FilterOrAll(targets, eu) ==
    IF eu /\ Kept(targets, Residents) # <<>> THEN Kept(targets, Residents) ELSE targets

FilterByResidency(targets, eu) == IF eu THEN Kept(targets, Residents) ELSE targets

-----------------------------------------------------------------------------
(* Arrival, and the checks before a provider is called *)

\* ChatCompletions plans and filters before it runs any check; Embeddings and
\* ExecuteGoverned on its own plan later.  A filter that leaves nothing denies
\* the request.
Arrive(r, p) ==
    /\ req[r].pc = "idle"
    /\ LET q == Fresh(p)
           plan == FilterByResidency(Plan(p.model), p.eu)
       IN  IF p.kind \notin {"chat", "stream"} THEN Set(r, q)
           ELSE IF plan = <<>> THEN Answer(r, q, "residency_denied")
           ELSE Set(r, [q EXCEPT !.plan = plan])
    /\ UNCHANGED <<cache, health>>

Worst(msgs) ==
    LET found == {msgs[i] : i \in DOMAIN msgs}
    IN  IF "bad" \in found THEN "bad" ELSE IF "pii" \in found THEN "pii" ELSE "clean"
Redacted(msgs) == [i \in DOMAIN msgs |-> IF msgs[i] = "pii" THEN "clean" ELSE msgs[i]]

Limited(q) == q.prof.keyed /\ ~q.skip

checkRateLimit(q) == IF Limited(q) THEN {"ok", "rate_limit_exceeded"} ELSE {"ok"}
checkBudget(q) ==
    IF Limited(q) THEN {"ok", "budget_exceeded", "budget_check_failed"} ELSE {"ok"}
modelAllowed(q) == q.prof.allowed \/ ~q.prof.keyed \/ q.prof.kind = "embed"
ShouldRun(q) == q.prof.model \in Guarded /\ q.prof.kind # "embed"
checkInputGuardrails(q) ==
    IF ~ShouldRun(q) THEN {"ok"}
    ELSE {"guardrail_error", IF Worst(q.msgs) = "bad" THEN "guardrail_block" ELSE "ok"}

\* A rejection of a tool round leaves the executor wrapped in another error,
\* which ChatCompletions reports as mcp_error.
Reject(r, q, why) == Answer(r, q, IF q.round > 0 THEN "mcp_error" ELSE why)

\* (variant: a redaction is reported and not applied)
Unredacted(q) == q.msgs
\* Redaction rewrites the messages the caller holds.
Checked(q) == IF ShouldRun(q) THEN Redacted(q.msgs) ELSE q.msgs

\* Steps 1 to 4 of ExecuteGoverned, and preStreamGovernance: model, rate,
\* budget, guardrails, in this order.
Admit(r) ==
    LET q == req[r] IN
    /\ q.pc = "admit"
    /\ \E rate \in checkRateLimit(q), budget \in checkBudget(q),
          guard \in checkInputGuardrails(q) :
          LET counted == [q EXCEPT !.rated = IF Limited(q) THEN @ + 1 ELSE @]
          IN  IF ~modelAllowed(q) THEN Reject(r, q, "model_not_allowed")
              ELSE IF rate # "ok" THEN Reject(r, counted, rate)
              ELSE IF budget # "ok" THEN Reject(r, counted, budget)
              ELSE IF guard # "ok" THEN Reject(r, counted, guard)
              ELSE Set(r, [counted EXCEPT !.pc = "lookup", !.msgs = Checked(q)])
    /\ UNCHANGED <<cache, health>>

\* HashRequest: the model and the messages, redacted; not the key, not the
\* residency.
HashRequest(q) == <<q.prof.model, q.msgs>>
Governed(q) == q.prof.kind \in {"chat", "mcp"}
Delivered(r, q) == IF q.prof.kind = "chat" THEN Set(r, [q EXCEPT !.pc = "tools"])
                   ELSE Answer(r, q, "ok")

\* Step 5: a hit skips everything that follows in ExecuteGoverned.
Hit(r) ==
    LET q == req[r] IN
    /\ q.pc = "lookup" /\ Governed(q) /\ HashRequest(q) \in DOMAIN cache
    /\ Delivered(r, [q EXCEPT !.resp = cache[HashRequest(q)]])
    /\ UNCHANGED <<cache, health>>

\* Step 6: the plan of the context, or a new one.  The context of a tool round
\* has none; Embeddings filters its own.
Miss(r) ==
    LET q == req[r]
        plan == IF q.plan # <<>> THEN q.plan
                ELSE FilterByResidency(Plan(q.prof.model), q.prof.eu /\ ~Governed(q))
    IN
    /\ q.pc = "lookup" /\ ~(Governed(q) /\ HashRequest(q) \in DOMAIN cache)
    /\ IF plan = <<>> THEN Answer(r, q, "residency_denied")
       ELSE Set(r, [q EXCEPT !.pc = "exec", !.plan = plan])
    /\ UNCHANGED <<cache, health>>

\* An entry expires or is the least recently used.
Forget(k) ==
    /\ k \in DOMAIN cache
    /\ cache' = [j \in DOMAIN cache \ {k} |-> cache[j]]
    /\ UNCHANGED <<req, health>>

-----------------------------------------------------------------------------
(* executePlan, openStream and executeEmbeddingsPlan *)

Current(q) == q.plan[q.at]
\* (variant: after the last target, the first again)
NextAround(q) == [q EXCEPT !.at = (@ % Len(q.plan)) + 1, !.try = 1]
NextTarget(q) == [q EXCEPT !.at = @ + 1, !.try = 1]

\* No plan gets a call through: executePlan returns the empty target, and that
\* is the one whose failure ExecuteGoverned records.
Fails(r, q) ==
    /\ Reject(r, q, "provider_error")
    /\ IF Governed(q) THEN RecordFailure(NoTarget) ELSE UNCHANGED health

GiveUp(r) ==
    LET q == req[r] IN
    /\ q.pc = "exec" /\ q.at > Len(q.plan)
    /\ Fails(r, q)
    /\ UNCHANGED cache

\* The breaker refuses (openStream does not ask it), or there is no adapter or
\* no key.
Skip(r) ==
    LET q == req[r] IN
    /\ q.pc = "exec" /\ q.at <= Len(q.plan) /\ q.try = 1
    /\ Current(q) \in Keyless \/ q.prof.kind # "stream"
    /\ Set(r, NextTarget(q))
    /\ UNCHANGED <<cache, health>>

\* A provider gets the messages of the request.
Sending(r) ==
    LET q == req[r] IN
    /\ q.pc = "exec" /\ q.at <= Len(q.plan) /\ Current(q) \notin Keyless
Sent(q) == [q EXCEPT !.sent = @ \cup {[to |-> Current(q), round |-> q.round,
                                       text |-> Worst(q.msgs)]}]

\* A retryable error with attempts left is retried, or the client leaves during
\* the backoff (Embeddings sleeps without looking); any other error is final.
CallFails(r) ==
    LET q == Sent(req[r]) IN
    /\ Sending(r)
    /\ \/ Set(r, NextTarget(q)) /\ UNCHANGED health
       \/ q.try < Attempts /\ Set(r, [q EXCEPT !.try = @ + 1]) /\ UNCHANGED health
       \/ q.try < Attempts /\ q.prof.kind # "embed" /\ Fails(r, q)
    /\ UNCHANGED cache

CallSucceeds(r, text, calls) ==
    LET q == [Sent(req[r]) EXCEPT !.paid = @ + 1] IN
    /\ Sending(r)
    /\ \/ /\ Governed(q)
          /\ RecordSuccess(Current(q))
          /\ Set(r, [q EXCEPT !.pc = "finish",
                         !.resp = [text |-> text, calls |-> calls]])
       \/ /\ q.prof.kind = "stream"
          /\ Set(r, [q EXCEPT !.pc = "stream", !.up = "open"]) /\ UNCHANGED health
       \/ /\ q.prof.kind = "embed"
          /\ Answer(r, Logged(q), "ok") /\ UNCHANGED health
    /\ UNCHANGED cache

\* (variant: the response is cached before it is redacted)
CachesFirst(q, out) == q.resp
Cached(q, out) == out.resp

\* Steps 8 to 10: output guardrails, cache, usage.
Finish(r) ==
    LET q == req[r]
        out == [q EXCEPT !.resp.text = IF ShouldRun(q) THEN "clean" ELSE @]
    IN
    /\ q.pc = "finish"
    /\ \/ ShouldRun(q) /\ Reject(r, q, "guardrail_error") /\ UNCHANGED cache
       \/ ShouldRun(q) /\ q.resp.text = "bad" /\ Reject(r, q, "guardrail_block")
          /\ UNCHANGED cache
       \/ /\ ~(ShouldRun(q) /\ q.resp.text = "bad")
          /\ cache' = [k \in DOMAIN cache \cup {HashRequest(q)} |->
                          IF k = HashRequest(q) THEN Cached(q, out) ELSE cache[k]]
          /\ Delivered(r, Logged(out))
    /\ UNCHANGED health

MoreTools(q) == q.prof.tools /\ q.resp.calls /\ q.round < MaxRounds

\* (variant: a tool round is a request like any other)
CountedRound(q, result) ==
    [q EXCEPT !.pc = "admit", !.round = @ + 1, !.msgs = @ \o <<q.resp.text, result>>,
              !.plan = <<>>, !.at = 1, !.try = 1]
\* (variant: a tool round goes straight to the providers)
UncheckedRound(q, result) ==
    [q EXCEPT !.pc = "lookup", !.skip = TRUE, !.round = @ + 1,
              !.msgs = @ \o <<q.resp.text, result>>, !.plan = <<>>, !.at = 1, !.try = 1]
\* The next round: what the model and the tool said is added to the messages.
\* Its context carries no plan, and its identity skips the limits and the usage.
NextRound(q, result) ==
    [q EXCEPT !.pc = "admit", !.skip = TRUE, !.round = @ + 1,
              !.msgs = @ \o <<q.resp.text, result>>, !.plan = <<>>, !.at = 1, !.try = 1]

\* ChatCompletions after ExecuteGoverned: while the response asks for MCP tools
\* and neither the rounds nor the time are used up, the tools run, and their
\* results go back through ExecuteGoverned.  The identity is copied from that of
\* the key: without one, the copy dereferences nil and the server drops the
\* connection.
Tools(r) ==
    LET q == req[r] IN
    /\ q.pc = "tools"
    /\ \/ Answer(r, q, "ok")        \* nothing to run, or out of time
       \/ MoreTools(q) /\ ~q.prof.keyed /\ Answer(r, q, "panic")
       \/ MoreTools(q) /\ q.prof.keyed
          /\ \E result \in Texts : Set(r, NextRound(q, result))
    /\ UNCHANGED <<cache, health>>

-----------------------------------------------------------------------------
(* A stream: the adapter's goroutine and the handler's select *)

Streaming(r, states) == req[r].pc = "stream" /\ req[r].up \in states

\* The channel of chunks is unbuffered: the goroutine hands a chunk to the
\* handler, which adds it to the text it will check and passes it on.
Relay(r, text) ==
    LET q == req[r] IN
    /\ Streaming(r, {"open"}) /\ q.chunks < MaxChunks
    /\ Set(r, [q EXCEPT !.chunks = @ + 1, !.resp.text = Worst(<<@, text>>)])
    /\ UNCHANGED <<cache, health>>

\* The goroutine is done: after [DONE] it closes both channels; after an error
\* it sends the error, which is buffered, and then closes both.
Upstream(r) ==
    LET q == req[r] IN
    /\ \/ Streaming(r, {"open"}) /\ Set(r, [q EXCEPT !.up = "closed"])
       \/ Streaming(r, {"open"}) /\ Set(r, [q EXCEPT !.up = "error", !.broke = TRUE])
       \/ Streaming(r, {"error"}) /\ Set(r, [q EXCEPT !.up = "error_closed"])
    /\ UNCHANGED <<cache, health>>

\* The select takes the error, or the client is gone.
StreamError(r) ==
    /\ Streaming(r, {"open", "closed", "error", "error_closed"})
    /\ Answer(r, req[r], "stream_error")
    /\ UNCHANGED <<cache, health>>

\* The select finds the chunks closed, whether or not an error is waiting:
\* check the whole text, then [DONE] and postStreamGovernance.  A redaction is
\* only reported, as the text has left.
StreamEnd(r) ==
    LET q == req[r] IN
    /\ Streaming(r, {"closed", "error_closed"})
    /\ \/ ShouldRun(q) /\ Answer(r, q, "stream_blocked")
       \/ ~(ShouldRun(q) /\ q.resp.text = "bad") /\ Answer(r, Logged(q), "ok")
    /\ UNCHANGED <<cache, health>>

Step(r) ==
    \/ Admit(r)
    \/ Hit(r)
    \/ Miss(r)
    \/ GiveUp(r)
    \/ Skip(r)
    \/ CallFails(r)
    \/ \E text \in Texts, calls \in BOOLEAN : CallSucceeds(r, text, calls)
    \/ Finish(r)
    \/ Tools(r)
    \/ StreamError(r)
    \/ StreamEnd(r)

Next ==
    \/ \E r \in Requests :
          \/ \E p \in Profiles[r] : Arrive(r, p)
          \/ Step(r)
          \/ \E text \in Texts : Relay(r, text)
          \/ Upstream(r)
    \/ \E t \in Targets \cup {NoTarget} : Stale(t) \/ Evict(t)
    \/ \E k \in DOMAIN cache : Forget(k)

Spec == Init /\ [][Next]_vars

\* Fairness: the handler's goroutine keeps running, a provider answers or its
\* client times out, and the adapter's goroutine closes what it began to close.
\* Nothing makes a provider end a stream, nor a client leave it.
Fairness ==
    \A r \in Requests :
        /\ WF_vars(~Streaming(r, {"open"}) /\ Step(r))
        /\ WF_vars(~Streaming(r, {"open"}) /\ Upstream(r))
FairSpec == Spec /\ Fairness

-----------------------------------------------------------------------------
(* Properties *)

Pcs == {"idle", "admit", "lookup", "exec", "finish", "tools", "stream", "done"}
Receipts == [to : Targets, round : 0 .. MaxRounds, text : Texts]

\* The requests, the cache and the health tracker hold values of their types.
TypeOK ==
    /\ \A r \in Requests :
          LET q == req[r] IN
          /\ q.pc \in Pcs
          /\ q.prof \in Profiles[r] \cup {Unused}
          /\ q.msgs \in Seq(Texts) /\ Len(q.msgs) = (IF q.pc = "done" THEN 0 ELSE 1 + 2 * q.round)
          /\ q.round \in 0 .. MaxRounds
          /\ q.plan \in Seq(Targets) /\ q.at \in 1 .. Len(q.plan) + 1
          /\ q.try \in 1 .. Attempts
          /\ q.resp \in Resps
          /\ q.up \in {"none", "open", "closed", "error", "error_closed"}
          /\ q.chunks \in 0 .. MaxChunks
          /\ q.sent \subseteq Receipts
          /\ q.broke \in BOOLEAN
    /\ \A k \in DOMAIN cache : cache[k] \in Resps
    /\ \A t \in DOMAIN health : health[t] \in [failed : BOOLEAN, recent : BOOLEAN]

\* Fit content: what guardrails pass.  The chunks of a stream leave before the
\* text is complete, so there only a blocked text is unfit.
Fit(q) ==
    \/ ~ShouldRun(q)
    \/ q.resp.text = "clean"
    \/ q.prof.kind = "stream" /\ q.resp.text = "pii"

Stage(q) ==
    CASE q.pc = "idle" -> "idle"
      [] q.pc = "admit" -> "checking"
      [] q.pc = "done" -> "answered"
      [] OTHER -> "cleared"

Given(q) ==
    CASE q.answer = "none" -> "nothing"
      [] q.answer = "ok" -> IF Fit(q) THEN "content" ELSE "unfit"
      [] OTHER -> "refusal"

Abstract == INSTANCE Governance WITH
    stage <- [r \in Requests |-> Stage(req[r])],
    told  <- [r \in Requests |-> req[r].round],
    seen  <- [r \in Requests |-> req[r].sent],
    given <- [r \in Requests |-> Given(req[r])]

\* The pipeline (ChatCompletions, streamChatCompletions, Embeddings and
\* ExecuteGoverned with cache, retries, fallbacks and tool rounds) implements
\* what Governance promises.
Promise == Abstract!Spec

\* No provider is sent a text that the guardrails of its model redact or block:
\* neither the client's messages, nor what a model or a tool said in an earlier
\* tool round.
SentIsChecked ==
    \A r \in Requests : ShouldRun(req[r]) =>
        \A x \in req[r].sent : x.text = "clean"

\* The cache holds no response that the guardrails of its model redact or
\* block, although a hit is served without looking at it again.
CacheIsChecked ==
    \A k \in DOMAIN cache : k[1] \in Guarded => cache[k].text = "clean"

\* A client request is counted against the rate limit at most once and pays for
\* at most one usage entry, however many tool rounds it takes; and if it was
\* answered without a tool round, its usage entry is there exactly if a
\* provider answered it.
CountedOnce ==
    \A r \in Requests :
        LET q == req[r] IN
        /\ q.rated <= 1 /\ q.logged <= 1
        /\ q.answer = "ok" /\ q.prof.keyed /\ q.round = 0 => q.logged = q.paid

\* With X-Data-Residency, the messages the client wrote go to no target outside
\* the region: not by fallback, not by retry, not by reordering.
ResidencyOfMessages ==
    \A r \in Requests : req[r].prof.eu /\ req[r].prof.kind # "mcp" =>
        \A x \in req[r].sent : x.round = 0 => x.to \in Residents

\* A tool round is planned without the filter: its messages, which begin with
\* those of the client, can leave the region.
ResidencyEnforced ==
    \A r \in Requests : req[r].prof.eu /\ req[r].prof.kind # "mcp" =>
        \A x \in req[r].sent : x.to \in Residents

\* A stream that the provider broke off is not ended as if it were complete.
BrokenStreamReported ==
    \A r \in Requests : req[r].broke => req[r].answer # "ok"

\* Every request that has arrived is answered: retries, fallbacks and tool
\* rounds come to an end.  A stream is answered once the provider has ended it.
EveryRequestAnswered ==
    \A r \in Requests :
        (req[r].pc \notin {"idle", "stream"} \/ req[r].up \in {"closed", "error"})
            ~> (req[r].pc \in {"done"} \/ Streaming(r, {"open"}))
=============================================================================
