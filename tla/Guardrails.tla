---------------------------- MODULE Guardrails ------------------------------
(***************************************************************************)
(* internal/guardrails: a pipeline of stages checks the messages of a      *)
(* request, or the content of a response, one stage after the other.       *)
(*                                                                         *)
(* A message is a sequence of tokens; what a pattern, a keyword list or a  *)
(* schema matches is a token.  A response is checked as one message.       *)
(***************************************************************************)
EXTENDS Integers, Sequences

CONSTANTS
    Pipelines,      \* configured sequences of stages
    Contents        \* the messages, sequences of sequences of tokens

VARIABLES
    direction,      \* "input" or "output"
    stages, given,  \* the pipeline and what it is called with
    current,        \* what the next stage is given; <<>> is the nil slice
    done,           \* stages that have run
    saw,            \* what the last of them was given
    hook,           \* what the webhook did, a redaction if there was one
    verdict         \* "running", or the Action returned

vars == <<direction, stages, given, current, done, saw, hook, verdict>>

PIITypes == {"cc", "email"}
Mark == "mark"              \* the replacement of a redaction

Has(ms, token) == \E i \in DOMAIN ms : \E j \in DOMAIN ms[i] : ms[i][j] = token

\* ReplaceAllString in every message
Replace(ms, tokens) ==
    [i \in DOMAIN ms |-> [j \in DOMAIN ms[i] |-> IF ms[i][j] \in tokens THEN Mark ELSE ms[i][j]]]

Pass == [action |-> "pass"]
Block == [action |-> "block"]
Redact(ms) == [action |-> "redact", messages |-> ms]

-----------------------------------------------------------------------------
(* The stages *)

\* filterPIIPatterns: types that name no pattern mean all patterns.
Patterns(types) == IF types \cap PIITypes = {} THEN PIITypes ELSE types \cap PIITypes

PIIStage(s, ms) ==
    IF ~\E t \in Patterns(s.types) : Has(ms, t) THEN Pass
    ELSE IF s.action = "block" THEN Block
    ELSE Redact(Replace(ms, Patterns(s.types)))

\* A rule that only logs counts as a match that changes nothing.
Apply(rule, acc) ==
    IF acc.action = "block" \/ ~Has(acc.messages, rule.token) THEN acc
    ELSE IF rule.action = "block" THEN [acc EXCEPT !.action = "block"]
    ELSE Redact(IF rule.action = "redact" THEN Replace(acc.messages, {rule.token}) ELSE acc.messages)

\* Rules apply in order; the first blocking rule that matches what the earlier ones
\* left decides.
RegexStage(s, ms) ==
    LET after[n \in 0 .. Len(s.rules)] ==
            IF n = 0 THEN [action |-> "pass", messages |-> ms] ELSE Apply(s.rules[n], after[n - 1])
    IN  after[Len(s.rules)]

KeywordStage(s, ms) == IF Has(ms, s.token) /\ s.action # "log" THEN Block ELSE Pass

\* A replacement is longer than what it replaces.
Chars(m) ==
    LET upTo[n \in 0 .. Len(m)] ==
            IF n = 0 THEN 0 ELSE upTo[n - 1] + (IF m[n] = Mark THEN 2 ELSE 1)
    IN  upTo[Len(m)]
Length(ms) ==
    LET upTo[n \in 0 .. Len(ms)] == IF n = 0 THEN 0 ELSE upTo[n - 1] + Chars(ms[n])
    IN  upTo[Len(ms)]

LengthStage(s, ms) ==
    IF (s.min > 0 /\ Length(ms) < s.min) \/ (s.max > 0 /\ Length(ms) > s.max) THEN Block ELSE Pass

\* Only JSON output is validated: the token "invalid" is JSON that breaks the schema.
JSONSchemaStage(s, ms) ==
    IF direction = "output" /\ Has(ms, "invalid") /\ s.strict THEN Block ELSE Pass

\* call: what the webhook answers, and what it fails with.  The timeout of the HTTP
\* client is an error; only the deadline of the request context is a timeout.
Answers == {"pass", "block", "redact", "empty", "error", "deadline"}

\* The redacted text of the webhook is in Message, which is where the output pipeline
\* looks for it; the input pipeline takes RedactedMessages, which is nil.
HookText == <<<<Mark>>>>

WebhookStage(s, answer) ==
    CASE answer = "block" -> Block
      [] answer = "redact" -> Redact(IF direction = "output" THEN HookText ELSE <<>>)
      [] answer = "error" -> IF s.onError THEN Block ELSE Pass
      [] answer = "deadline" -> IF s.onTimeout THEN Block ELSE Pass
      [] OTHER -> Pass

\* pluginStageAdapter: a plugin blocks or passes; what it rewrites is not used.
PluginStage(answer) == IF answer \in {"block", "error"} THEN Block ELSE Pass

Check(s, ms, answer) ==
    CASE s.kind = "pii" -> PIIStage(s, ms)
      [] s.kind = "regex" -> RegexStage(s, ms)
      [] s.kind = "keyword" -> KeywordStage(s, ms)
      [] s.kind = "length" -> LengthStage(s, ms)
      [] s.kind = "json_schema" -> JSONSchemaStage(s, ms)
      [] s.kind = "webhook" -> WebhookStage(s, answer)
      [] s.kind = "plugin" -> PluginStage(answer)

-----------------------------------------------------------------------------
(* The pipeline *)

Init ==
    /\ direction \in {"input", "output"}
    /\ stages \in Pipelines
    /\ given \in {ms \in Contents : direction = "output" => Len(ms) = 1}
    /\ current = given
    /\ done = 0 /\ saw = <<>> /\ hook = "none" /\ verdict = "running"

\* (variant: each stage checks the messages of the request)
NextSeesGiven(r) == given
\* What the stages after one that answered r are given.
NextSees(r) == IF r.action = "redact" THEN r.messages ELSE current

\* One turn of the loop in CheckInput and CheckOutput.
Stage ==
    /\ verdict = "running" /\ done < Len(stages)
    /\ LET s == stages[done + 1]
       IN  \E answer \in IF s.kind \in {"webhook", "plugin"} THEN Answers ELSE {"pass"} :
             LET r == Check(s, current, answer)
             IN  /\ current' = NextSees(r)
                 /\ verdict' = IF r.action = "block" THEN "block" ELSE "running"
                 /\ hook' = IF s.kind = "webhook" /\ hook # "redact" THEN answer ELSE hook
    /\ saw' = current
    /\ done' = done + 1
    /\ UNCHANGED <<direction, stages, given>>

\* The end of CheckInput: no messages, or messages that did not change, are a Pass.
Conclude ==
    /\ verdict = "running" /\ done = Len(stages)
    /\ verdict' = IF current # <<>> /\ current # given THEN "redact" ELSE "pass"
    /\ UNCHANGED <<direction, stages, given, current, done, saw, hook>>

Next == Stage \/ Conclude

Spec == Init /\ [][Next]_vars

\* What the caller goes on with.
Delivered == IF verdict = "redact" THEN current ELSE given

-----------------------------------------------------------------------------
(* Properties *)

\* What stage s, were it asked again, would remove or refuse in ms.  (A redaction
\* after a length check may change the length; that check is not repeated.)
Objects(s, ms) ==
    LET r == Check(s, ms, "pass")
    IN  s.kind # "length" /\ (r.action = "block" \/ (r.action = "redact" /\ r.messages # ms))

\* A stage that blocks the text of a redaction.
RefusesMark(s) ==
    \/ s.kind = "keyword" /\ s.token = Mark /\ s.action # "log"
    \/ s.kind = "regex" /\ \E i \in DOMAIN s.rules : s.rules[i] = [token |-> Mark, action |-> "block"]

\* What leaves the pipeline is acceptable to every stage that does not refuse the
\* text of a redaction itself, the ones before a redaction included, unless a webhook
\* rewrote it: the redactions of CheckInput add up, and a redaction by a later stage
\* does not bring back what an earlier one removed.
EveryStageSatisfied ==
    verdict \in {"pass", "redact"} /\ hook # "redact" =>
       \A i \in DOMAIN stages : RefusesMark(stages[i]) \/ ~Objects(stages[i], Delivered)

\* CheckInput: "If any stage redacts, subsequent stages see the redacted version."
\* No stage is asked about nothing when the request has messages.
LaterStagesSee == done > 0 => saw # <<>>
=============================================================================
