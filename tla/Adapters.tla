------------------------------ MODULE Adapters ------------------------------
(***************************************************************************)
(* internal/providers: the nine adapters translate an OpenAI request into  *)
(* the provider's format, and its response or its stream of events back.   *)
(*                                                                         *)
(* A message is its role; its text is its position in the request.  The    *)
(* text of a response block or stream event is its position too.           *)
(***************************************************************************)
EXTENDS Integers, Sequences, Subsequences

CONSTANTS
    MaxMessages,    \* bound on the messages of a request
    MaxEvents       \* bound on the blocks of a response, the events of a stream

VARIABLES
    adapter,        \* the adapter called
    asked,          \* roles of the messages of the request
    sent,           \* the provider's request [system, messages]
    at,             \* "request", "complete", then "reading", "sending" (the goroutine), "end"
    context,        \* "live" or "cancelled"
    consumer,       \* "listens" to the channels or "left"
    seen,           \* events read; for those with text, that text
    chunk,          \* chunk about to be sent
    got,            \* chunks, or texts of the response, that reached the caller
    finished,       \* the provider sent a finish reason
    error           \* "none", or what errs (capacity 1) or the call returned

vars == <<adapter, asked, sent, at, context, consumer, seen, chunk, got, finished, error>>

Compatible == {"openai", "azure", "groq", "mistral"}
Names == Compatible \cup {"anthropic", "bedrock", "cohere", "gemini", "vertex"}
Roles == {"system", "user", "assistant", "tool"}

Nothing == [role |-> FALSE, text |-> 0, finish |-> FALSE]
Opening == [role |-> TRUE, text |-> 0, finish |-> FALSE]
Text(n) == [role |-> FALSE, text |-> n, finish |-> FALSE]
Finish == [role |-> FALSE, text |-> 0, finish |-> TRUE]

Init ==
    /\ adapter \in Names
    /\ asked \in UNION {[1..n -> Roles] : n \in 1..MaxMessages}
    /\ sent = [system |-> <<>>, messages |-> <<>>]
    /\ at = "request" /\ context = "live" /\ consumer = "listens"
    /\ seen = <<>> /\ chunk = Nothing /\ got = <<>>
    /\ finished = FALSE /\ error = "none"

-----------------------------------------------------------------------------
(* Requests *)

Message(role, n) == [role |-> role, text |-> n]
Positions(roles) == Places({i \in DOMAIN asked : asked[i] \in roles}, Len(asked))
System == Positions({"system"})
Others == Positions(Roles \ {"system"})

WithRoles(system, role(_)) ==
    [system |-> system, messages |-> [k \in DOMAIN Others |-> Message(role(asked[Others[k]]), Others[k])]]

\* The four compatible adapters send the messages as they are.
AsIs == [system |-> <<>>, messages |-> [i \in DOMAIN asked |-> Message(asked[i], i)]]

toAnthropicRequest == WithRoles(System, LAMBDA r : IF r = "assistant" THEN r ELSE "user")
toBedrockRequest == WithRoles(System, LAMBDA r : IF r = "assistant" THEN r ELSE "user")

\* Each system message replaces the one before it.
LastSystem == IF System = <<>> THEN <<>> ELSE <<System[Len(System)]>>
toGeminiRequest == WithRoles(LastSystem, LAMBDA r : IF r = "assistant" THEN "model" ELSE r)
toVertexRequest == WithRoles(LastSystem, LAMBDA r : IF r = "assistant" THEN "model" ELSE r)

CohereRole(r) == CASE r = "assistant" -> "CHATBOT" [] r = "system" -> "SYSTEM" [] OTHER -> "USER"
History == [i \in DOMAIN asked |-> Message(CohereRole(asked[i]), i)]
Users == Places({i \in DOMAIN asked : CohereRole(asked[i]) = "USER"}, Len(asked))
LastUser == IF Users = <<>> THEN 0 ELSE Users[Len(Users)]

\* (variant: the last entry leaves the history, whatever its role)
CohereDropsLast ==
    [system |-> <<>>,
     messages |-> SubSeq(History, 1, Len(History) - 1) \o IF LastUser = 0 THEN <<>> ELSE <<History[LastUser]>>]
\* The last user message leaves the history and becomes the message of the request;
\* here it follows the history.
toCohereRequest ==
    [system |-> <<>>,
     messages |-> IF LastUser = 0 THEN History
                  ELSE SubSeq(History, 1, LastUser - 1)
                         \o SubSeq(History, LastUser + 1, Len(History)) \o <<History[LastUser]>>]

Translated ==
    CASE adapter \in Compatible -> AsIs
      [] adapter = "anthropic"  -> toAnthropicRequest
      [] adapter = "bedrock"    -> toBedrockRequest
      [] adapter = "gemini"     -> toGeminiRequest
      [] adapter = "vertex"     -> toVertexRequest
      [] adapter = "cohere"     -> toCohereRequest

\* The request goes out: the call returns an error, or a body that is read at once
\* (CompleteChat) or by a goroutine (StreamChat).  A failed call is retryable unless the
\* context was cancelled.
Send ==
    /\ at = "request"
    /\ sent' = Translated
    /\ \/ at' \in {"complete", "reading"} /\ UNCHANGED error
       \/ at' = "end" /\ error' \in (IF context = "cancelled" THEN {"cancelled"} ELSE {"retryable", "status"})
    /\ UNCHANGED <<adapter, asked, context, consumer, seen, chunk, got, finished>>

-----------------------------------------------------------------------------
(* Responses *)

Blocks == UNION {[1..n -> {"text", "other"}] : n \in 0..MaxEvents}
TextBlocks(blocks) == Places({i \in DOMAIN blocks : blocks[i] = "text"}, Len(blocks))

\* The content of the choice: the texts of the blocks, one after the other.  Blocks of
\* another type have no text.
Complete(name) ==
    /\ adapter = name /\ at = "complete"
    /\ at' = "end"
    /\ \/ \E blocks \in Blocks :
            /\ seen' = TextBlocks(blocks)
            /\ got' = [k \in DOMAIN seen' |-> Text(seen'[k])]
            /\ UNCHANGED error
       \/ error' \in {"read", "decode"} /\ UNCHANGED <<seen, got>>
       \/ name \in {"gemini", "vertex"} /\ error' = "provider" /\ UNCHANGED <<seen, got>>
    /\ UNCHANGED <<adapter, asked, sent, context, consumer, chunk, finished>>

OpenAIComplete == Complete("openai")
AzureComplete == Complete("azure")
GroqComplete == Complete("groq")
MistralComplete == Complete("mistral")
AnthropicComplete == Complete("anthropic")
BedrockComplete == Complete("bedrock")
CohereComplete == Complete("cohere")
GeminiComplete == Complete("gemini")
VertexComplete == Complete("vertex")

-----------------------------------------------------------------------------
(* Streams *)

\* Events: "start", "text", "finish", "both" (text and a finish reason), "other".
Carries(kind) == kind \in {"text", "both"}

\* A chunk of a compatible provider is passed on.
openAIChunk(kind, n) ==
    [role |-> kind = "start", text |-> IF Carries(kind) THEN n ELSE 0, finish |-> kind \in {"finish", "both"}]
anthropicEventToOpenAIChunk(kind, n) ==
    CASE kind = "start" -> Opening [] kind = "text" -> Text(n) [] kind = "finish" -> Finish [] OTHER -> Nothing
bedrockEventToOpenAIChunk(kind, n) ==
    CASE kind = "start" -> Opening [] kind = "text" -> Text(n) [] kind = "finish" -> Finish [] OTHER -> Nothing
cohereEventToOpenAIChunk(kind, n) ==
    CASE kind = "start" -> Opening [] kind = "text" -> Text(n) [] OTHER -> Nothing
\* (variant: the finish reason is looked at first)
geminiFinishFirst(kind, n) ==
    IF kind \in {"finish", "both"} THEN Finish ELSE IF Carries(kind) THEN Text(n) ELSE Nothing
\* Text is looked at first.
geminiEventToOpenAIChunk(kind, n) ==
    IF Carries(kind) THEN Text(n) ELSE IF kind = "finish" THEN Finish ELSE Nothing
vertexEventToOpenAIChunk(kind, n) ==
    IF Carries(kind) THEN Text(n) ELSE IF kind = "finish" THEN Finish ELSE Nothing

Stops(e) == at' = "end" /\ error' = e

\* The goroutine reads a line: an event, [DONE], something that is no event, the end.
\* A read that fails once the context is cancelled is no error.
Reads(name, kinds, Chunk(_, _), atDone) ==
    /\ adapter = name /\ at = "reading"
    /\ \/ /\ Len(seen) < MaxEvents
          /\ \E kind \in kinds :
                LET n == Len(seen) + 1  c == Chunk(kind, n)
                IN  /\ seen' = Append(seen, IF Carries(kind) THEN n ELSE 0)
                    /\ finished' = (finished \/ kind \in {"finish", "both"})
                    /\ IF c = Nothing THEN UNCHANGED <<at, chunk>> ELSE at' = "sending" /\ chunk' = c
          /\ UNCHANGED error
       \/ /\ IF atDone = Nothing THEN at' = "end" /\ UNCHANGED chunk ELSE at' = "last" /\ chunk' = atDone
          /\ UNCHANGED <<seen, finished, error>>
       \/ Stops("decode") /\ UNCHANGED <<seen, finished, chunk>>
       \/ name \in {"gemini", "vertex"} /\ Stops("provider") /\ UNCHANGED <<seen, finished, chunk>>
       \/ Stops(IF context = "cancelled" THEN error ELSE "read") /\ UNCHANGED <<seen, finished, chunk>>
    /\ UNCHANGED <<adapter, asked, sent, context, consumer, got>>

Blocked == {"start", "text", "finish", "other"}
Candidates == {"text", "finish", "both", "other"}

OpenAIStream == Reads("openai", Blocked \cup Candidates, openAIChunk, Nothing)
AzureStream == Reads("azure", Blocked \cup Candidates, openAIChunk, Nothing)
GroqStream == Reads("groq", Blocked \cup Candidates, openAIChunk, Nothing)
MistralStream == Reads("mistral", Blocked \cup Candidates, openAIChunk, Nothing)
AnthropicStream == Reads("anthropic", Blocked, anthropicEventToOpenAIChunk, Nothing)
BedrockStream == Reads("bedrock", Blocked, bedrockEventToOpenAIChunk, Nothing)
CohereStream == Reads("cohere", Blocked, cohereEventToOpenAIChunk, Finish)
GeminiStream == Reads("gemini", Candidates, geminiEventToOpenAIChunk, Nothing)
VertexStream == Reads("vertex", Candidates, vertexEventToOpenAIChunk, Nothing)

Reading ==
    \/ OpenAIStream \/ AzureStream \/ GroqStream \/ MistralStream \/ AnthropicStream
    \/ BedrockStream \/ CohereStream \/ GeminiStream \/ VertexStream

\* (variant: the goroutine only waits for its consumer)
NeverGivesUp == FALSE
GivesUp == context = "cancelled"

\* select: the chunk is taken, or the context is done.
Deliver ==
    /\ at \in {"sending", "last"}
    /\ chunk' = Nothing
    /\ \/ /\ consumer = "listens"
          /\ got' = Append(got, chunk)
          /\ at' = IF at = "last" THEN "end" ELSE "reading"
          /\ UNCHANGED error
       \/ GivesUp /\ Stops("cancelled") /\ UNCHANGED got
    /\ UNCHANGED <<adapter, asked, sent, context, consumer, seen, finished>>

\* The client disconnects, or the handler returns, which cancels the request context.
Cancel ==
    /\ context = "live" /\ at # "end"
    /\ context' = "cancelled"
    /\ consumer' \in {"listens", "left"}
    /\ UNCHANGED <<adapter, asked, sent, at, seen, chunk, got, finished, error>>

\* A consumer that still listens leaves when it sees the context is done.
Leave ==
    /\ context = "cancelled" /\ consumer = "listens" /\ at # "end"
    /\ consumer' = "left"
    /\ UNCHANGED <<adapter, asked, sent, at, context, seen, chunk, got, finished, error>>

Completing ==
    \/ OpenAIComplete \/ AzureComplete \/ GroqComplete \/ MistralComplete \/ AnthropicComplete
    \/ BedrockComplete \/ CohereComplete \/ GeminiComplete \/ VertexComplete

Next == Send \/ Completing \/ Reading \/ Deliver \/ Cancel \/ Leave

Spec == Init /\ [][Next]_vars

\* A cancelled context makes the call and every read return, so the goroutine moves;
\* a provider may be silent for ever otherwise.
Fairness ==
    /\ WF_vars(Deliver)
    /\ WF_vars(context = "cancelled" /\ (Send \/ Completing \/ Reading))

FairSpec == Spec /\ Fairness

-----------------------------------------------------------------------------

TypeOK ==
    /\ adapter \in Names
    /\ at \in {"request", "complete", "reading", "sending", "last", "end"}
    /\ context \in {"live", "cancelled"} /\ consumer \in {"listens", "left"}
    /\ Len(seen) <= MaxEvents /\ Len(got) <= MaxEvents + 1
    /\ \A k \in DOMAIN sent.messages : sent.messages[k].text \in DOMAIN asked
    /\ error \in {"none", "retryable", "status", "cancelled", "read", "decode", "provider"}
    /\ finished \in BOOLEAN

\* Every adapter sends every message that is not a system message, and sends it once:
\* taking the last user message out of Cohere's history, or mapping roles, loses and
\* repeats nothing.
MessagesSentOnce ==
    at # "request" =>
        \A i \in DOMAIN asked : asked[i] # "system" =>
            \E k \in DOMAIN sent.messages :
                /\ sent.messages[k].text = i
                /\ \A j \in DOMAIN sent.messages : sent.messages[j].text = i => j = k

Texts(chunks) == NonZero([k \in DOMAIN chunks |-> chunks[k].text])
Read == NonZero(seen)

\* The text that reaches the caller is, in order, the text the provider sent; a stream that
\* ends without an error has delivered all of it.
TextKept ==
    /\ Len(Texts(got)) <= Len(Read) /\ Texts(got) = SubSeq(Read, 1, Len(Texts(got)))
    /\ at = "end" /\ error = "none" => Texts(got) = Read

\* A cancelled request leaves no goroutine behind: the reader stops even if nobody takes
\* its chunk, and its error always fits into the channel.
ReaderEnds == (context = "cancelled") ~> (at = "end")

\* A finish reason of Gemini reaches the caller unless the stream fails: the comment "If
\* finish reason is set, emit a finish chunk" (providers/gemini/adapter.go).
FinishReasonKept ==
    adapter = "gemini" /\ at = "end" /\ context = "live" /\ error = "none" /\ finished
        => \E k \in DOMAIN got : got[k].finish

=============================================================================
