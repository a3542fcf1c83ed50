------------------------------ MODULE ToolLoop ------------------------------
(***************************************************************************)
(* MCP tools in a chat completion: internal/mcp merge.go adds the tools of *)
(* the registry to the request, executor.go runs the tool calls of the     *)
(* response and asks the model again, until no call is left or a limit is  *)
(* reached.  The registry and the connections change meanwhile (see        *)
(* ToolCatalog).  Of the conversation, the messages of a round are kept    *)
(* until the model has been asked.                                         *)
(***************************************************************************)
EXTENDS Integers, Sequences, Subsequences

CONSTANTS
    Names,          \* tool names
    MaxRounds,      \* max_tool_rounds
    MaxCalls        \* bound on the calls of one response

VARIABLES
    caller,                 \* tools of the request
    registry,               \* the tools registered now
    tools,                  \* what the model is offered: records [name, from]
    injected,               \* MCPToolNames
    at, round, late,        \* where the handler is; the deadline has passed
    calls,                  \* names of the calls of the current response
    mcp, results,           \* indices of the MCP calls; what became of each
    messages,               \* the assistant message and tool results of this round
    ran,                    \* names run on a server
    outcome

vars == <<caller, registry, tools, injected, at, round, late, calls, mcp, results,
          messages, ran, outcome>>

From(names, who) == {[name |-> n, from |-> who] : n \in names}

\* max_total_duration_seconds counts from the start of Execute.
Init ==
    /\ caller \in SUBSET Names
    /\ registry \in SUBSET Names
    /\ tools = {} /\ injected = {}
    /\ at = "merge" /\ round = 0 /\ late = FALSE
    /\ calls = <<>> /\ mcp = {} /\ results = <<>> /\ messages = <<>>
    /\ ran = {} /\ outcome = "none"

Ends(how) == at' = "end" /\ outcome' = how

\* The merge settings, and whether tool_choice is "none"
Settings == [strategy : {"skip", "error"}, inject : BOOLEAN, none : BOOLEAN]

\* MergeTools without an error: the offered tools that do not collide with the caller's;
\* none when there is no caller tool and auto_inject_tools is off.
Added(c, offered) == IF c.none \/ (caller = {} /\ ~c.inject) THEN {} ELSE offered \ caller

\* The tools the key may use are offered.
Merge ==
    /\ at = "merge"
    /\ \E c \in Settings, offered \in SUBSET registry :
          IF ~c.none /\ c.strategy = "error" /\ offered \cap caller # {}
          THEN Ends("merge_error") /\ UNCHANGED <<tools, injected>>
          ELSE /\ injected' = Added(c, offered)
               /\ tools' = From(caller, "caller") \cup From(injected', "mcp")
               /\ at' = "ask" /\ UNCHANGED outcome
    /\ UNCHANGED <<caller, registry, round, late, calls, mcp, results, messages, ran>>

Responses == UNION {[1..n -> Names] : n \in 0..MaxCalls}

\* ExecuteGoverned, first call: a response, or an error
Ask ==
    /\ at = "ask"
    /\ \/ /\ calls' \in Responses
          /\ IF injected = {} THEN Ends("answered") ELSE at' = "loop" /\ UNCHANGED outcome
       \/ Ends("provider_error") /\ UNCHANGED calls
    /\ UNCHANGED <<caller, registry, tools, injected, round, late, mcp, results, messages, ran>>

\* partitionToolCalls looks the names up in the registry of this moment.
MCPCalls == {i \in DOMAIN calls : calls[i] \in registry}

\* the head of the loop
Loop ==
    /\ at = "loop"
    /\ IF round >= MaxRounds THEN Ends(IF calls = <<>> THEN "answered" ELSE "max_rounds") /\ UNCHANGED <<mcp, results>>
       ELSE IF MCPCalls = {} THEN Ends("answered") /\ UNCHANGED <<mcp, results>>
       ELSE IF late THEN Ends("timeout") /\ UNCHANGED <<mcp, results>>
       ELSE /\ mcp' = MCPCalls
            /\ results' = [i \in DOMAIN calls |-> "none"]
            /\ at' = "run" /\ UNCHANGED outcome
    /\ UNCHANGED <<caller, registry, tools, injected, round, late, calls, messages, ran>>

\* One goroutine per call looks the tool up again and calls its server; a tool that is
\* gone, a server that is not connected and a failed call give an error result.
RunCall(i) ==
    /\ at = "run" /\ i \in mcp /\ results[i] = "none"
    /\ \/ results' = [results EXCEPT ![i] = "error"] /\ UNCHANGED ran
       \/ /\ calls[i] \in registry
          /\ \E r \in {"ok", "error"} : results' = [results EXCEPT ![i] = r]
          /\ ran' = ran \cup {calls[i]}
    /\ UNCHANGED <<caller, registry, tools, injected, at, round, late, calls, mcp, messages, outcome>>

InOrder == Places(mcp, Len(calls))

\* (variant: the k-th result gets the id of the k-th call of the response)
AnswersByPosition == [k \in 1..Len(InOrder) |-> [role |-> "tool", id |-> k, result |-> results[InOrder[k]]]]
\* Results are built in the order of the MCP calls, each with the id of its call.
Answers == [k \in 1..Len(InOrder) |-> [role |-> "tool", id |-> InOrder[k], result |-> results[InOrder[k]]]]

Counted == round + 1

\* buildAssistantMessage takes all calls of the response.
Collect ==
    /\ at = "run" /\ \A i \in mcp : results[i] # "none"
    /\ messages' = <<[role |-> "assistant", ids |-> DOMAIN calls]>> \o Answers
    /\ round' = Counted
    /\ at' = "invoke"
    /\ UNCHANGED <<caller, registry, tools, injected, late, calls, mcp, results, ran, outcome>>

\* invokeWithDeadline: a deadline that has passed ends the loop with the response at
\* hand; every other failure, one by the deadline included, is an error.
Invoke ==
    /\ at = "invoke"
    /\ \/ late /\ Ends("timeout") /\ UNCHANGED <<calls, mcp, results>>
       \/ ~late /\ Ends("mcp_error") /\ UNCHANGED <<calls, mcp, results>>
       \/ /\ ~late /\ calls' \in Responses /\ at' = "loop"
          /\ mcp' = {} /\ results' = <<>> /\ UNCHANGED outcome
    /\ UNCHANGED <<caller, registry, tools, injected, round, late, messages, ran>>

\* The catalog and the clock; they matter until the request has ended.
Environment ==
    /\ at # "end"
    /\ \/ /\ \E n \in Names : registry' = IF n \in registry THEN registry \ {n} ELSE registry \cup {n}
          /\ UNCHANGED late
       \/ at \notin {"merge", "ask"} /\ ~late /\ late' = TRUE /\ UNCHANGED registry
    /\ UNCHANGED <<caller, tools, injected, at, round, calls, mcp, results, messages, ran, outcome>>

Handler == Merge \/ Ask \/ Loop \/ Collect \/ Invoke \/ \E i \in 1..MaxCalls : RunCall(i)

Next == Handler \/ Environment

Spec == Init /\ [][Next]_vars

-----------------------------------------------------------------------------

TypeOK ==
    /\ caller \subseteq Names /\ registry \subseteq Names
    /\ injected \subseteq Names /\ ran \subseteq Names
    /\ tools \subseteq [name : Names, from : {"caller", "mcp"}]
    /\ at \in {"merge", "ask", "loop", "run", "invoke", "end"}
    /\ round \in 0..MaxRounds
    /\ calls \in Responses /\ mcp \subseteq DOMAIN calls
    /\ \A i \in DOMAIN results : results[i] \in {"none", "ok", "error"}
    /\ outcome \in {"none", "merge_error", "provider_error", "answered", "max_rounds", "timeout", "mcp_error"}

\* Whatever order the goroutines of a round finish in, and whatever calls of the
\* caller stand between the MCP calls, a tool message carries the result of the very
\* call whose id it has, and no call is answered twice.
AnswersFitCalls ==
    at = "invoke" =>
        /\ \A k \in 2..Len(messages) :
              messages[k].id \in mcp /\ messages[k].result = results[messages[k].id]
        /\ \A j, k \in 2..Len(messages) : messages[j].id = messages[k].id => j = k

\* A call the model makes to a tool defined by the caller is left to the caller:
\* "Duplicate tool names: caller wins by default" (docs/agent-protocols.md).
CallerWins == ran \cap caller = {}

\* When the model is asked again every call of the assistant message before it has its
\* tool message: the comment of buildAssistantMessage, "Include all tool calls
\* (MCP + non-MCP) in the assistant message so the conversation history is consistent".
HistoryConsistent ==
    at = "invoke" => messages[1].ids = {messages[k].id : k \in 2..Len(messages)}

=============================================================================
