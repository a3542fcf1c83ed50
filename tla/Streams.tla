------------------------------- MODULE Streams -------------------------------
(***************************************************************************)
(* What answers in several pieces: the provider adapters, the streams of   *)
(* A2A tasks, the tool loop and the sessions of the MCP server.  They      *)
(* share no state.                                                         *)
(***************************************************************************)
EXTENDS Integers, Sequences

CONSTANTS
    MaxMessages, MaxEvents,                             \* Adapters
    Watchers, Deployments, ChanCap, MaxSends, Attempts, \* TaskStream
    Tools, MaxRounds, MaxCalls,                         \* ToolLoop
    Clients, Kinds, MaxKeys, QueueCap, MaxPending, None \* MCPServer

\* Every channel has room for something; a webhook is called at least once.
ASSUME StreamsAssumption ==
    /\ ChanCap \in Nat \ {0} /\ QueueCap \in Nat \ {0}
    /\ Attempts \in Nat \ {0} /\ MaxSends \in Nat \ {0}
    /\ MaxCalls \in Nat /\ MaxPending \in Nat

VARIABLES
    adapter, asked, sent, at, context, consumer, seen, chunk, got, finished, error,
    mode, object, database, exec, stage, tries, canceled, wire, chan, watchers, shut,
    closed, panicked, stream,
    caller, registry, tools, injected, pc, round, late, calls, mcp, results, messages,
    ran, outcome,
    keys, pending, silent, session, queue, reader, left, todo, view

adaptVars == <<adapter, asked, sent, at, context, consumer, seen, chunk, got, finished, error>>
streamVars == <<mode, object, database, exec, stage, tries, canceled, wire, chan, watchers,
                shut, closed, panicked, stream>>
loopVars == <<caller, registry, tools, injected, pc, round, late, calls, mcp, results,
              messages, ran, outcome>>
serverVars == <<keys, pending, silent, session, queue, reader, left, todo, view>>

-----------------------------------------------------------------------------

Adapt == INSTANCE Adapters
Watch == INSTANCE TaskStream WITH MaxRounds <- MaxSends
Loop == INSTANCE ToolLoop WITH Names <- Tools, at <- pc
Server == INSTANCE MCPServer WITH dead <- left

-----------------------------------------------------------------------------
(* Properties, explained in the modules that state them *)

\* The requests built by the adapters: every message is sent, once.
MessagesSentOnce == Adapt!MessagesSentOnce
\* CompleteChat and StreamChat of the adapters: the text arrives, in order.
TextKept == Adapt!TextKept
\* StreamChat of the adapters: a cancelled request leaves no goroutine behind.
ReaderEnds == Adapt!ReaderEnds
\* Notify, Unsubscribe and Close of TaskNotifier: no channel is closed twice.
ChannelsClosedOnce == Watch!ChannelsClosedOnce
\* handleTaskStream: the stream of a queued task ends.
StreamEnds == Watch!StreamEnds
\* executeToolCalls: a tool message carries the result of the call whose id it has.
AnswersFitCalls == Loop!AnswersFitCalls
\* NotifyToolsChanged, ServeSSE: a client that reads its stream comes to know the list.
ViewFollows == Server!ViewFollows
=============================================================================
