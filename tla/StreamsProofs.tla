---------------------------- MODULE StreamsProofs ----------------------------
(***************************************************************************)
(* Proofs about what answers in several pieces, for any number of          *)
(* messages, events, watchers, clients, calls and keys: the requests and   *)
(* the texts of the provider adapters, the channels of the task            *)
(* notifier, the answers of the tool loop, and the tool lists of the MCP   *)
(* server's sessions.                                                      *)
(***************************************************************************)
EXTENDS Streams, SubsequenceProofs

-----------------------------------------------------------------------------
(* TaskNotifier *)

\* A handler of a stream, whose fields the steps update one by one.
Handlers ==
    /\ DOMAIN stream = Watchers
    /\ stream = [w \in Watchers |-> stream[w]]
    /\ \A w \in Watchers :
          /\ DOMAIN stream[w] = {"at", "last", "done", "held"}
          /\ stream[w] = [at |-> stream[w].at, last |-> stream[w].last,
                          done |-> stream[w].done, held |-> stream[w].held]

\* A registered channel is open, and a handler that has not subscribed has none.
ChannelInv ==
    /\ Handlers
    /\ watchers \cap closed = {}
    /\ \A w \in Watchers :
          stream[w].at \in {"idle", "found"} => w \notin watchers /\ w \notin closed
    /\ ~panicked

\* The handler of w goes on at x.
Goes(w, x) ==
    Handlers' /\ \A v \in Watchers : stream'[v].at = IF v = w THEN x ELSE stream[v].at

\* The assignments to the parts of a handler
LEMMA FieldUpdates ==
    ASSUME Handlers, NEW w \in Watchers, NEW x, NEW y, NEW z
    PROVE  /\ stream' = [stream EXCEPT ![w].at = x] => Goes(w, x)
           /\ stream' = [stream EXCEPT ![w].at = x, ![w].done = TRUE] => Goes(w, x)
           /\ stream' = [stream EXCEPT ![w].at = x, ![w].last = y, ![w].done = TRUE] => Goes(w, x)
           /\ stream' = [stream EXCEPT ![w].at = x, ![w].held = y, ![w].last = z] => Goes(w, x)
  BY DEF Handlers, Goes

LEMMA UnsubscribeKeeps ==
    ASSUME ChannelInv, NEW w \in Watchers, Watch!Unsubscribe(w), Goes(w, "ended"),
           stream[w].at \notin {"idle", "found"}
    PROVE  ChannelInv'
  <1>1. ~panicked'
    BY Zenon DEF ChannelInv, Watch!Unsubscribe
  <1>2. watchers' \cap closed' = {}
    BY Zenon DEF ChannelInv, Watch!Unsubscribe
  <1>3. ASSUME NEW v \in Watchers, stream'[v].at \in {"idle", "found"}
        PROVE  v \notin watchers' /\ v \notin closed'
    BY Zenon, <1>3 DEF ChannelInv, Watch!Unsubscribe, Goes
  <1> QED
    BY Zenon, <1>1, <1>2, <1>3 DEF ChannelInv, Goes

LEMMA NotifiedKeeps ==
    ASSUME ChannelInv, NEW group, NEW u, Watch!Notified(group, u), UNCHANGED stream
    PROVE  ChannelInv'
  <1>1. ~panicked'
    BY Zenon DEF ChannelInv, Watch!Notified
  <1> QED
    BY Zenon, <1>1 DEF ChannelInv, Handlers, Watch!Notified

LEMMA ChannelInitially == Watch!Init => ChannelInv
  <1> SUFFICES ASSUME Watch!Init PROVE ChannelInv
    OBVIOUS
  <1>1. ~panicked
    BY Zenon DEF Watch!Init
  <1>2. Handlers /\ watchers = {} /\ closed = {}
    BY Zenon DEF Watch!Init, Handlers
  <1> QED
    BY Zenon, <1>1, <1>2 DEF ChannelInv

LEMMA ChannelInductive == ChannelInv /\ [Watch!Next]_streamVars => ChannelInv'
  <1> SUFFICES ASSUME ChannelInv, [Watch!Next]_streamVars PROVE ChannelInv'
    OBVIOUS
  <1>0. Handlers
    BY Zenon DEF ChannelInv
  <1>1. ASSUME UNCHANGED <<watchers, closed, panicked, stream>> PROVE ChannelInv'
    BY Zenon, <1>1 DEF ChannelInv, Handlers
  <1>2. ASSUME NEW k \in Watch!Rounds, Watch!Execution(k) \/ Watch!SendAgain(k)
        PROVE  ChannelInv'
    BY Zenon, <1>1, <1>2 DEF Watch!Execution, Watch!Start, Watch!Finish, Watch!SendAgain, Watch!channels
  <1>3. CASE Watch!Cancel
    BY Zenon, <1>1, <1>3 DEF Watch!Cancel, Watch!channels
  <1>4. CASE Watch!Relay
    BY Zenon, <1>1, <1>4, NotifiedKeeps DEF Watch!Relay, Watch!channels
  <1>5. ASSUME NEW n \in Watch!Parties, Watch!NotifyLocal(n)
        PROVE  ChannelInv'
    BY Zenon, <1>1, <1>5, NotifiedKeeps DEF Watch!NotifyLocal, Watch!channels
  <1>6. ASSUME NEW n \in Watch!Parties, Watch!Publish(n) \/ Watch!Push(n)
        PROVE  ChannelInv'
    BY Zenon, <1>1, <1>6 DEF Watch!Publish, Watch!Push, Watch!channels
  <1>7. ASSUME NEW w \in Watchers, NEW x, Goes(w, x), UNCHANGED <<watchers, closed, panicked>>,
               stream[w].at \in {"idle", "found"} \/ x \notin {"idle", "found"}
        PROVE  ChannelInv'
    BY Zenon, <1>7 DEF ChannelInv, Goes
  <1>8. ASSUME NEW w \in Watchers, Watch!Open(w) PROVE ChannelInv'
    <2>1. CASE Watch!Stored \in Watch!Terminal
      <3>1. Goes(w, "ended")
        BY Zenon, <1>0, <1>8, <2>1, FieldUpdates DEF Watch!Open, Watch!SendsTerminal
      <3> QED
        BY Zenon, <1>7, <1>8, <3>1 DEF Watch!Open, Watch!channels
    <2>2. CASE Watch!Stored \notin Watch!Terminal
      <3>1. Goes(w, "found")
        BY Zenon, <1>0, <1>8, <2>2, FieldUpdates DEF Watch!Open, Watch!To
      <3> QED
        BY Zenon, <1>7, <1>8, <3>1 DEF Watch!Open, Watch!channels
    <2> QED
      BY <2>1, <2>2
  <1>9. ASSUME NEW w \in Watchers, Watch!Subscribe(w) PROVE ChannelInv'
    <2>1. Goes(w, "waiting")
      BY Zenon, <1>0, <1>9, FieldUpdates DEF Watch!Subscribe, Watch!To
    <2>2. w \notin watchers /\ w \notin closed
      BY Zenon, <1>9 DEF Watch!Subscribe, ChannelInv
    <2> QED
      BY <1>9, <2>1, <2>2 DEF Watch!Subscribe, ChannelInv, Goes
  <1>10. ASSUME NEW w \in Watchers, Watch!Recheck(w) PROVE ChannelInv'
    <2>1. CASE Watch!IsTerminal
      <3>1. Goes(w, "ended")
        BY Zenon, <1>0, <1>10, <2>1, FieldUpdates DEF Watch!Recheck, Watch!SendsTerminal
      <3>2. Watch!Unsubscribe(w) /\ stream[w].at = "waiting"
        BY Zenon, <1>10, <2>1 DEF Watch!Recheck
      <3> QED
        BY <3>1, <3>2, UnsubscribeKeeps
    <2>2. CASE ~Watch!IsTerminal
      <3>1. Goes(w, "open")
        BY Zenon, <1>0, <1>10, <2>2, FieldUpdates DEF Watch!Recheck, Watch!To
      <3> QED
        BY Zenon, <1>7, <1>10, <2>2, <3>1 DEF Watch!Recheck, Watch!channels
    <2> QED
      BY <2>1, <2>2
  <1>11. ASSUME NEW w \in Watchers, Watch!Receive(w) PROVE ChannelInv'
    <2>1. CASE chan[w] # <<>>
      <3> DEFINE u == Head(chan[w])
                 seen1 == Watch!Look(u)
      <3>1. stream' = [stream EXCEPT ![w].at = "sent", ![w].held = u, ![w].last = seen1]
        BY Zenon, <1>11, <2>1 DEF Watch!Receive
      <3> HIDE DEF u, seen1
      <3>2. Goes(w, "sent")
        BY Zenon, <1>0, <3>1, FieldUpdates
      <3> QED
        BY <1>7, <1>11, <2>1, <3>2 DEF Watch!Receive
    <2>2. CASE chan[w] = <<>>
      <3>1. Goes(w, "ended")
        BY Zenon, <1>0, <1>11, <2>2, FieldUpdates DEF Watch!Receive, Watch!To
      <3>2. Watch!Unsubscribe(w) /\ stream[w].at = "open"
        BY Zenon, <1>11, <2>2 DEF Watch!Receive
      <3> QED
        BY <3>1, <3>2, UnsubscribeKeeps
    <2> QED
      BY <2>1, <2>2
  <1>12. ASSUME NEW w \in Watchers, Watch!Decide(w) PROVE ChannelInv'
    <2>1. CASE Watch!Look(stream[w].held) \in Watch!Terminal
      <3>1. Goes(w, "ended")
        BY Zenon, <1>0, <1>12, <2>1, FieldUpdates DEF Watch!Decide
      <3>2. Watch!Unsubscribe(w) /\ stream[w].at = "sent"
        BY Zenon, <1>12, <2>1 DEF Watch!Decide
      <3> QED
        BY <3>1, <3>2, UnsubscribeKeeps
    <2>2. CASE Watch!Look(stream[w].held) \notin Watch!Terminal
      <3>1. Goes(w, "open")
        BY ZenonT(40), <1>0, <1>12, <2>2, FieldUpdates DEF Watch!Decide, Watch!To
      <3> QED
        BY Zenon, <1>7, <1>12, <2>2, <3>1 DEF Watch!Decide, Watch!channels
    <2> QED
      BY <2>1, <2>2
  <1>13. ASSUME NEW w \in Watchers, Watch!Leave(w) PROVE ChannelInv'
    <2>1. Goes(w, "ended")
      BY Zenon, <1>0, <1>13, FieldUpdates DEF Watch!Leave, Watch!To
    <2>2. Watch!Unsubscribe(w) /\ stream[w].at = "open"
      BY Zenon, <1>13 DEF Watch!Leave
    <2> QED
      BY <2>1, <2>2, UnsubscribeKeeps
  <1>14. CASE Watch!Flag \/ Watch!CloseBridge
    BY Zenon, <1>1, <1>14 DEF Watch!Flag, Watch!CloseBridge, Watch!channels
  <1>15. CASE Watch!CloseNotifier
    <2>1. ~panicked'
      BY <1>15, Zenon DEF Watch!CloseNotifier, ChannelInv
    <2> QED
      BY Zenon, <1>15, <2>1 DEF Watch!CloseNotifier, Watch!Remaining, ChannelInv, Handlers
  <1>16. CASE UNCHANGED streamVars
    BY Zenon, <1>1, <1>16 DEF streamVars
  <1> QED
    BY <1>2, <1>3, <1>4, <1>5, <1>6, <1>8, <1>9, <1>10, <1>11, <1>12, <1>13, <1>14, <1>15, <1>16
       DEF Watch!Next, Watch!Notify, Watch!Watch

\* Notify, Unsubscribe and Close of TaskNotifier, and Subscribe on a closed notifier: in
\* every order of these, with any number of watchers here and on another gateway, no
\* channel is closed twice or sent to after it was closed.
THEOREM ClosedOnce == Watch!Spec => []ChannelsClosedOnce
  <1>1. ChannelInv => ChannelsClosedOnce
    BY Zenon DEF ChannelInv, ChannelsClosedOnce, Watch!ChannelsClosedOnce
  <1> QED
    BY <1>1, ChannelInitially, ChannelInductive, PTL DEF Watch!Spec, Watch!vars, streamVars

-----------------------------------------------------------------------------
(* The sessions of the MCP server *)

KeyRows ==
    [id : Nat, name : {kind.name : kind \in Kinds}, tool : {kind.tool : kind \in Kinds},
     state : {"active", "expired", "revoked", "gone"}]

SessionTypes ==
    /\ keys \in Seq(KeyRows)
    /\ pending \in Nat
    /\ session \in [Clients -> {"none", "open", "idle"}]
    /\ queue \in [Clients -> Nat]
    /\ reader \in [Clients -> BOOLEAN] /\ left \in [Clients -> BOOLEAN]
    /\ todo \in [Clients -> BOOLEAN]
    /\ DOMAIN view = Clients /\ view = [c \in Clients |-> view[c]]

\* A client whose stream is its own has the list, or something is on its way to it.
Informed(c) ==
    reader[c] /\ ~left[c] /\ Server!InStore(c) =>
        todo[c] \/ queue[c] > 0 \/ pending > 0 \/ silent \/ view[c] = Server!ToolList

SessionInv == SessionTypes /\ \A c \in Clients : Informed(c)

LEMMA SessionInitially == Server!Init => SessionInv
  <1> SUFFICES ASSUME Server!Init PROVE SessionInv
    OBVIOUS
  <1>1. SessionTypes
    BY DEF Server!Init, SessionTypes
  <1>2. ASSUME NEW c \in Clients PROVE Informed(c)
    BY Zenon DEF Server!Init, Informed
  <1> QED
    BY Zenon, <1>1, <1>2 DEF SessionInv

\* A key that expires stays in the list: NewDBToolLister does not look at expires_at.
LEMMA ExpiryIsNotShown ==
    ASSUME SessionTypes, NEW i \in DOMAIN keys, Server!Expire(i)
    PROVE  Server!ToolList' = Server!ToolList
  <1>1. keys \in Seq(KeyRows) /\ DOMAIN keys' = DOMAIN keys
    BY Zenon DEF SessionTypes, Server!Expire
  <1>2. ASSUME NEW j \in DOMAIN keys PROVE Server!Row(keys'[j]) = Server!Row(keys[j])
    <2>1. /\ keys'[j].id = keys[j].id /\ keys'[j].name = keys[j].name
          /\ keys'[j].tool = keys[j].tool
          /\ keys'[j].state = IF j = i THEN "expired" ELSE keys[j].state
      BY <1>1, <1>2 DEF Server!Expire, KeyRows
    <2>2. Server!Exposed(keys'[j]) = Server!Exposed(keys[j])
      BY <2>1 DEF Server!Exposed, Server!Expire
    <2>3. Server!makeToolName(keys'[j]) = Server!makeToolName(keys[j])
      BY Zenon, <2>1 DEF Server!makeToolName
    <2> QED
      BY Zenon, <2>1, <2>2, <2>3 DEF Server!Row
  <1>3. [j \in DOMAIN keys' |-> Server!Row(keys'[j])] = [j \in DOMAIN keys |-> Server!Row(keys[j])]
    BY <1>1, <1>2
  <1> QED
    BY Zenon, <1>3 DEF Server!ToolList

\* The rows after an update of one of them, or of all
LEMMA RowUpdates ==
    ASSUME keys \in Seq(KeyRows), NEW f, f = [j \in DOMAIN keys |-> f[j]],
           \A j \in DOMAIN keys : f[j] \in KeyRows
    PROVE  f \in Seq(KeyRows)
  <1>1. DOMAIN keys = 1 .. Len(keys) /\ Len(keys) \in Nat
    OBVIOUS
  <1>2. f \in [1 .. Len(keys) -> KeyRows]
    BY <1>1
  <1> QED
    BY <1>1, <1>2

LEMMA SessionTypesKept == SessionTypes /\ [Server!Next]_serverVars => SessionTypes'
  <1> SUFFICES ASSUME SessionTypes, [Server!Next]_serverVars PROVE SessionTypes'
    OBVIOUS
  <1> USE DEF SessionTypes
  <1>1. ASSUME NEW kind \in Kinds, Server!createKey(kind) PROVE SessionTypes'
    <2>1. [id |-> Len(keys) + 1, name |-> kind.name, tool |-> kind.tool, state |-> "active"] \in KeyRows
      BY DEF KeyRows
    <2>2. keys' \in Seq(KeyRows)
      BY <1>1, <2>1 DEF Server!createKey
    <2> QED
      BY <1>1, <2>2 DEF Server!createKey, Server!Announce, Server!sessions
  <1>2. ASSUME NEW i \in DOMAIN keys, NEW s \in {"expired", "revoked"},
               keys' = [keys EXCEPT ![i].state = s]
        PROVE  keys' \in Seq(KeyRows)
    <2>1. ASSUME NEW j \in DOMAIN keys PROVE keys'[j] \in KeyRows
      <3>1. keys[j] \in KeyRows
        OBVIOUS
      <3>2. [keys[j] EXCEPT !.state = s] \in KeyRows
        BY Zenon, <3>1 DEF KeyRows
      <3> QED
        BY Zenon, <1>2, <3>1, <3>2
    <2>2. keys' = [j \in DOMAIN keys |-> keys'[j]]
      BY Zenon, <1>2
    <2> QED
      BY <2>1, <2>2, RowUpdates
  <1>3. ASSUME NEW i \in DOMAIN keys, Server!revokeKey(i) PROVE SessionTypes'
    <2>1. keys' \in Seq(KeyRows)
      BY Zenon, <1>2, <1>3 DEF Server!revokeKey, Server!Revoke
    <2> QED
      BY <1>3, <2>1 DEF Server!revokeKey, Server!Revoke, Server!Announce, Server!sessions
  <1>4. ASSUME NEW i \in DOMAIN keys, Server!Expire(i) PROVE SessionTypes'
    BY Zenon, <1>2, <1>4 DEF Server!Expire, Server!sessions
  <1>5. ASSUME NEW i \in DOMAIN keys, NEW kind \in Kinds, Server!UpdateKey(i, kind.name)
        PROVE  SessionTypes'
    <2>1. ASSUME NEW j \in DOMAIN keys PROVE keys'[j] \in KeyRows
      <3>1. keys[j] \in KeyRows
        OBVIOUS
      <3>2. [keys[j] EXCEPT !.name = kind.name] \in KeyRows
        BY Zenon, <3>1 DEF KeyRows
      <3> QED
        BY Zenon, <1>5, <3>1, <3>2 DEF Server!UpdateKey
    <2>2. keys' = [j \in DOMAIN keys |-> keys'[j]]
      BY Zenon, <1>5 DEF Server!UpdateKey
    <2>3. keys' \in Seq(KeyRows)
      BY <2>1, <2>2, RowUpdates
    <2> QED
      BY <1>5, <2>3 DEF Server!UpdateKey, Server!Announce, Server!sessions
  <1>6. CASE Server!deleteProject
    <2>1. keys' \in Seq(KeyRows)
      <3>1. ASSUME NEW j \in DOMAIN keys PROVE [keys[j] EXCEPT !.state = "gone"] \in KeyRows
        <4>1. keys[j] \in KeyRows
          OBVIOUS
        <4> QED
          BY Zenon, <4>1 DEF KeyRows
      <3>2. keys' = [j \in DOMAIN keys |-> keys'[j]]
        BY Zenon, <1>6 DEF Server!deleteProject
      <3>3. \A j \in DOMAIN keys : keys'[j] \in KeyRows
        BY Zenon, <1>6, <3>1 DEF Server!deleteProject
      <3> QED
        BY <3>2, <3>3, RowUpdates
    <2> QED
      BY Zenon, <1>6, <2>1 DEF Server!deleteProject, Server!sessions
  <1>7. CASE Server!Broadcast
    BY <1>7 DEF Server!Broadcast
  <1>8. ASSUME NEW c \in Clients,
               \/ Server!Connect(c) \/ Server!handleToolsList(c) \/ Server!ServeSSE(c)
               \/ Server!Leave(c) \/ Server!Tick(c) \/ Server!evict(c)
        PROVE  SessionTypes'
    <2>1. CASE Server!Connect(c)
      BY Zenon, <2>1 DEF Server!Connect
    <2>2. CASE Server!handleToolsList(c)
      BY Zenon, <2>2 DEF Server!handleToolsList
    <2>3. CASE Server!ServeSSE(c)
      <3>1. queue[c] - 1 \in Nat
        BY <2>3 DEF Server!ServeSSE
      <3>2. queue' \in [Clients -> Nat]
        BY Zenon, <2>3, <3>1 DEF Server!ServeSSE
      <3>3. todo' \in [Clients -> BOOLEAN]
        BY Zenon, <2>3 DEF Server!ServeSSE
      <3> QED
        BY Zenon, <2>3, <3>2, <3>3 DEF Server!ServeSSE
    <2>4. CASE Server!Leave(c)
      BY Zenon, <2>4 DEF Server!Leave
    <2>5. CASE Server!Tick(c)
      BY Zenon, <2>5 DEF Server!Tick
    <2>6. CASE Server!evict(c)
      BY Zenon, <2>6 DEF Server!evict
    <2> QED
      BY <1>8, <2>1, <2>2, <2>3, <2>4, <2>5, <2>6
  <1>9. CASE UNCHANGED serverVars
    BY Zenon, <1>9 DEF serverVars
  <1> QED
    BY <1>1, <1>3, <1>4, <1>5, <1>6, <1>7, <1>8, <1>9 DEF Server!Next

LEMMA SessionInductive == SessionInv /\ [Server!Next]_serverVars => SessionInv'
  <1> SUFFICES ASSUME SessionInv, [Server!Next]_serverVars PROVE SessionInv'
    OBVIOUS
  <1>1. SessionTypes /\ SessionTypes' /\ \A c \in Clients : Informed(c)
    BY Zenon, SessionTypesKept DEF SessionInv
  <1> SUFFICES ASSUME NEW c \in Clients PROVE Informed(c)'
    BY Zenon, <1>1 DEF SessionInv
  <1>2. Informed(c)
    BY <1>1
  <1>3. CASE Server!Announce
    BY <1>1, <1>3 DEF Server!Announce, Informed, SessionTypes
  <1>4. ASSUME NEW i \in DOMAIN keys, Server!Expire(i) PROVE Informed(c)'
    <2>1. Server!ToolList' = Server!ToolList
      BY <1>1, <1>4, ExpiryIsNotShown
    <2> QED
      BY Zenon, <1>2, <1>4, <2>1 DEF Server!Expire, Server!sessions, Informed, Server!InStore
  <1>5. CASE Server!deleteProject
    BY Zenon, <1>5 DEF Server!deleteProject, Informed
  <1>6. ASSUME UNCHANGED keys PROVE Server!ToolList' = Server!ToolList
    BY Zenon, <1>6 DEF Server!ToolList
  <1>7. CASE Server!Broadcast
    <2>1. UNCHANGED keys
      BY Zenon, <1>7 DEF Server!Broadcast
    <2>2. Server!InStore(c) => queue'[c] > 0
      BY <1>1, <1>7, StreamsAssumption DEF Server!Broadcast, Server!Room, SessionTypes
    <2> QED
      BY Zenon, <1>7, <2>2 DEF Server!Broadcast, Informed, Server!InStore
  <1>8. ASSUME NEW d \in Clients, Server!Connect(d) PROVE Informed(c)'
    BY Zenon, <1>1, <1>2, <1>6, <1>8 DEF Server!Connect, Informed, Server!InStore, SessionTypes
  <1>9. ASSUME NEW d \in Clients, Server!handleToolsList(d) PROVE Informed(c)'
    BY Zenon, <1>1, <1>2, <1>6, <1>9 DEF Server!handleToolsList, Informed, Server!InStore, SessionTypes
  <1>10. ASSUME NEW d \in Clients, Server!ServeSSE(d) PROVE Informed(c)'
    BY <1>1, <1>2, <1>6, <1>10 DEF Server!ServeSSE, Informed, Server!InStore, SessionTypes
  <1>11. ASSUME NEW d \in Clients, Server!Leave(d) PROVE Informed(c)'
    BY Zenon, <1>1, <1>2, <1>6, <1>11 DEF Server!Leave, Informed, Server!InStore, SessionTypes
  <1>12. ASSUME NEW d \in Clients, Server!Tick(d) \/ Server!evict(d) PROVE Informed(c)'
    BY <1>1, <1>2, <1>6, <1>12 DEF Server!Tick, Server!evict, Informed, Server!InStore, SessionTypes
  <1>13. CASE UNCHANGED serverVars
    BY Zenon, <1>2, <1>6, <1>13 DEF serverVars, Informed, Server!InStore
  <1> QED
    BY Zenon, <1>3, <1>4, <1>5, <1>7, <1>8, <1>9, <1>10, <1>11, <1>12, <1>13
       DEF Server!Next, Server!createKey, Server!revokeKey, Server!Revoke, Server!UpdateKey

\* NotifyToolsChanged, Broadcast and ServeSSE: for any number of clients, keys and
\* broadcasts and every capacity of the channel of a session, a client that reads its
\* stream and lists the tools on every notification has the current list when nothing is
\* on its way to it, although notifications are dropped when the channel is full.
THEOREM ViewsFollow == Server!Spec => []ViewFollows
  <1>1. SessionInv => ViewFollows
    BY DEF SessionInv, Informed, SessionTypes, ViewFollows, Server!ViewFollows
  <1> QED
    BY <1>1, SessionInitially, SessionInductive, PTL DEF Server!Spec, Server!vars, serverVars

-----------------------------------------------------------------------------
(* The tool loop *)

\* When the model is asked again, the messages are those that Collect built: nothing that
\* happens meanwhile changes the calls, which of them are MCP calls, or the results.
LoopInv ==
    /\ calls \in Seq(Tools)
    /\ mcp \subseteq 1 .. Len(calls)
    /\ pc \in {"merge", "ask", "loop"} => mcp = {}
    /\ pc = "invoke" =>
          messages = <<[role |-> "assistant", ids |-> DOMAIN calls]>> \o Loop!Answers

LEMMA Responses == Loop!Responses \subseteq Seq(Tools)
  BY StreamsAssumption DEF Loop!Responses

LEMMA LoopInitially == Loop!Init => LoopInv
  BY DEF Loop!Init, LoopInv

LEMMA LoopInductive == LoopInv /\ [Loop!Next]_loopVars => LoopInv'
  <1> SUFFICES ASSUME LoopInv, [Loop!Next]_loopVars PROVE LoopInv'
    OBVIOUS
  <1>1. CASE Loop!Merge
    BY Zenon, <1>1 DEF Loop!Merge, Loop!Ends, LoopInv
  <1>2. CASE Loop!Ask
    <2>1. calls' \in Seq(Tools) /\ mcp' = {} /\ pc' # "invoke"
      BY Zenon, <1>2, Responses DEF Loop!Ask, Loop!Ends, LoopInv
    <2> QED
      BY Zenon, <2>1 DEF LoopInv
  <1>3. CASE Loop!Loop
    <2>1. calls' = calls /\ mcp' \subseteq 1 .. Len(calls)
      <3>1. Loop!MCPCalls \subseteq 1 .. Len(calls)
        BY DEF Loop!MCPCalls, LoopInv
      <3> QED
        BY Zenon, <1>3, <3>1 DEF Loop!Loop, LoopInv
    <2>2. pc' \in {"end", "run"}
      BY Zenon, <1>3 DEF Loop!Loop, Loop!Ends
    <2> QED
      BY Zenon, <2>1, <2>2 DEF LoopInv
  <1>4. CASE Loop!Collect
    <2>1. UNCHANGED <<calls, mcp, results>> /\ pc' = "invoke"
      BY Zenon, <1>4 DEF Loop!Collect
    <2>2. Loop!Answers' = Loop!Answers
      BY Zenon, <2>1 DEF Loop!Answers, Loop!InOrder
    <2> QED
      BY Zenon, <1>4, <2>1, <2>2 DEF Loop!Collect, LoopInv
  <1>5. CASE Loop!Invoke
    <2>1. CASE pc' = "end"
      BY Zenon, <1>5, <2>1 DEF Loop!Invoke, Loop!Ends, LoopInv
    <2>2. CASE pc' = "loop"
      BY Zenon, <1>5, <2>2, Responses DEF Loop!Invoke, Loop!Ends, LoopInv
    <2> QED
      BY Zenon, <1>5, <2>1, <2>2 DEF Loop!Invoke, Loop!Ends
  <1>6. ASSUME NEW i \in 1 .. MaxCalls, Loop!RunCall(i) PROVE LoopInv'
    BY Zenon, <1>6 DEF Loop!RunCall, LoopInv
  <1>7. ASSUME UNCHANGED <<pc, calls, mcp, results, messages>> PROVE LoopInv'
    <2>1. Loop!Answers' = Loop!Answers
      BY Zenon, <1>7 DEF Loop!Answers, Loop!InOrder
    <2> QED
      BY Zenon, <1>7, <2>1 DEF LoopInv
  <1>8. CASE Loop!Environment
    BY Zenon, <1>7, <1>8 DEF Loop!Environment
  <1>9. CASE UNCHANGED loopVars
    BY Zenon, <1>7, <1>9 DEF loopVars
  <1> QED
    BY <1>1, <1>2, <1>3, <1>4, <1>5, <1>6, <1>8, <1>9 DEF Loop!Next, Loop!Handler

\* executeToolCalls and buildAssistantMessage: for every response, whichever of its calls
\* are MCP calls and whatever order they finish in, the tool messages carry the results of
\* the calls whose ids they have, and answer no call twice.
THEOREM AnswersFit == Loop!Spec => []AnswersFitCalls
  <1>1. ASSUME LoopInv PROVE AnswersFitCalls
    <2> SUFFICES ASSUME pc = "invoke" PROVE AnswersFitCalls
      BY Zenon DEF AnswersFitCalls, Loop!AnswersFitCalls
    <2> DEFINE p == Loop!InOrder
               answers == Loop!Answers
               first == [role |-> "assistant", ids |-> DOMAIN calls]
    <2>1. mcp \subseteq 1 .. Len(calls) /\ Len(calls) \in Nat /\ messages = <<first>> \o answers
      BY <1>1 DEF LoopInv
    <2>2. p = Places(mcp, Len(calls))
      BY Zenon DEF Loop!InOrder, Loop!Places, Places
    <2>3. Enumerates(p, mcp, Len(calls))
      BY <2>1, <2>2, PlacesEnumerate
    <2>4. answers = [k \in 1 .. Len(p) |-> [role |-> "tool", id |-> p[k], result |-> results[p[k]]]]
      BY Zenon DEF Loop!Answers
    <2> HIDE DEF p, first, answers
    <2>5. Len(p) \in Nat
      BY <2>3 DEF Enumerates
    <2>6. answers \in Seq({answers[k] : k \in 1 .. Len(p)}) /\ Len(answers) = Len(p)
      <3> DEFINE R == {answers[k] : k \in 1 .. Len(p)}
      <3>1. answers \in [1 .. Len(p) -> R]
        BY <2>4
      <3> HIDE DEF R
      <3>2. answers \in Seq(R) /\ Len(answers) = Len(p)
        BY <2>5, <3>1
      <3> QED
        BY Zenon, <3>2 DEF R
    <2>7. /\ Len(messages) = Len(p) + 1
          /\ \A k \in 2 .. Len(p) + 1 : messages[k] = answers[k - 1]
      <3>1. <<first>> \in Seq({first}) /\ Len(<<first>>) = 1
        OBVIOUS
      <3> QED
        BY <2>1, <2>5, <2>6, <3>1
    <2>8. ASSUME NEW k \in 2 .. Len(messages)
          PROVE  /\ k - 1 \in 1 .. Len(p)
                 /\ messages[k].id = p[k - 1] /\ messages[k].result = results[p[k - 1]]
      BY <2>4, <2>5, <2>7
    <2>9. ASSUME NEW k \in 2 .. Len(messages)
          PROVE  messages[k].id \in mcp /\ messages[k].result = results[messages[k].id]
      BY Zenon, <2>3, <2>8 DEF Enumerates
    <2>10. ASSUME NEW j \in 2 .. Len(messages), NEW k \in 2 .. Len(messages), j < k
           PROVE  messages[j].id # messages[k].id
      <3> DEFINE a == j - 1
                 b == k - 1
      <3>0. a < b /\ a \in 1 .. Len(p) /\ b \in 1 .. Len(p)
        BY <2>5, <2>7, <2>8, <2>10
      <3> HIDE DEF a, b
      <3>1. p[a] < p[b] /\ p[a] \in 1 .. Len(calls) /\ p[b] \in 1 .. Len(calls)
        BY <2>3, <3>0 DEF Enumerates
      <3>2. p[a] # p[b]
        BY <2>1, <3>1
      <3> QED
        BY Zenon, <2>8, <3>2 DEF a, b
    <2>11. \A j, k \in 2 .. Len(messages) : messages[j].id = messages[k].id => j = k
      BY <2>5, <2>7, <2>10
    <2> QED
      BY Zenon, <2>9, <2>11 DEF AnswersFitCalls, Loop!AnswersFitCalls
  <1> QED
    BY <1>1, LoopInitially, LoopInductive, PTL DEF Loop!Spec, Loop!vars, loopVars

-----------------------------------------------------------------------------
(* The requests of the adapters *)

\* Position i of the request is the text of one message of m, and of one only.
Carried(m, i) ==
    \E k \in DOMAIN m : m[k].text = i /\ \A j \in DOMAIN m : m[j].text = i => j = k

\* Every message that is not a system message is carried.
AllCarried(m) == \A i \in DOMAIN asked : asked[i] # "system" => Carried(m, i)

AskedOK == asked \in Seq(Adapt!Roles)

LEMMA PositionsEnumerate ==
    ASSUME AskedOK, NEW R
    PROVE  Enumerates(Adapt!Positions(R), {i \in DOMAIN asked : asked[i] \in R}, Len(asked))
  <1>1. Len(asked) \in Nat
    BY DEF AskedOK
  <1> DEFINE S == {i \in DOMAIN asked : asked[i] \in R}
  <1>2. Adapt!Positions(R) = Places(S, Len(asked))
    BY Zenon DEF Adapt!Positions, Adapt!Places, Places
  <1> HIDE DEF S
  <1>3. Enumerates(Adapt!Positions(R), S, Len(asked))
    BY <1>1, <1>2, PlacesEnumerate
  <1> QED
    BY Zenon, <1>3 DEF S

\* A list of messages with the texts of Others carries them all.
LEMMA OthersCarried ==
    ASSUME AskedOK, NEW m, DOMAIN m = DOMAIN Adapt!Others,
           \A k \in DOMAIN m : m[k].text = Adapt!Others[k]
    PROVE  AllCarried(m)
  <1> DEFINE p == Adapt!Others
             S == {i \in DOMAIN asked : asked[i] \in Adapt!Roles \ {"system"}}
  <1>1. Enumerates(p, S, Len(asked))
    BY Zenon, PositionsEnumerate DEF Adapt!Others
  <1> HIDE DEF p
  <1>2. p \in Seq(1 .. Len(asked)) /\ Len(asked) \in Nat /\ DOMAIN p = 1 .. Len(p) /\ Len(p) \in Nat
    BY <1>1 DEF Enumerates, AskedOK
  <1>3. \A k \in DOMAIN m : m[k].text = p[k]
    BY Zenon DEF p
  <1>4. DOMAIN m = 1 .. Len(p)
    BY Zenon, <1>2 DEF p
  <1>5. ASSUME NEW i \in DOMAIN asked, asked[i] # "system" PROVE Carried(m, i)
    <2>1. i \in S /\ i \in 1 .. Len(asked)
      BY <1>5 DEF AskedOK
    <2>2. PICK k \in 1 .. Len(p) : p[k] = i
      BY Zenon, <1>1, <2>1 DEF Enumerates
    <2>3. ASSUME NEW j \in 1 .. Len(p), p[j] = i PROVE j = k
      <3>1. j \in Int /\ k \in Int /\ i \in Int
        BY <1>2, <2>1
      <3>2. ~(j < k) /\ ~(k < j)
        BY <1>1, <2>2, <2>3, <3>1 DEF Enumerates
      <3> QED
        BY <3>1, <3>2
    <2> QED
      BY <1>3, <1>4, <2>2, <2>3 DEF Carried
  <1> QED
    BY Zenon, <1>5 DEF AllCarried

LEMMA AsIsCarried == AskedOK => AllCarried(Adapt!AsIs.messages)
  BY Zenon DEF AskedOK, AllCarried, Carried, Adapt!AsIs, Adapt!Message

LEMMA RolesCarried ==
    ASSUME AskedOK
    PROVE  /\ AllCarried(Adapt!toAnthropicRequest.messages)
           /\ AllCarried(Adapt!toBedrockRequest.messages)
           /\ AllCarried(Adapt!toGeminiRequest.messages)
           /\ AllCarried(Adapt!toVertexRequest.messages)
  <1>1. AllCarried(Adapt!toAnthropicRequest.messages)
    BY Zenon, OthersCarried DEF Adapt!toAnthropicRequest, Adapt!WithRoles, Adapt!Message
  <1>2. AllCarried(Adapt!toBedrockRequest.messages)
    BY Zenon, OthersCarried DEF Adapt!toBedrockRequest, Adapt!WithRoles, Adapt!Message
  <1>3. AllCarried(Adapt!toGeminiRequest.messages)
    BY Zenon, OthersCarried DEF Adapt!toGeminiRequest, Adapt!WithRoles, Adapt!Message
  <1>4. AllCarried(Adapt!toVertexRequest.messages)
    BY Zenon, OthersCarried DEF Adapt!toVertexRequest, Adapt!WithRoles, Adapt!Message
  <1> QED
    BY <1>1, <1>2, <1>3, <1>4

LEMMA Joined ==
    ASSUME NEW T, NEW a \in Seq(T), NEW b \in Seq(T)
    PROVE  /\ a \o b \in Seq(T) /\ Len(a \o b) = Len(a) + Len(b)
           /\ \A k \in 1 .. Len(a) + Len(b) :
                 (a \o b)[k] = IF k <= Len(a) THEN a[k] ELSE b[k - Len(a)]
  OBVIOUS

\* Moving one element of a sequence to its end.
LEMMA MovedToEnd ==
    ASSUME NEW T, NEW h \in Seq(T), NEW u \in 1 .. Len(h)
    PROVE  LET m == SubSeq(h, 1, u - 1) \o SubSeq(h, u + 1, Len(h)) \o <<h[u]>>
           IN  /\ DOMAIN m = 1 .. Len(h)
               /\ \A k \in 1 .. Len(h) :
                     m[k] = IF k < u THEN h[k] ELSE IF k < Len(h) THEN h[k + 1] ELSE h[u]
  <1> DEFINE n == Len(h)
             a == SubSeq(h, 1, u - 1)
             b == SubSeq(h, u + 1, n)
             c == <<h[u]>>
  <1>1. n \in Nat /\ u \in Nat /\ u >= 1 /\ u <= n
    OBVIOUS
  <1>2. a \in Seq(T) /\ Len(a) = u - 1 /\ \A k \in 1 .. u - 1 : a[k] = h[k]
    BY <1>1
  <1>3. b \in Seq(T) /\ Len(b) = n - u /\ \A k \in 1 .. n - u : b[k] = h[k + u]
    BY <1>1
  <1>4. c \in Seq(T) /\ Len(c) = 1 /\ c[1] = h[u]
    OBVIOUS
  <1> HIDE DEF n, a, b, c
  <1>5. /\ a \o b \in Seq(T) /\ Len(a \o b) = n - 1
        /\ \A k \in 1 .. n - 1 : (a \o b)[k] = IF k < u THEN h[k] ELSE h[k + 1]
    <2> DEFINE d == a \o b
    <2>0. /\ d \in Seq(T) /\ Len(d) = Len(a) + Len(b)
          /\ \A k \in 1 .. Len(a) + Len(b) : d[k] = IF k <= Len(a) THEN a[k] ELSE b[k - Len(a)]
      BY Zenon, <1>2, <1>3, Joined
    <2> HIDE DEF d
    <2>1. Len(a) = u - 1 /\ Len(a) + Len(b) = n - 1
      BY <1>1, <1>2, <1>3
    <2>2. ASSUME NEW k \in 1 .. n - 1, k < u PROVE d[k] = h[k]
      <3>1. k \in 1 .. Len(a) + Len(b) /\ k <= Len(a) /\ k \in 1 .. u - 1
        BY <1>1, <2>1, <2>2
      <3>2. d[k] = a[k]
        BY <2>0, <3>1
      <3> QED
        BY <1>2, <3>1, <3>2
    <2>3. ASSUME NEW k \in 1 .. n - 1, ~(k < u) PROVE d[k] = h[k + 1]
      <3>1. d[k] = b[k - (u - 1)]
        BY <1>1, <2>0, <2>1, <2>3
      <3>2. k - (u - 1) \in 1 .. n - u /\ (k - (u - 1)) + u = k + 1
        BY <1>1, <2>3
      <3> QED
        BY <1>3, <3>1, <3>2
    <2>4. d \in Seq(T) /\ Len(d) = n - 1
      BY <2>0, <2>1
    <2>5. \A k \in 1 .. n - 1 : d[k] = IF k < u THEN h[k] ELSE h[k + 1]
      BY <2>2, <2>3
    <2> QED
      BY Zenon, <2>4, <2>5 DEF d
  <1> DEFINE d == a \o b
             m == d \o c
  <1>6. d \in Seq(T) /\ Len(d) = n - 1
    BY <1>5
  <1>7. \A k \in 1 .. n - 1 : d[k] = IF k < u THEN h[k] ELSE h[k + 1]
    BY <1>5
  <1> HIDE DEF d
  <1>8. /\ DOMAIN m = 1 .. n
        /\ \A k \in 1 .. n : m[k] = IF k <= n - 1 THEN d[k] ELSE c[k - (n - 1)]
    <2>1. /\ m \in Seq(T) /\ Len(m) = Len(d) + Len(c)
          /\ \A k \in 1 .. Len(d) + Len(c) : m[k] = IF k <= Len(d) THEN d[k] ELSE c[k - Len(d)]
      BY Zenon, <1>4, <1>6, Joined
    <2> HIDE DEF m
    <2> QED
      BY SMTT(30), <1>1, <1>4, <1>6, <2>1
  <1> HIDE DEF m
  <1>9. ASSUME NEW k \in 1 .. n PROVE m[k] = IF k < u THEN h[k] ELSE IF k < n THEN h[k + 1] ELSE h[u]
    <2>1. CASE k < n
      <3>1. k \in 1 .. n - 1
        BY <1>1, <2>1
      <3>2. m[k] = d[k]
        BY <1>1, <1>8, <3>1
      <3> QED
        BY <1>1, <1>7, <2>1, <3>1, <3>2
    <2>2. CASE k = n
      <3>1. k - (n - 1) = 1 /\ ~(k <= n - 1) /\ ~(k < u) /\ ~(k < n)
        BY <1>1, <2>2
      <3> QED
        BY <1>4, <1>8, <3>1
    <2> QED
      BY <1>1, <2>1, <2>2
  <1> QED
    BY Zenon, <1>8, <1>9 DEF m, d, a, b, c, n

LEMMA CohereCarried ==
    ASSUME AskedOK
    PROVE  AllCarried(Adapt!toCohereRequest.messages)
  <1> DEFINE n == Len(asked)
             h == Adapt!History
             u == Adapt!LastUser
             m == Adapt!toCohereRequest.messages
             T == {h[i] : i \in 1 .. n}
  <1>1. n \in Nat /\ DOMAIN asked = 1 .. n
    BY DEF AskedOK
  <1>2. h = [i \in 1 .. n |-> Adapt!Message(Adapt!CohereRole(asked[i]), i)]
    BY Zenon, <1>1 DEF Adapt!History
  <1>3. \A i \in 1 .. n : h[i].text = i
    BY Zenon, <1>2 DEF Adapt!Message
  <1>4. m = IF u = 0 THEN h ELSE SubSeq(h, 1, u - 1) \o SubSeq(h, u + 1, Len(h)) \o <<h[u]>>
    BY Zenon DEF Adapt!toCohereRequest
  <1>5. u = 0 \/ u \in 1 .. n
    <2> DEFINE S == {i \in DOMAIN asked : Adapt!CohereRole(asked[i]) = "USER"}
               p == Adapt!Users
    <2>1. p = Places(S, n)
      BY Zenon DEF Adapt!Users, Adapt!Places, Places
    <2> HIDE DEF S, n
    <2> DEFINE R == 1 .. n
    <2>2. p \in Seq(R)
      BY Zenon, <1>1, <2>1, PlacesEnumerate DEF Enumerates
    <2>3. u = IF p = <<>> THEN 0 ELSE p[Len(p)]
      BY Zenon DEF Adapt!LastUser
    <2> HIDE DEF p, u, R
    <2>4. p # <<>> => Len(p) \in 1 .. Len(p)
      BY <2>2
    <2>5. p # <<>> => p[Len(p)] \in R
      BY <2>2, <2>4
    <2> QED
      BY Zenon, <2>3, <2>5 DEF R
  <1> HIDE DEF h, u, m, n
  <1>6. h \in Seq(T) /\ Len(h) = n /\ DOMAIN h = 1 .. n
    <2>1. h \in [1 .. n -> T]
      BY <1>2
    <2> HIDE DEF T
    <2> QED
      BY <1>1, <2>1
  <1> HIDE DEF T
  <1>7. CASE u = 0
    <2>1. \A i \in 1 .. n : Carried(h, i)
      BY <1>3, <1>6 DEF Carried
    <2>2. m = h
      BY <1>4, <1>7
    <2> QED
      BY Zenon, <1>1, <2>1, <2>2 DEF AllCarried, m
  <1>8. CASE u \in 1 .. n
    <2>1. u # 0
      BY <1>1, <1>8
    <2>2. /\ DOMAIN m = 1 .. n
          /\ \A k \in 1 .. n :
                m[k] = IF k < u THEN h[k] ELSE IF k < n THEN h[k + 1] ELSE h[u]
      BY Zenon, <1>4, <1>6, <1>8, <2>1, MovedToEnd
    <2>3. \A k \in 1 .. n : m[k].text = IF k < u THEN k ELSE IF k < n THEN k + 1 ELSE u
      BY <1>1, <1>3, <1>8, <2>2
    <2>4. ASSUME NEW i \in 1 .. n PROVE Carried(m, i)
      <3> DEFINE w == IF i < u THEN i ELSE IF i = u THEN n ELSE i - 1
      <3>1. w \in 1 .. n /\ m[w].text = i
        BY <1>1, <1>8, <2>3
      <3>2. \A j \in 1 .. n : m[j].text = i => j = w
        BY <1>1, <1>8, <2>3
      <3> HIDE DEF w
      <3> QED
        BY Zenon, <2>2, <3>1, <3>2 DEF Carried
    <2> QED
      BY Zenon, <1>1, <2>4 DEF AllCarried, m
  <1> QED
    BY Zenon, <1>5, <1>7, <1>8 DEF m

\* What went out carries every message that was asked.
RequestInv ==
    /\ adapter \in Adapt!Names /\ AskedOK
    /\ at # "request" => AllCarried(sent.messages)

LEMMA TranslatedCarries ==
    ASSUME AskedOK, adapter \in Adapt!Names
    PROVE  AllCarried(Adapt!Translated.messages)
  <1>1. CASE adapter \in Adapt!Compatible
    BY Zenon, <1>1, AsIsCarried DEF Adapt!Translated, Adapt!Compatible
  <1>2. CASE adapter \in {"anthropic", "bedrock", "gemini", "vertex"}
    BY Zenon, <1>2, RolesCarried DEF Adapt!Translated, Adapt!Compatible
  <1>3. CASE adapter = "cohere"
    BY Zenon, <1>3, CohereCarried DEF Adapt!Translated, Adapt!Compatible
  <1> QED
    BY Zenon, <1>1, <1>2, <1>3 DEF Adapt!Names

LEMMA RequestInitially == Adapt!Init => RequestInv
  <1>1. ASSUME NEW n \in 1 .. MaxMessages, NEW f \in [1 .. n -> Adapt!Roles]
        PROVE  f \in Seq(Adapt!Roles)
    OBVIOUS
  <1> QED
    BY Zenon, <1>1 DEF Adapt!Init, RequestInv, AskedOK

LEMMA CompletingIs ==
    ASSUME Adapt!Completing
    PROVE  /\ at = "complete" /\ at' = "end" /\ UNCHANGED <<adapter, asked, sent, chunk>>
           /\ \/ \E blocks \in Adapt!Blocks :
                    /\ seen' = Adapt!TextBlocks(blocks)
                    /\ got' = [k \in DOMAIN seen' |-> Adapt!Text(seen'[k])]
              \/ UNCHANGED <<seen, got>>
  <1>1. PICK name \in Adapt!Names : Adapt!Complete(name)
    BY Zenon DEF Adapt!Completing, Adapt!Names, Adapt!Compatible, Adapt!OpenAIComplete, Adapt!AzureComplete,
           Adapt!GroqComplete, Adapt!MistralComplete, Adapt!AnthropicComplete, Adapt!BedrockComplete,
           Adapt!CohereComplete, Adapt!GeminiComplete, Adapt!VertexComplete
  <1> QED
    BY Zenon, <1>1 DEF Adapt!Complete

Chunks == [role : BOOLEAN, text : Nat, finish : BOOLEAN]

\* What a goroutine that reads does, whichever adapter started it: the text of the event
\* read is the text of the chunk to send, and an event that is skipped has none.
ReadsOne ==
    /\ at = "reading" /\ UNCHANGED <<adapter, asked, sent, got>>
    /\ \/ /\ UNCHANGED error
          /\ \E t \in {0, Len(seen) + 1}, c \in Chunks :
                /\ seen' = Append(seen, t)
                /\ c.text = t
                /\ IF c = Adapt!Nothing THEN UNCHANGED <<at, chunk>> ELSE at' = "sending" /\ chunk' = c
       \/ at' = "last" /\ chunk' = Adapt!Finish /\ UNCHANGED <<seen, error>>
       \/ at' = "end" /\ UNCHANGED <<seen, chunk>>

LEMMA ChunksBuilt ==
    ASSUME NEW n \in Nat
    PROVE  /\ Adapt!Nothing \in Chunks /\ Adapt!Nothing.text = 0
           /\ Adapt!Opening \in Chunks /\ Adapt!Opening.text = 0
           /\ Adapt!Finish \in Chunks /\ Adapt!Finish.text = 0
           /\ Adapt!Text(n) \in Chunks /\ Adapt!Text(n).text = n
  BY Zenon DEF Chunks, Adapt!Nothing, Adapt!Opening, Adapt!Text, Adapt!Finish

LEMMA OpenAIReads ==
    ASSUME seen \in Seq(Nat),
           Adapt!OpenAIStream \/ Adapt!AzureStream \/ Adapt!GroqStream \/ Adapt!MistralStream
    PROVE  ReadsOne
  <1>1. ASSUME NEW kind
        PROVE  LET n == Len(seen) + 1  c == Adapt!openAIChunk(kind, n)
               IN  c \in Chunks /\ c.text = IF Adapt!Carries(kind) THEN n ELSE 0
    <2> DEFINE n == Len(seen) + 1
               text == IF Adapt!Carries(kind) THEN n ELSE 0
    <2>1. text \in Nat
      OBVIOUS
    <2> HIDE DEF text
    <2>2. ASSUME NEW a \in BOOLEAN, NEW b \in BOOLEAN
          PROVE  LET c == [role |-> a, text |-> text, finish |-> b] IN c \in Chunks /\ c.text = text
      BY Zenon, <2>1 DEF Chunks
    <2>3. (kind = "start") \in BOOLEAN
      OBVIOUS
    <2>4. (kind \in {"finish", "both"}) \in BOOLEAN
      OBVIOUS
    <2> QED
      BY Zenon, <2>2, <2>3, <2>4 DEF Adapt!openAIChunk, text
  <1> QED
    BY ZenonT(40), <1>1 DEF Adapt!OpenAIStream, Adapt!AzureStream, Adapt!GroqStream, Adapt!MistralStream, Adapt!Reads, ReadsOne, Adapt!Stops

LEMMA AnthropicReads ==
    ASSUME seen \in Seq(Nat), Adapt!AnthropicStream
    PROVE  ReadsOne
  <1>1. ASSUME NEW kind \in Adapt!Blocked
        PROVE  LET n == Len(seen) + 1  c == Adapt!anthropicEventToOpenAIChunk(kind, n)
               IN  c \in Chunks /\ c.text = IF Adapt!Carries(kind) THEN n ELSE 0
    <2>1. Len(seen) + 1 \in Nat
      OBVIOUS
    <2> QED
      BY Zenon, <2>1, ChunksBuilt DEF Adapt!anthropicEventToOpenAIChunk, Adapt!Blocked, Adapt!Carries
  <1> QED
    BY Zenon, <1>1 DEF Adapt!AnthropicStream, Adapt!Reads, ReadsOne, Adapt!Stops

LEMMA BedrockReads ==
    ASSUME seen \in Seq(Nat), Adapt!BedrockStream
    PROVE  ReadsOne
  <1>1. ASSUME NEW kind \in Adapt!Blocked
        PROVE  LET n == Len(seen) + 1  c == Adapt!bedrockEventToOpenAIChunk(kind, n)
               IN  c \in Chunks /\ c.text = IF Adapt!Carries(kind) THEN n ELSE 0
    <2>1. Len(seen) + 1 \in Nat
      OBVIOUS
    <2> QED
      BY <2>1, ChunksBuilt DEF Adapt!bedrockEventToOpenAIChunk, Adapt!Blocked, Adapt!Carries
  <1> QED
    BY <1>1 DEF Adapt!BedrockStream, Adapt!Reads, ReadsOne, Adapt!Stops

LEMMA CohereReads ==
    ASSUME seen \in Seq(Nat), Adapt!CohereStream
    PROVE  ReadsOne
  <1>1. ASSUME NEW kind \in Adapt!Blocked
        PROVE  LET n == Len(seen) + 1  c == Adapt!cohereEventToOpenAIChunk(kind, n)
               IN  c \in Chunks /\ c.text = IF Adapt!Carries(kind) THEN n ELSE 0
    <2>1. Len(seen) + 1 \in Nat
      OBVIOUS
    <2> QED
      BY <2>1, ChunksBuilt DEF Adapt!cohereEventToOpenAIChunk, Adapt!Blocked, Adapt!Carries
  <1> QED
    BY Zenon, <1>1 DEF Adapt!CohereStream, Adapt!Reads, ReadsOne, Adapt!Stops

LEMMA GeminiReads ==
    ASSUME seen \in Seq(Nat), Adapt!GeminiStream
    PROVE  ReadsOne
  <1>1. ASSUME NEW kind \in Adapt!Candidates
        PROVE  LET n == Len(seen) + 1  c == Adapt!geminiEventToOpenAIChunk(kind, n)
               IN  c \in Chunks /\ c.text = IF Adapt!Carries(kind) THEN n ELSE 0
    <2>1. Len(seen) + 1 \in Nat
      OBVIOUS
    <2> QED
      BY <2>1, ChunksBuilt DEF Adapt!geminiEventToOpenAIChunk, Adapt!Candidates, Adapt!Carries
  <1> QED
    BY Zenon, <1>1 DEF Adapt!GeminiStream, Adapt!Reads, ReadsOne, Adapt!Stops

LEMMA VertexReads ==
    ASSUME seen \in Seq(Nat), Adapt!VertexStream
    PROVE  ReadsOne
  <1>1. ASSUME NEW kind \in Adapt!Candidates
        PROVE  LET n == Len(seen) + 1  c == Adapt!vertexEventToOpenAIChunk(kind, n)
               IN  c \in Chunks /\ c.text = IF Adapt!Carries(kind) THEN n ELSE 0
    <2>1. Len(seen) + 1 \in Nat
      OBVIOUS
    <2> QED
      BY <2>1, ChunksBuilt DEF Adapt!vertexEventToOpenAIChunk, Adapt!Candidates, Adapt!Carries
  <1> QED
    BY <1>1 DEF Adapt!VertexStream, Adapt!Reads, ReadsOne, Adapt!Stops

LEMMA ReadingIs ==
    ASSUME seen \in Seq(Nat), Adapt!Reading
    PROVE  ReadsOne
  BY OpenAIReads, AnthropicReads, BedrockReads, CohereReads, GeminiReads, VertexReads DEF Adapt!Reading

LEMMA RequestInductive ==
    RequestInv /\ seen \in Seq(Nat) /\ [Adapt!Next]_adaptVars => RequestInv'
  <1> SUFFICES ASSUME RequestInv, seen \in Seq(Nat), [Adapt!Next]_adaptVars PROVE RequestInv'
    OBVIOUS
  <1> USE DEF RequestInv, AskedOK
  <1>1. ASSUME UNCHANGED <<asked, sent>>, AllCarried(sent.messages) PROVE AllCarried(sent.messages)'
    BY <1>1 DEF AllCarried, Carried
  <1>2. CASE Adapt!Send
    <2>1. UNCHANGED <<adapter, asked>> /\ sent' = Adapt!Translated
      BY Zenon, <1>2 DEF Adapt!Send
    <2>2. AllCarried(Adapt!Translated.messages)
      BY TranslatedCarries
    <2>3. AllCarried(sent.messages)'
      BY <2>1, <2>2 DEF AllCarried, Carried
    <2> QED
      BY <2>1, <2>3
  <1>3. CASE Adapt!Completing
    BY <1>1, <1>3, CompletingIs
  <1>4. CASE Adapt!Reading
    BY Zenon, <1>1, <1>4, ReadingIs DEF ReadsOne
  <1>5. CASE Adapt!Deliver
    BY Zenon, <1>1, <1>5 DEF Adapt!Deliver
  <1>6. CASE Adapt!Cancel
    BY Zenon, <1>1, <1>6 DEF Adapt!Cancel
  <1>7. CASE Adapt!Leave
    BY Zenon, <1>1, <1>7 DEF Adapt!Leave
  <1>8. CASE UNCHANGED adaptVars
    BY Zenon, <1>1, <1>8 DEF adaptVars
  <1> QED
    BY <1>2, <1>3, <1>4, <1>5, <1>6, <1>7, <1>8 DEF Adapt!Next

\* The texts that reached the caller.
Shown == [k \in DOMAIN got |-> got[k].text]

\* The reader is at most one chunk ahead of its caller, and that chunk holds the last text
\* read; only a reader that was cancelled stops there.
TextInv ==
    /\ seen \in Seq(Nat) /\ got \in Seq(Chunks) /\ chunk \in Chunks
    /\ at \in {"sending", "last"} => NonZero(seen) = NonZero(Append(Shown, chunk.text))
    /\ at \notin {"sending", "last"} =>
          \/ NonZero(seen) = NonZero(Shown)
          \/ /\ at = "end" /\ error # "none"
             /\ \E x \in Nat : NonZero(seen) = NonZero(Append(Shown, x))

LEMMA ShownIs ==
    ASSUME NEW g \in Seq(Chunks)
    PROVE  /\ [k \in DOMAIN g |-> g[k].text] \in Seq(Nat)
           /\ \A c \in Chunks :
                 LET h == Append(g, c)
                 IN  [k \in DOMAIN h |-> h[k].text] = Append([k \in DOMAIN g |-> g[k].text], c.text)
  <1> DEFINE n == Len(g)
             s == [k \in DOMAIN g |-> g[k].text]
  <1>1. n \in Nat /\ DOMAIN g = 1 .. n /\ \A k \in 1 .. n : g[k].text \in Nat
    <2>1. n \in Nat /\ DOMAIN g = 1 .. n /\ \A k \in 1 .. n : g[k] \in Chunks
      OBVIOUS
    <2>2. \A c \in Chunks : c.text \in Nat
      BY Zenon DEF Chunks
    <2> HIDE DEF n
    <2> QED
      BY <2>1, <2>2
  <1>2. s \in [1 .. n -> Nat]
    BY <1>1
  <1> HIDE DEF n, s
  <1>3. s \in Seq(Nat) /\ Len(s) = n
    BY <1>1, <1>2
  <1>4. ASSUME NEW c \in Chunks
        PROVE  LET h == Append(g, c) IN [k \in DOMAIN h |-> h[k].text] = Append(s, c.text)
    <2> DEFINE h == Append(g, c)
               a == [k \in DOMAIN h |-> h[k].text]
               b == Append(s, c.text)
    <2>1. DOMAIN h = 1 .. n + 1 /\ (\A k \in 1 .. n : h[k] = g[k]) /\ h[n + 1] = c
      BY <1>1 DEF n
    <2>2. c.text \in Nat
      BY Zenon DEF Chunks
    <2>3. DOMAIN b = 1 .. n + 1 /\ (\A k \in 1 .. n : b[k] = s[k]) /\ b[n + 1] = c.text
      BY <1>1, <1>3, <2>2
    <2>4. \A k \in 1 .. n : s[k] = g[k].text
      BY Zenon, <1>1 DEF s
    <2> HIDE DEF h
    <2>5. \A k \in 1 .. n + 1 : a[k] = b[k]
      BY <1>1, <2>1, <2>3, <2>4
    <2>6. b \in Seq(Nat)
      BY <1>3, <2>2
    <2> HIDE DEF b
    <2>7. b = [k \in DOMAIN h |-> b[k]]
      BY <2>1, <2>3, <2>6
    <2>8. a = b
      BY <2>1, <2>5, <2>7
    <2> QED
      BY Zenon, <2>8 DEF h, b
  <1> QED
    BY Zenon, <1>3, <1>4 DEF s

LEMMA TextInitially == Adapt!Init => TextInv
  <1> SUFFICES ASSUME Adapt!Init PROVE TextInv
    OBVIOUS
  <1>1. seen = <<>> /\ got = <<>> /\ chunk = Adapt!Nothing /\ at = "request"
    BY Zenon DEF Adapt!Init
  <1>2. Shown = <<>>
    BY <1>1 DEF Shown
  <1>3. chunk \in Chunks
    BY <1>1, ChunksBuilt
  <1> QED
    BY <1>1, <1>2, <1>3 DEF TextInv

\* TextInv when neither the list of texts read nor the list of texts shown changes.
LEMMA TextStays ==
    ASSUME TextInv, UNCHANGED <<seen, got, chunk>>,
           \/ UNCHANGED <<at, error>>
           \/ at \in {"request", "complete", "reading"} /\ at' \notin {"sending", "last"}
    PROVE  TextInv'
  <1>1. Shown' = Shown
    BY Zenon DEF Shown
  <1> QED
    BY Zenon, <1>1 DEF TextInv

LEMMA TextInductive == TextInv /\ [Adapt!Next]_adaptVars => TextInv'
  <1> SUFFICES ASSUME TextInv, [Adapt!Next]_adaptVars PROVE TextInv'
    OBVIOUS
  <1>0. seen \in Seq(Nat) /\ got \in Seq(Chunks) /\ chunk \in Chunks /\ chunk.text \in Nat
    BY Zenon DEF TextInv, Chunks
  <1>1. CASE Adapt!Send
    BY Zenon, <1>1, TextStays DEF Adapt!Send
  <1>2. CASE Adapt!Completing
    <2>1. CASE UNCHANGED <<seen, got>>
      BY <1>2, <2>1, CompletingIs, TextStays
    <2>2. ASSUME NEW blocks \in Adapt!Blocks, seen' = Adapt!TextBlocks(blocks),
                 got' = [k \in DOMAIN seen' |-> Adapt!Text(seen'[k])]
          PROVE  TextInv'
      <3>1. seen' \in Seq(Nat)
        <4> DEFINE S == {i \in DOMAIN blocks : blocks[i] = "text"}
        <4>1. Len(blocks) \in Nat
          BY DEF Adapt!Blocks
        <4>2. seen' = Places(S, Len(blocks))
          BY Zenon, <2>2 DEF Adapt!TextBlocks, Adapt!Places, Places
        <4> HIDE DEF S
        <4>3. seen' \in Seq(1 .. Len(blocks))
          BY Zenon, <4>1, <4>2, PlacesEnumerate DEF Enumerates
        <4> QED
          BY <4>1, <4>3
      <3>2. got' \in Seq(Chunks)
        <4>1. got' \in [1 .. Len(seen') -> Chunks]
          BY <2>2, <3>1, ChunksBuilt
        <4>2. Len(seen') \in Nat
          BY <3>1
        <4> QED
          BY <4>1, <4>2
      <3>3. Shown' = seen'
        <4>1. DOMAIN got' = DOMAIN seen' /\ \A k \in DOMAIN seen' : got'[k].text = seen'[k]
          BY <2>2, <3>1, ChunksBuilt
        <4>2. seen' = [k \in DOMAIN seen' |-> seen'[k]]
          BY <3>1
        <4> QED
          BY Zenon, <4>1, <4>2 DEF Shown
      <3> QED
        BY <1>0, <1>2, <3>1, <3>2, <3>3, CompletingIs DEF TextInv
    <2> QED
      BY <1>2, <2>1, <2>2, CompletingIs
  <1>3. CASE Adapt!Reading
    <2>1. ReadsOne
      BY Zenon, <1>0, <1>3, ReadingIs
    <2>2. at = "reading" /\ got' = got /\ Shown' = Shown /\ Shown \in Seq(Nat)
      BY Zenon, <1>0, <2>1, ShownIs DEF ReadsOne, Shown
    <2>3. NonZero(seen) = NonZero(Shown)
      BY Zenon, <2>2 DEF TextInv
    <2>4. CASE at' = "end" /\ UNCHANGED <<seen, chunk>>
      BY <2>2, <2>4, TextStays
    <2>5. CASE at' = "last" /\ chunk' = Adapt!Finish /\ UNCHANGED <<seen, error>>
      <3>1. chunk' \in Chunks /\ chunk'.text = 0
        BY <2>5, ChunksBuilt
      <3>2. NonZero(Append(Shown, 0)) = NonZero(Shown)
        BY <2>2, NonZeroAppend
      <3> QED
        BY <1>0, <2>2, <2>3, <2>5, <3>1, <3>2 DEF TextInv
    <2>6. ASSUME NEW t \in {0, Len(seen) + 1}, NEW c \in Chunks,
                 seen' = Append(seen, t), c.text = t,
                 IF c = Adapt!Nothing THEN UNCHANGED <<at, chunk>> ELSE at' = "sending" /\ chunk' = c
          PROVE  TextInv'
      <3>1. t \in Nat
        BY <1>0
      <3>2. seen' \in Seq(Nat)
        BY <1>0, <2>6, <3>1
      <3>3. /\ NonZero(seen') = IF t = 0 THEN NonZero(seen) ELSE Append(NonZero(seen), t)
            /\ NonZero(Append(Shown, t)) = IF t = 0 THEN NonZero(Shown) ELSE Append(NonZero(Shown), t)
        BY <1>0, <2>2, <2>6, <3>1, NonZeroAppend
      <3>4. NonZero(seen') = NonZero(Append(Shown, t))
        BY <2>3, <3>3
      <3>5. CASE c = Adapt!Nothing
        <4>1. t = 0 /\ at' = at /\ chunk' = chunk
          BY <2>6, <3>5, ChunksBuilt
        <4> QED
          BY <1>0, <2>2, <2>3, <3>2, <3>3, <4>1 DEF TextInv
      <3>6. CASE c # Adapt!Nothing
        BY <1>0, <2>2, <2>6, <3>2, <3>4, <3>6 DEF TextInv
      <3> QED
        BY <3>5, <3>6
    <2> QED
      BY Zenon, <2>1, <2>4, <2>5, <2>6 DEF ReadsOne
  <1>4. CASE Adapt!Deliver
    <2>1. at \in {"sending", "last"} /\ chunk' = Adapt!Nothing /\ chunk' \in Chunks /\ seen' = seen
      BY Zenon, <1>4, ChunksBuilt DEF Adapt!Deliver
    <2>2. NonZero(seen) = NonZero(Append(Shown, chunk.text))
      BY Zenon, <2>1 DEF TextInv
    <2>3. CASE got' = Append(got, chunk) /\ at' \in {"end", "reading"}
      <3>1. Shown' = Append(Shown, chunk.text)
        BY Zenon, <1>0, <2>3, ShownIs DEF Shown
      <3>2. got' \in Seq(Chunks)
        BY <1>0, <2>3
      <3> QED
        BY Zenon, <1>0, <2>1, <2>2, <2>3, <3>1, <3>2 DEF TextInv
    <2>4. CASE at' = "end" /\ error' = "cancelled" /\ got' = got
      <3>1. Shown' = Shown
        BY Zenon, <2>4 DEF Shown
      <3> QED
        BY <1>0, <2>1, <2>2, <2>4, <3>1 DEF TextInv
    <2> QED
      BY Zenon, <1>4, <2>3, <2>4 DEF Adapt!Deliver, Adapt!Stops
  <1>5. CASE Adapt!Cancel
    BY Zenon, <1>5, TextStays DEF Adapt!Cancel
  <1>6. CASE Adapt!Leave
    BY Zenon, <1>6, TextStays DEF Adapt!Leave
  <1>7. CASE UNCHANGED adaptVars
    BY Zenon, <1>7, TextStays DEF adaptVars
  <1> QED
    BY <1>1, <1>2, <1>3, <1>4, <1>5, <1>6, <1>7 DEF Adapt!Next

\* A sequence starts with itself, and what one more element makes of it starts with it.
LEMMA StartsWith ==
    ASSUME NEW a \in Seq(Nat), NEW x \in Nat, NEW b, b = a \/ b = Append(a, x)
    PROVE  Len(a) <= Len(b) /\ a = SubSeq(b, 1, Len(a))
  <1> DEFINE c == SubSeq(b, 1, Len(a))
  <1>1. b \in Seq(Nat) /\ Len(a) \in Nat /\ Len(a) <= Len(b) /\ \A k \in 1 .. Len(a) : b[k] = a[k]
    <2>1. CASE b = a
      BY <2>1
    <2>2. CASE b = Append(a, x)
      BY <2>2
    <2> QED
      BY <2>1, <2>2
  <1>2. c = [k \in 1 .. Len(a) |-> b[k]]
    BY <1>1
  <1> HIDE DEF c
  <1>3. a = [k \in 1 .. Len(a) |-> a[k]]
    OBVIOUS
  <1>4. a = c
    BY <1>1, <1>2, <1>3
  <1> QED
    BY Zenon, <1>1, <1>4 DEF c

LEMMA TextInvKeeps == TextInv => TextKept
  <1> SUFFICES ASSUME TextInv PROVE TextKept
    OBVIOUS
  <1> DEFINE a == NonZero(Shown)
             b == NonZero(seen)
  <1>1. \A q : Adapt!NonZero(q) = NonZero(q)
    BY Zenon DEF Adapt!NonZero, NonZero, Adapt!Picked, Picked, Adapt!Places, Places
  <1>2. Adapt!Texts(got) = a /\ Adapt!Read = b
    BY Zenon, <1>1 DEF Adapt!Texts, Adapt!Read, Shown
  <1>3. Shown \in Seq(Nat) /\ chunk.text \in Nat
    BY Zenon, ShownIs DEF TextInv, Shown, Chunks
  <1>4. a \in Seq(Nat)
    BY <1>3, NonZeroType
  <1>5. b = a \/ \E x \in Nat : b = Append(a, x)
    <2>1. b = a \/ \E x \in Nat : b = NonZero(Append(Shown, x))
      BY Zenon, <1>3 DEF TextInv
    <2> QED
      BY <1>3, <2>1, NonZeroAppend
  <1>6. at = "end" /\ error = "none" => b = a
    BY Zenon DEF TextInv
  <1> HIDE DEF a, b
  <1>7. Len(a) <= Len(b) /\ a = SubSeq(b, 1, Len(a))
    BY <1>4, <1>5, StartsWith
  <1> QED
    BY Zenon, <1>2, <1>6, <1>7 DEF TextKept, Adapt!TextKept

\* The adapters (toAnthropicRequest, toBedrockRequest, toCohereRequest, toGeminiRequest,
\* toVertexRequest and the four that pass messages on): whatever the roles of the messages
\* and however many there are, each message that is not a system message is in the
\* provider's request, once.
THEOREM SentOnce == Adapt!Spec => []MessagesSentOnce
  <1>1. RequestInv => MessagesSentOnce
    BY Zenon DEF RequestInv, MessagesSentOnce, Adapt!MessagesSentOnce, AllCarried, Carried
  <1>2. TextInv => seen \in Seq(Nat)
    BY Zenon DEF TextInv
  <1>3. TextInv /\ RequestInv /\ [Adapt!Next]_adaptVars => (TextInv /\ RequestInv)'
    BY <1>2, RequestInductive, TextInductive
  <1>4. Adapt!Init => TextInv /\ RequestInv
    BY RequestInitially, TextInitially
  <1> QED
    BY <1>1, <1>3, <1>4, PTL DEF Adapt!Spec, Adapt!vars, adaptVars

\* StreamChat and CompleteChat of the nine adapters: whatever events the provider sends and
\* whenever the client goes away, the caller has received, in order, the text the provider
\* sent up to some point, and all of it when no error is reported.
THEOREM TextArrives == Adapt!Spec => []TextKept
  BY TextInitially, TextInductive, TextInvKeeps, PTL DEF Adapt!Spec, Adapt!vars, adaptVars
=============================================================================
