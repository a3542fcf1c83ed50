----------------------------- MODULE MCPServer ------------------------------
(***************************************************************************)
(* MCP server mode: virtual keys offered as tools (internal/mcp server.go, *)
(* discovery.go, resolver.go, executor_server.go) and the sessions that    *)
(* are told when the tools change (session.go).  The admin API broadcasts  *)
(* from a goroutine of its own after it has answered.                      *)
(***************************************************************************)
EXTENDS Integers, Sequences

CONSTANTS
    Clients,
    Kinds,          \* the keys that can be created: records [name, tool]
    MaxKeys,        \* bound on keys
    QueueCap,       \* capacity of Session.notifier
    MaxPending,     \* bound on broadcasts under way
    None

VARIABLES
    keys,           \* rows with allow_mcp_server, newest first: [id, name, tool, state];
                    \* a state "gone" is a row that was deleted
    pending,        \* broadcasts not yet made
    silent,         \* the list has changed and no broadcast was called for since
    session,        \* session[c]: none, open, idle (not seen for the TTL)
    queue,          \* notifications in its channel
    reader,         \* reader[c]: the client reads the stream
    dead,           \* dead[c]: streams whose client has left, still in ServeSSE
    todo,           \* todo[c]: the client is about to list the tools
    view            \* view[c]: the tools it was given last

vars == <<keys, pending, silent, session, queue, reader, dead, todo, view>>
sessions == <<session, queue, reader, dead, todo, view>>

\* A name is [base, n, tidy]: sanitizeToolName makes it tidy, n > 0 is a suffix _n.
sanitizeToolName(x) == [x EXCEPT !.tidy = TRUE]
IdName(id) == [base |-> "vk", n |-> id, tidy |-> TRUE]

makeToolName(k) ==
    IF k.tool # None THEN sanitizeToolName(k.tool)
    ELSE IF k.name # None THEN sanitizeToolName(k.name)
    ELSE IdName(k.id)

\* NewDBToolLister passes over revoked keys; it does not look at expires_at.
Exposed(k) == k.state \notin {"revoked", "gone"}

\* What it takes from the rows.
Row(k) == [id |-> k.id, name |-> makeToolName(k), exposed |-> Exposed(k)]

Count(name, seq) == Len(SelectSeq(seq, LAMBDA r : r.name = name))

\* The list of tools: the second and later keys of one name get a number.
Listing(rows) ==
    LET shown == SelectSeq(rows, LAMBDA r : r.exposed)
        Named(i) == LET name == shown[i].name
                        before == Count(name, SubSeq(shown, 1, i - 1))
                    IN  IF before = 0 THEN name ELSE [name EXCEPT !.n = before + 1]
    IN  [i \in DOMAIN shown |-> [name |-> Named(i), id |-> shown[i].id]]

ToolList == Listing([i \in DOMAIN keys |-> Row(keys[i])])

\* ListVirtualKeysForMCP
Active(k) == k.state = "active"

First(seq, Test(_)) == LET hits == SelectSeq(seq, Test) IN IF hits = <<>> THEN None ELSE hits[1].id

\* ResolveToolName
ResolveToolName(name) ==
    LET all == SelectSeq(keys, Active)
        exact == SelectSeq(all, LAMBDA k : k.tool = name)
    IN  IF exact # <<>> /\ name.tidy THEN exact[1].id
        ELSE First(IF exact = <<>> THEN all ELSE exact,
                   LAMBDA k : (k.name # None /\ sanitizeToolName(k.name) = name) \/ IdName(k.id) = name)

Init ==
    /\ keys = <<>>
    /\ pending = 0
    /\ silent = FALSE
    /\ session = [c \in Clients |-> "none"]
    /\ queue = [c \in Clients |-> 0]
    /\ reader = [c \in Clients |-> FALSE]
    /\ dead = [c \in Clients |-> FALSE]
    /\ todo = [c \in Clients |-> FALSE]
    /\ view = [c \in Clients |-> <<>>]

-----------------------------------------------------------------------------
(* The admin API *)

\* OnKeysChanged
Announce == pending < MaxPending /\ pending' = pending + 1 /\ silent' = FALSE

createKey(kind) ==
    /\ Len(keys) < MaxKeys
    /\ keys' = <<[id |-> Len(keys) + 1, name |-> kind.name, tool |-> kind.tool, state |-> "active"]>> \o keys
    /\ Announce
    /\ UNCHANGED sessions

\* (variant: no announcement)
RevokeQuietly(i) == keys' = [keys EXCEPT ![i].state = "revoked"] /\ UNCHANGED <<pending, silent>>
Revoke(i) == keys' = [keys EXCEPT ![i].state = "revoked"] /\ Announce

revokeKey(i) ==
    /\ keys[i].state \notin {"revoked", "gone"}
    /\ Revoke(i)
    /\ UNCHANGED sessions

\* updateKey and patchKey: of what the tools show, the name of the key.
UpdateKey(i, name) ==
    /\ keys[i].state # "gone"
    /\ keys' = [keys EXCEPT ![i].name = name]
    /\ Announce
    /\ UNCHANGED sessions

\* deleteProject: the keys go with their project (here one project has them all), and
\* nothing is announced.
deleteProject ==
    /\ \E i \in DOMAIN keys : keys[i].state # "gone"
    /\ keys' = [i \in DOMAIN keys |-> [keys[i] EXCEPT !.state = "gone"]]
    /\ silent' = TRUE
    /\ UNCHANGED <<pending, sessions>>

Expire(i) ==
    /\ keys[i].state = "active"
    /\ keys' = [keys EXCEPT ![i].state = "expired"]
    /\ UNCHANGED <<pending, silent, sessions>>

-----------------------------------------------------------------------------
(* Sessions *)

InStore(c) == session[c] \in {"open", "idle"}

\* A full channel drops the notification.
Room(c) == queue[c] < QueueCap

Broadcast ==
    /\ pending > 0
    /\ pending' = pending - 1
    /\ queue' = [c \in Clients |-> IF InStore(c) /\ Room(c) THEN queue[c] + 1 ELSE queue[c]]
    /\ UNCHANGED <<keys, silent, session, reader, dead, todo, view>>

\* A POST creates the session, or finds it; the client then opens the stream and
\* lists the tools.  (Bound: one dead stream.)
Connect(c) ==
    /\ ~reader[c]
    /\ session' = [session EXCEPT ![c] = "open"]
    /\ reader' = [reader EXCEPT ![c] = TRUE]
    /\ todo' = [todo EXCEPT ![c] = TRUE]
    /\ UNCHANGED <<keys, pending, silent, queue, dead, view>>

\* handleToolsList; the request keeps the session alive.
handleToolsList(c) ==
    /\ todo[c] /\ InStore(c)
    /\ todo' = [todo EXCEPT ![c] = FALSE]
    /\ view' = [view EXCEPT ![c] = ToolList]
    /\ session' = [session EXCEPT ![c] = "open"]
    /\ UNCHANGED <<keys, pending, silent, queue, reader, dead>>

\* The stream of the client takes a notification, or one that nobody reads does.
ServeSSE(c) ==
    /\ queue[c] > 0
    /\ queue' = [queue EXCEPT ![c] = @ - 1]
    /\ \/ reader[c] /\ todo' = [todo EXCEPT ![c] = TRUE]
       \/ dead[c] /\ UNCHANGED todo
    /\ UNCHANGED <<keys, pending, silent, session, reader, dead, view>>

\* The client leaves; ServeSSE does not look at the request's context.
Leave(c) ==
    /\ reader[c] /\ ~dead[c]
    /\ reader' = [reader EXCEPT ![c] = FALSE]
    /\ dead' = [dead EXCEPT ![c] = TRUE]
    /\ UNCHANGED <<keys, pending, silent, session, queue, todo, view>>

Tick(c) ==
    /\ session[c] = "open"
    /\ session' = [session EXCEPT ![c] = "idle"]
    /\ UNCHANGED <<keys, pending, silent, queue, reader, dead, todo, view>>

\* evictLoop removes the session and closes its channel: every stream of it ends.
evict(c) ==
    /\ session[c] = "idle"
    /\ session' = [session EXCEPT ![c] = "none"]
    /\ reader' = [reader EXCEPT ![c] = FALSE]
    /\ dead' = [dead EXCEPT ![c] = FALSE]
    /\ queue' = [queue EXCEPT ![c] = 0]
    /\ todo' = [todo EXCEPT ![c] = FALSE]
    /\ UNCHANGED <<keys, pending, silent, view>>

Next ==
    \/ \E kind \in Kinds : createKey(kind)
    \/ \E i \in DOMAIN keys : revokeKey(i) \/ Expire(i) \/ \E kind \in Kinds : UpdateKey(i, kind.name)
    \/ deleteProject
    \/ Broadcast
    \/ \E c \in Clients :
          Connect(c) \/ handleToolsList(c) \/ ServeSSE(c) \/ Leave(c) \/ Tick(c) \/ evict(c)

Spec == Init /\ [][Next]_vars

-----------------------------------------------------------------------------
(* Properties *)

TypeOK ==
    /\ pending \in 0 .. MaxPending
    /\ session \in [Clients -> {"none", "open", "idle"}]
    /\ queue \in [Clients -> 0 .. QueueCap]
    /\ Len(keys) <= MaxKeys

\* A client that reads its stream and lists the tools on every notification has
\* the current tools when nothing is on its way to it: notifications dropped
\* because the channel is full are no loss, as long as no stream it has left
\* takes them.  (The deletion of a project is not told until the next change.)
ViewFollows ==
    \A c \in Clients :
        reader[c] /\ ~dead[c] /\ InStore(c) /\ ~todo[c] /\ queue[c] = 0 /\ pending = 0 /\ ~silent
            => view[c] = ToolList

\* docs/agent-protocols.md: tools/call "resolves the tool name -> virtual key".
\* A call of a listed tool runs under the key that the tool was listed for.
CallRunsUnderListedKey ==
    \A i \in DOMAIN ToolList : ResolveToolName(ToolList[i].name) \in {ToolList[i].id, None}
=============================================================================
