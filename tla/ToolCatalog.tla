---------------------------- MODULE ToolCatalog -----------------------------
(***************************************************************************)
(* The MCP client side: internal/mcp manager.go, client.go, transport.go   *)
(* and registry.go.  One goroutine checks the health of all servers; each  *)
(* server has a listener goroutine and timers that refresh its tools after *)
(* a notification.  Manager.Stop is never called by the gateway.           *)
(***************************************************************************)
EXTENDS Integers, FiniteSets

CONSTANTS
    Servers,
    Tools,          \* raw tool names
    Prefix,         \* tool_prefix of every server
    Slots,          \* refreshes of one server that can overlap
    NotifCap,       \* capacity of the notification channel
    MaxChanges      \* bound on changes of the tool lists

VARIABLES
    up, offers,         \* the servers: reachable?, tools they list
    connected,          \* serverState.connected
    client,             \* tools cached by the current client
    notes,              \* notifications in its channel
    timer,              \* refreshTimer is running
    refresh,            \* refresh[s][i]: idle, asking (a list), stored
    stale,              \* refreshes whose client has been replaced
    catalog,            \* Registry.tools: records [name, server]
    health,             \* the health check goroutine: [at, server, got]
    crashed, changes

vars == <<up, offers, connected, client, notes, timer, refresh, stale, catalog,
          health, crashed, changes>>

Idle == [at |-> "idle", server |-> CHOOSE s \in Servers : TRUE, got |-> {}]

Entries(s, tools) == {[name |-> <<Prefix[s], t>>, server |-> s] : t \in tools}

\* RemoveServerTools
Without(c, s) == {e \in c : e.server # s}

\* ReplaceServerTools: an entry of another server with the same name is overwritten.
Replaced(c, s, tools) ==
    {e \in Without(c, s) : ~\E n \in Entries(s, tools) : n.name = e.name} \cup Entries(s, tools)

\* Start: connectServer for every server; of two tools with one name, that of the
\* server connected last.
Init ==
    /\ up \in [Servers -> BOOLEAN]
    /\ offers \in [Servers -> SUBSET Tools]
    /\ connected = up
    /\ client = [s \in Servers |-> IF up[s] THEN offers[s] ELSE {}]
    /\ LET all == UNION {Entries(s, client[s]) : s \in Servers}
       IN  catalog \in {c \in SUBSET all : \A e \in all : Cardinality({d \in c : d.name = e.name}) = 1}
    /\ notes = [s \in Servers |-> 0]
    /\ timer = [s \in Servers |-> FALSE]
    /\ refresh = [s \in Servers |-> [i \in Slots |-> "idle"]]
    /\ stale = {}
    /\ health = Idle
    /\ crashed = FALSE
    /\ changes = 0

-----------------------------------------------------------------------------
(* The servers *)

Outage(s) ==
    /\ ~crashed /\ changes < MaxChanges
    /\ up' = [up EXCEPT ![s] = ~@]
    /\ changes' = changes + 1
    /\ UNCHANGED <<offers, connected, client, notes, timer, refresh, stale, catalog, health, crashed>>

\* readSSEResponse puts a notification into the channel; when that is full it logs
\* with the transport's logger, which NewStreamableHTTP leaves nil.
Notify(s) ==
    IF notes[s] < NotifCap
    THEN notes' = [notes EXCEPT ![s] = @ + 1] /\ UNCHANGED crashed
    ELSE crashed' = TRUE /\ UNCHANGED notes

\* The tools change, and a response of the server carries list_changed.
Change(s, tools) ==
    /\ ~crashed /\ up[s] /\ changes < MaxChanges /\ tools # offers[s]
    /\ offers' = [offers EXCEPT ![s] = tools]
    /\ changes' = changes + 1
    /\ IF connected[s] THEN Notify(s) ELSE UNCHANGED <<notes, crashed>>
    /\ UNCHANGED <<up, connected, client, timer, refresh, stale, catalog, health>>

-----------------------------------------------------------------------------
(* listenNotifications, scheduleRefresh and the function of its timer *)

\* The timer is stopped and started again.
Listen(s) ==
    /\ ~crashed /\ notes[s] > 0
    /\ notes' = [notes EXCEPT ![s] = @ - 1]
    /\ timer' = [timer EXCEPT ![s] = TRUE]
    /\ UNCHANGED <<up, offers, connected, client, refresh, stale, catalog, health, crashed, changes>>

Set(s, i, pc) == refresh' = [refresh EXCEPT ![s][i] = pc]

Fire(s, i) ==
    /\ ~crashed /\ timer[s] /\ refresh[s][i] = "idle"
    /\ timer' = [timer EXCEPT ![s] = FALSE]
    /\ IF connected[s] THEN Set(s, i, "asking") ELSE UNCHANGED refresh
    /\ UNCHANGED <<up, offers, connected, client, notes, stale, catalog, health, crashed, changes>>

\* RefreshTools returns; without an error the client that was asked has the list.
Listed(s, i, ok) ==
    /\ ~crashed /\ refresh[s][i] = "asking" /\ (ok => up[s])
    /\ Set(s, i, IF ok THEN "stored" ELSE "idle")
    /\ client' = IF ok /\ <<s, i>> \notin stale THEN [client EXCEPT ![s] = offers[s]] ELSE client
    /\ stale' = stale \ {<<s, i>>}
    /\ UNCHANGED <<up, offers, connected, notes, timer, catalog, health, crashed, changes>>

\* ReplaceServerTools with the tools of the client the server has by now
Publish(s, i) ==
    /\ ~crashed /\ refresh[s][i] = "stored"
    /\ Set(s, i, "idle")
    /\ catalog' = Replaced(catalog, s, client[s])
    /\ UNCHANGED <<up, offers, connected, client, notes, timer, stale, health, crashed, changes>>

-----------------------------------------------------------------------------
(* checkAllServers and tryReconnect *)

Check(s) == [at |-> IF connected[s] THEN "ping" ELSE "reconnect", server |-> s, got |-> {}]
\* (variant: only connected servers are visited)
VisitConnected(s) == connected[s] /\ health' = Check(s)
Visit(s) == health' = Check(s)

Begin(s) ==
    /\ ~crashed /\ health.at = "idle"
    /\ Visit(s)
    /\ UNCHANGED <<up, offers, connected, client, notes, timer, refresh, stale, catalog, crashed, changes>>

\* The ping fails: connected is cleared now, the tools are removed after.
Ping ==
    /\ ~crashed /\ health.at = "ping"
    /\ IF up[health.server] THEN health' = Idle /\ UNCHANGED connected
       ELSE /\ connected' = [connected EXCEPT ![health.server] = FALSE]
            /\ health' = [health EXCEPT !.at = "remove"]
    /\ UNCHANGED <<up, offers, client, notes, timer, refresh, stale, catalog, crashed, changes>>

Remove ==
    /\ ~crashed /\ health.at = "remove"
    /\ catalog' = Without(catalog, health.server)
    /\ health' = Idle
    /\ UNCHANGED <<up, offers, connected, client, notes, timer, refresh, stale, crashed, changes>>

\* Initialize by a new client; if only tools/list fails it goes on without tools.
Reconnect(tools) ==
    /\ ~crashed /\ health.at = "reconnect"
    /\ LET s == health.server IN
       IF ~up[s] THEN health' = Idle /\ UNCHANGED <<connected, client, notes, stale>>
       ELSE /\ tools \in {offers[s], {}}
            /\ connected' = [connected EXCEPT ![s] = TRUE]
            /\ client' = [client EXCEPT ![s] = tools]
            /\ notes' = [notes EXCEPT ![s] = 0]
            /\ stale' = stale \cup {<<s, i>> : i \in {i \in Slots : refresh[s][i] = "asking"}}
            /\ health' = [health EXCEPT !.at = "replace", !.got = tools]
    /\ UNCHANGED <<up, offers, timer, refresh, catalog, crashed, changes>>

Replace ==
    /\ ~crashed /\ health.at = "replace"
    /\ catalog' = Replaced(catalog, health.server, health.got)
    /\ health' = Idle
    /\ UNCHANGED <<up, offers, connected, client, notes, timer, refresh, stale, crashed, changes>>

Next ==
    \/ \E s \in Servers :
          \/ Outage(s)
          \/ \E tools \in SUBSET Tools : Change(s, tools)
          \/ Listen(s)
          \/ Begin(s)
          \/ \E i \in Slots :
                Fire(s, i) \/ Listed(s, i, TRUE) \/ Listed(s, i, FALSE) \/ Publish(s, i)
    \/ Ping
    \/ Remove
    \/ \E tools \in SUBSET Tools : Reconnect(tools)
    \/ Replace

Spec == Init /\ [][Next]_vars

\* The goroutines run, the ticker visits every server, calls return.
Fairness ==
    /\ \A s \in Servers : WF_vars(Listen(s)) /\ SF_vars(Begin(s))
    /\ \A s \in Servers, i \in Slots :
          /\ WF_vars(Fire(s, i))
          /\ WF_vars(Listed(s, i, TRUE) \/ Listed(s, i, FALSE))
          /\ WF_vars(Publish(s, i))
    /\ WF_vars(Ping) /\ WF_vars(Remove) /\ WF_vars(Replace)
    /\ WF_vars(\E t \in SUBSET Tools : Reconnect(t))
FairSpec == Spec /\ Fairness

-----------------------------------------------------------------------------
(* Properties *)

TypeOK ==
    /\ connected \in [Servers -> BOOLEAN] /\ up \in [Servers -> BOOLEAN]
    /\ client \in [Servers -> SUBSET Tools] /\ offers \in [Servers -> SUBSET Tools]
    /\ notes \in [Servers -> 0 .. NotifCap]
    /\ \A e \in catalog : e.server \in Servers
    /\ health.at \in {"idle", "ping", "remove", "reconnect", "replace"}

\* registry.go: "RemoveServerTools removes all tools for a disconnected server."
\* When nothing is under way for a disconnected server, none of its tools is in
\* the registry.
GoneWhenDisconnected ==
    \A s \in Servers :
        ~connected[s] /\ health.at = "idle" /\ (\A i \in Slots : refresh[s][i] = "idle")
            => \A e \in catalog : e.server # s

\* transport.go: "notification channel full, dropping notification".  A full
\* channel costs a notification and nothing else.
FullChannelDrops == ~crashed

\* A server that stays up is connected again in the end.
ReconnectsWhenUp == \A s \in Servers : <>[](up[s] /\ ~crashed) => <>[](connected[s] \/ crashed)
=============================================================================
