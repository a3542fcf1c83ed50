---------------------------- MODULE MCBackground -----------------------------
(***************************************************************************)
(* Instance for TLC of what goes on besides the requests: the usage and    *)
(* replay goroutines, the embedding cache, the catalog of MCP tools and    *)
(* the configuration watcher.  They share no state, so each behaviour      *)
(* moves one of them, part, and leaves the others where they start.        *)
(***************************************************************************)
EXTENDS Ledger, EmbeddingCache

CONSTANTS s1, s2, t1

VARIABLES
    part,
    alive, offers, connected, client, notes, timer, refresh, stale, catalog, health,
    crashed, changes,
    hups, file, mtime, lastMod, current, running, doing, quiet, due

catalogVars == <<alive, offers, connected, client, notes, timer, refresh, stale, catalog,
                 health, crashed, changes>>
configVars == <<hups, file, mtime, lastMod, current, running, doing, quiet, due>>

-----------------------------------------------------------------------------
(* The instances *)

\* Two servers under one tool_prefix, which nothing forbids.
Tool == INSTANCE ToolCatalog WITH
    Servers <- {s1, s2}, Tools <- {t1}, Prefix <- [s \in {s1, s2} |-> "p"], Slots <- {1},
    NotifCap <- 1, MaxChanges <- 3, up <- alive

Config == INSTANCE ConfigWatcher WITH
    Valid <- {"v1", "v2"}, Invalid <- {"bad"}, MaxEdits <- 4, at <- doing

-----------------------------------------------------------------------------
(* One of them moves *)

Parts == {"ledger", "cache", "catalog", "config"}

\* The components that do not move start in one fixed state.
InitAll ==
    /\ part \in Parts
    /\ Init /\ (part # "ledger" => failClosed)
    /\ Embed!Init /\ (part # "cache" => embedder)
    /\ offers \in IF part = "catalog" THEN [{s1, s2} -> SUBSET {t1}]
                  ELSE {[s \in {s1, s2} |-> {}]}
    /\ Tool!Init /\ (part # "catalog" => alive[s1] /\ alive[s2])
    /\ Config!Init /\ (part # "config" => hups /\ file = "v1")

NextAll ==
    /\ \/ /\ part = "ledger" /\ Next
          /\ UNCHANGED <<embedVars, catalogVars, configVars>>
       \/ /\ part = "cache" /\ Embed!Next
          /\ UNCHANGED <<vars, catalogVars, configVars>>
       \/ /\ part = "catalog" /\ Tool!Next
          /\ UNCHANGED <<vars, embedVars, configVars>>
       \/ /\ part = "config" /\ Config!Next
          /\ UNCHANGED <<vars, embedVars, catalogVars>>
    /\ UNCHANGED part

allVars == <<part, vars, embedVars, catalogVars, configVars>>

\* The fairness conditions of every component (Fairness of its module), when it moves.
Runs(p) == part = p

FairLedger ==
    /\ \A r \in Requests : /\ WF_vars(Runs("ledger") /\ ShadowStart(r))
                           /\ WF_vars(Runs("ledger") /\ ShadowEnd(r))
    /\ WF_vars(Runs("ledger") /\ phase # "run" /\ Main)

FairCatalog ==
    /\ \A s \in {s1, s2} :
          /\ WF_catalogVars(Runs("catalog") /\ Tool!Listen(s))
          /\ SF_catalogVars(Runs("catalog") /\ Tool!Begin(s))
          /\ WF_catalogVars(Runs("catalog") /\ Tool!Fire(s, 1))
          /\ WF_catalogVars(Runs("catalog")
                              /\ (Tool!Listed(s, 1, TRUE) \/ Tool!Listed(s, 1, FALSE)))
          /\ WF_catalogVars(Runs("catalog") /\ Tool!Publish(s, 1))
    /\ WF_catalogVars(Runs("catalog") /\ Tool!Ping)
    /\ WF_catalogVars(Runs("catalog") /\ Tool!Remove)
    /\ WF_catalogVars(Runs("catalog") /\ \E t \in SUBSET {t1} : Tool!Reconnect(t))
    /\ WF_catalogVars(Runs("catalog") /\ Tool!Replace)

FairConfig ==
    /\ WF_configVars(Runs("config") /\ Config!Start)
    /\ WF_configVars(Runs("config") /\ Config!Second)
    /\ WF_configVars(Runs("config") /\ Config!Poll)
    /\ WF_configVars(Runs("config") /\ Config!Reload)

FairAll ==
    /\ InitAll /\ [][NextAll]_allVars
    /\ FairLedger /\ FairCatalog /\ FairConfig

-----------------------------------------------------------------------------
(* Properties, explained in the modules that state them *)

\* checkAllServers, tryReconnect: a server that stays up is connected again.
ReconnectsWhenUp == Tool!ReconnectsWhenUp
\* poll, tryReload: a file that stays as it is becomes current, without SIGHUP.
StableFileLoaded == Config!StableFileLoaded
=============================================================================
