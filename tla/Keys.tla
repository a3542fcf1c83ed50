-------------------------------- MODULE Keys --------------------------------
(***************************************************************************)
(* Virtual keys from the admin API to the request: the tables projects and *)
(* virtual_keys, the handlers that change them, and the two places that    *)
(* accept a key: the auth middleware, with its key cache and its grace     *)
(* period, and the resolver of the A2A handler, with a cache of its own.   *)
(* The caches do not meet, so a behaviour has one of them.                 *)
(* A statement of SQL is one step; a handler that runs several can be      *)
(* interleaved with others.  Time passes in ticks.  The parts of the       *)
(* specification are named after the keys, so that a module can extend     *)
(* this one together with another component.                               *)
(***************************************************************************)
EXTENDS Integers, Sequences, FiniteSets

CONSTANTS
    Ids,            \* rows of virtual_keys
    Tokens,         \* raw keys that generateKey can return
    Projects,
    Admins,         \* handlers of the admin API that run statement by statement
    Clients,        \* requests that present a key
    TTL,            \* of a cache entry, in ticks
    Grace,          \* for which an expired entry serves while the database is down
    CacheSize,      \* of the key cache of the middleware
    None

ASSUME KeysAssumption == TTL \in Nat /\ Grace \in Nat

VARIABLES
    projects,   \* the names in the table
    rows,       \* rows[k]: a row of virtual_keys, or None
    issued,     \* tokens generated so far
    past,       \* keys whose expires_at has passed
    reachable,  \* the database answers
    admin,      \* admin[a]: a handler between two statements
    path,       \* who accepts keys: "auth", the middleware, or "a2a"
    cache,      \* its cache: token to entry
    recency,    \* tokens of the middleware's cache, least recently used first
    client,     \* client[c]: an authentication
    dead        \* history: ticks since a token was last live or held by a handler

keyVars == <<projects, rows, issued, past, reachable, admin, path, cache, recency, client, dead>>
tables == <<projects, rows, issued, past, reachable, admin, path>>
caches == <<path, cache, recency, client, dead>>

Row == [token : Tokens, project : Projects, revoked : BOOLEAN, expires : BOOLEAN]
MaxAge == TTL + Grace + 1
Entry == [id : Ids, expires : BOOLEAN, age : 0 .. MaxAge]

Idle == [op |-> "idle", id |-> None, token |-> None]
Waiting == [pc |-> "idle", token |-> None, row |-> None, how |-> "none"]

KeysInit ==
    /\ projects = {}
    /\ rows = [k \in Ids |-> None]
    /\ issued = {}
    /\ past = {}
    /\ reachable = TRUE
    /\ admin = [a \in Admins |-> Idle]
    /\ path \in {"auth", "a2a"}
    /\ cache = <<>>
    /\ recency = <<>>
    /\ client = [c \in Clients |-> Waiting]
    /\ dead = [t \in Tokens |-> 0]

-----------------------------------------------------------------------------
(* Projects *)

CreateProject(p) ==
    /\ p \notin projects
    /\ projects' = projects \cup {p}
    /\ UNCHANGED <<rows, issued, past, reachable, admin, caches>>

\* The keys of the project go with it (ON DELETE CASCADE).
DeleteProject(p) ==
    /\ p \in projects
    /\ projects' = projects \ {p}
    /\ rows' = [k \in Ids |-> IF rows[k] # None /\ rows[k].project = p THEN None ELSE rows[k]]
    /\ UNCHANGED <<issued, past, reachable, admin, caches>>

-----------------------------------------------------------------------------
(* Keys *)

\* (variant: the foreign key is not checked)
InsertAnywhere(k, t, p) ==
    /\ rows[k] = None /\ t \notin issued
    /\ rows' = [rows EXCEPT ![k] = [token |-> t, project |-> p, revoked |-> FALSE,
                                    expires |-> FALSE]]
    /\ issued' = issued \cup {t}
    /\ past' = past \ {k}

\* INSERT: a new id, and a project that exists.
Insert(k, t, p) ==
    /\ rows[k] = None /\ t \notin issued /\ p \in projects
    /\ rows' = [rows EXCEPT ![k] = [token |-> t, project |-> p, revoked |-> FALSE,
                                    expires |-> FALSE]]
    /\ issued' = issued \cup {t}
    /\ past' = past \ {k}

createKey(k, t, p) ==
    /\ Insert(k, t, p)
    /\ UNCHANGED <<projects, reachable, admin, caches>>

\* handleQuickstart: find the project or create it, then insert the key; a
\* project deleted in between fails the insert.
QuickstartProject(a, p) ==
    /\ admin[a] = Idle
    /\ projects' = projects \cup {p}
    /\ admin' = [admin EXCEPT ![a] = [op |-> "quickstart", id |-> None, token |-> p]]
    /\ UNCHANGED <<rows, issued, past, reachable, caches>>

QuickstartKey(a, k, t) ==
    /\ admin[a].op = "quickstart"
    /\ \/ Insert(k, t, admin[a].token)
       \/ admin[a].token \notin projects /\ UNCHANGED <<rows, issued, past>>
    /\ admin' = [admin EXCEPT ![a] = Idle]
    /\ UNCHANGED <<projects, reachable, caches>>

revokeKey(k) ==
    /\ rows[k] # None /\ ~rows[k].revoked
    /\ rows' = [rows EXCEPT ![k].revoked = TRUE]
    /\ UNCHANGED <<projects, issued, past, reachable, admin, caches>>

\* updateKey and patchKey: expires_at is updatable (here to none or to a time
\* ahead); key_hash and revoked_at are not.  A revoked row is updated all the
\* same.
UpdateKey(k, expires) ==
    /\ rows[k] # None
    /\ rows' = [rows EXCEPT ![k].expires = expires]
    /\ past' = past \ {k}
    /\ dead' = IF rows[k].revoked THEN dead ELSE [dead EXCEPT ![rows[k].token] = 0]
    /\ UNCHANGED <<projects, issued, reachable, admin, path, cache, recency, client>>

\* RotateVirtualKey: read the row, and then replace its hash if it is still not
\* revoked.
RotateRead(a, k, t) ==
    /\ admin[a] = Idle
    /\ t \notin issued
    /\ rows[k] # None /\ ~rows[k].revoked
    /\ admin' = [admin EXCEPT ![a] = [op |-> "rotate", id |-> k, token |-> t]]
    /\ issued' = issued \cup {t}
    /\ UNCHANGED <<projects, rows, past, reachable, caches>>

\* (variant: the row was read as not revoked, so write it back)
RotatedUnguarded(k, t) ==
    IF rows[k] # None THEN [rows EXCEPT ![k].token = t, ![k].revoked = FALSE] ELSE rows
Rotated(k, t) ==
    IF rows[k] # None /\ ~rows[k].revoked THEN [rows EXCEPT ![k].token = t] ELSE rows

RotateWrite(a) ==
    /\ admin[a].op = "rotate"
    /\ rows' = Rotated(admin[a].id, admin[a].token)
    /\ admin' = [admin EXCEPT ![a] = Idle]
    /\ UNCHANGED <<projects, issued, past, reachable, caches>>

-----------------------------------------------------------------------------
(* Accepting a key *)

Expired(k, expires) == expires /\ k \in past
Live(k) == rows[k] # None /\ ~rows[k].revoked /\ ~Expired(k, rows[k].expires)
\* LookupVirtualKeyByToken
Lookup(t) == {k \in Ids : Live(k) /\ rows[k].token = t}

Touch(s, t) == LET other(u) == u # t IN Append(SelectSeq(s, other), t)
Without(f, gone) == [t \in DOMAIN f \ gone |-> f[t]]
\* (variant: an entry serves as long as it is there)
HasAny(t, age) == t \in DOMAIN cache
Has(t, age) == t \in DOMAIN cache /\ cache[t].age <= age

Done(c, how) ==
    client' = [client EXCEPT ![c].pc = "served", ![c].row = None, ![c].how = how]

\* The first half of authenticate and of the resolver: the cache.  The
\* middleware looks at the expiry of what it cached, the resolver does not.
Present(c, t) ==
    LET e == cache[t]
        late == path = "auth" /\ Expired(e.id, e.expires)
        other(u) == u # t
        Now(pc, how) == [pc |-> pc, token |-> t, row |-> None, how |-> how]
    IN
    /\ client[c].pc = "idle"
    /\ IF ~Has(t, TTL)
       THEN /\ client' = [client EXCEPT ![c] = Now("lookup", "none")]
            /\ UNCHANGED <<cache, recency>>
       ELSE IF late
       THEN /\ client' = [client EXCEPT ![c] = Now("served", "refused")]
            /\ cache' = Without(cache, {t})
            /\ recency' = SelectSeq(recency, other)
       ELSE /\ client' = [client EXCEPT ![c] = Now("served", "hit")]
            /\ recency' = IF path = "auth" THEN Touch(recency, t) ELSE recency
            /\ UNCHANGED cache
    /\ UNCHANGED <<tables, dead>>

\* The query.  While the database is down the middleware falls back on what it
\* still has in its cache, for the grace period.
Query(c) ==
    LET t == client[c].token IN
    /\ client[c].pc = "lookup"
    /\ IF ~reachable
       THEN Done(c, IF path = "auth" /\ Has(t, TTL + Grace)
                       /\ ~Expired(cache[t].id, cache[t].expires)
                    THEN "grace" ELSE "refused")
       ELSE IF Lookup(t) = {} THEN Done(c, "refused")
       ELSE \E k \in Lookup(t) :
               client' = [client EXCEPT ![c].pc = "store",
                              ![c].row = [id |-> k, expires |-> rows[k].expires, age |-> 0]]
    /\ UNCHANGED <<tables, cache, recency, dead>>

\* The resolver drops what is out of date after adding.
ResolverDrops(t) == {u \in DOMAIN cache \ {t} : cache[u].age > TTL}
\* KeyCache.Set: at capacity, drop what is out of date, then the least recently
\* used.
Room(t) ==
    LET old == {u \in DOMAIN cache : cache[u].age > TTL}
        full == Cardinality(DOMAIN cache) >= CacheSize
    IN  CASE path = "a2a" -> ResolverDrops(t)
          [] path = "auth" /\ ~full -> {}
          [] path = "auth" /\ full /\ Cardinality(DOMAIN cache \ old) < CacheSize -> old
          [] OTHER -> old \cup {recency[1]}

\* The second half: expiry, then the budget (which can refuse), both on the
\* middleware's path only, then the cache.
Store(c) ==
    LET q == client[c]
        gone == Room(q.token)
        kept(u) == u \notin gone
    IN
    /\ q.pc = "store"
    /\ \/ path = "auth" /\ Done(c, "refused") /\ UNCHANGED <<cache, recency>>
       \/ /\ ~(path = "auth" /\ Expired(q.row.id, q.row.expires))
          /\ cache' = [u \in (DOMAIN cache \ gone) \cup {q.token} |->
                          IF u = q.token THEN q.row ELSE cache[u]]
          /\ recency' = IF path = "auth" THEN Touch(SelectSeq(recency, kept), q.token) ELSE recency
          /\ Done(c, "fresh")
    /\ UNCHANGED <<tables, dead>>

Finish(c) ==
    /\ client[c].pc = "served"
    /\ client' = [client EXCEPT ![c] = Waiting]
    /\ UNCHANGED <<tables, cache, recency, dead>>

-----------------------------------------------------------------------------
(* Time and faults *)

Older(n) == IF n < MaxAge THEN n + 1 ELSE n
Held(t) ==
    \/ t \notin issued
    \/ \E a \in Admins : admin[a].op = "rotate" /\ admin[a].token = t
    \/ \E c \in Clients : client[c].pc = "store" /\ client[c].token = t

KeysTick ==
    /\ cache' = [t \in DOMAIN cache |-> [cache[t] EXCEPT !.age = Older(@)]]
    /\ dead' = [t \in Tokens |-> IF Lookup(t) # {} \/ Held(t) THEN 0 ELSE Older(dead[t])]
    /\ UNCHANGED <<tables, recency, client>>

KeyExpires(k) ==
    /\ rows[k] # None /\ rows[k].expires /\ k \notin past
    /\ past' = past \cup {k}
    /\ UNCHANGED <<projects, rows, issued, reachable, admin, caches>>

Connection ==
    /\ reachable' = ~reachable
    /\ UNCHANGED <<projects, rows, issued, past, admin, caches>>

KeysNext ==
    \/ \E p \in Projects : CreateProject(p) \/ DeleteProject(p)
    \/ \E k \in Ids :
          \/ revokeKey(k)
          \/ \E e \in BOOLEAN : UpdateKey(k, e)
          \/ \E t \in Tokens, p \in Projects : createKey(k, t, p)
          \/ KeyExpires(k)
    \/ \E a \in Admins :
          \/ \E p \in Projects : QuickstartProject(a, p)
          \/ \E k \in Ids, t \in Tokens : QuickstartKey(a, k, t) \/ RotateRead(a, k, t)
          \/ RotateWrite(a)
    \/ \E c \in Clients :
          \/ \E t \in Tokens : Present(c, t)
          \/ Query(c)
          \/ Store(c)
          \/ Finish(c)
    \/ KeysTick
    \/ Connection

KeysSpec == KeysInit /\ [][KeysNext]_keyVars

-----------------------------------------------------------------------------
(* Properties *)

KeysTypeOK ==
    /\ reachable \in BOOLEAN
    /\ projects \subseteq Projects /\ issued \subseteq Tokens /\ past \subseteq Ids
    /\ \A k \in Ids : rows[k] = None \/ rows[k] \in Row
    /\ DOMAIN cache \subseteq Tokens /\ \A t \in DOMAIN cache : cache[t] \in Entry
    /\ path = "auth" => {recency[i] : i \in DOMAIN recency} = DOMAIN cache
    /\ dead \in [Tokens -> 0 .. MaxAge]

\* A revoked key stays revoked, and keeps the token it was revoked with: a
\* rotation or an update that began before the revocation does not undo it.
RevocationIsFinal ==
    [][\A k \in Ids : rows[k] # None /\ rows[k].revoked =>
            rows'[k] = None \/ (rows'[k].revoked /\ rows'[k].token = rows[k].token)]_keyVars

\* No two rows share a token, and each row's project exists, although
\* handleQuickstart and rotateKey run several statements without a transaction.
RowsConsistent ==
    \A k \in Ids : rows[k] # None =>
        /\ rows[k].project \in projects
        /\ rows[k].token \in issued
        /\ \A j \in Ids \ {k} : rows[j] # None => rows[j].token # rows[k].token

\* A key that was revoked, rotated away, deleted or expired is accepted from a
\* cache for at most the time to live after the last request that had read it
\* let go of it, plus the grace period while the database is down; and only a
\* query that still found it accepts it after that.
Accepts(c, how) == client'[c].how = how /\ client[c].how # how
StaleAcceptanceBounded ==
    [][\A c \in Clients :
         LET ago == dead[client'[c].token] IN
         /\ Accepts(c, "hit") => ago <= TTL
         /\ Accepts(c, "grace") => ago <= TTL + Grace
         /\ Accepts(c, "fresh") => ago = 0]_keyVars

=============================================================================
