---------------------------- MODULE StoreProofs -----------------------------
(***************************************************************************)
(* What the database keeps, for any number of keys, projects and requests. *)
(* Keys: revocation is final, rows stay consistent without transactions,   *)
(* and a cache accepts a key that is gone for no longer than its times to  *)
(* live allow.  Ledger: by how much a key can overrun its budget, that no  *)
(* shadow call outlives the replay manager, and that its ring, whatever    *)
(* its size, shows the last results in their order.                        *)
(***************************************************************************)
EXTENDS Keys, Ledger, FiniteSetTheorems, TLAPS

-----------------------------------------------------------------------------
(* Keys *)

Handlers ==
    {Idle} \cup [op : {"quickstart"}, id : {None}, token : Projects]
           \cup [op : {"rotate"}, id : Ids, token : Tokens]

TablesOK ==
    /\ rows \in [Ids -> Row \cup {None}]
    /\ projects \subseteq Projects
    /\ issued \subseteq Tokens
    /\ admin \in [Admins -> Handlers]

\* A token that a rotation has generated belongs to no row and to no other rotation
\* until it is written.
Reserved ==
    \A a \in Admins : admin[a].op = "rotate" =>
        /\ admin[a].token \in issued
        /\ \A k \in Ids : rows[k] # None => rows[k].token # admin[a].token
        /\ \A b \in Admins \ {a} : admin[b].op = "rotate" => admin[b].token # admin[a].token

IInv == TablesOK /\ RowsConsistent /\ Reserved

\* The actions that leave the tables and the handlers alone.
Elsewhere == UNCHANGED <<projects, rows, issued, admin>>

\* Authentication, time and faults change no table.
LEMMA OthersElsewhere ==
    ASSUME \/ \E c \in Clients :
                 (\E t \in Tokens : Present(c, t)) \/ Query(c) \/ Store(c) \/ Finish(c)
           \/ \E k \in Ids : KeyExpires(k)
           \/ KeysTick \/ Connection \/ UNCHANGED keyVars
    PROVE  Elsewhere
<1>1. ASSUME NEW c \in Clients,
             (\E t \in Tokens : Present(c, t)) \/ Query(c) \/ Store(c) \/ Finish(c)
      PROVE  Elsewhere
  BY Zenon, <1>1 DEF Elsewhere, Present, Query, Store, Finish, tables
<1>2. ASSUME NEW k \in Ids, KeyExpires(k) PROVE Elsewhere
  BY Zenon, <1>2 DEF Elsewhere, KeyExpires
<1>3. CASE KeysTick \/ Connection \/ UNCHANGED keyVars
  BY Zenon, <1>3 DEF Elsewhere, KeysTick, Connection, tables, keyVars
<1> QED
  BY <1>1, <1>2, <1>3

\* A new row has a token of its own and a project that exists.
LEMMA InsertKeeps ==
    ASSUME IInv, NEW k \in Ids, NEW t \in Tokens, NEW p \in Projects, Insert(k, t, p),
           projects' = projects,
           admin' = admin \/ \E a \in Admins : admin' = [admin EXCEPT ![a] = Idle]
    PROVE  IInv'
<1>0. /\ rows[k] = None /\ t \notin issued /\ p \in projects
      /\ issued' = issued \cup {t}
  BY Zenon DEF Insert
<1> DEFINE new == [token |-> t, project |-> p, revoked |-> FALSE, expires |-> FALSE]
<1>1. rows' = [rows EXCEPT ![k] = new] /\ new \in Row
  BY Zenon DEF Insert, Row
<1>2. admin' \in [Admins -> Handlers]
      /\ \A a \in Admins : admin'[a].op = "rotate" => admin'[a] = admin[a]
  BY DEF IInv, TablesOK, Handlers, Idle
<1>3. TablesOK'
  BY Zenon, <1>0, <1>1, <1>2 DEF IInv, TablesOK
<1>4. RowsConsistent'
  BY Zenon, <1>0, <1>1 DEF IInv, TablesOK, RowsConsistent
<1>5. Reserved'
  <2> SUFFICES ASSUME NEW a \in Admins, admin'[a].op = "rotate"
               PROVE  /\ admin'[a].token \in issued'
                      /\ \A j \in Ids : rows'[j] # None => rows'[j].token # admin'[a].token
                      /\ \A b \in Admins \ {a} :
                            admin'[b].op = "rotate" => admin'[b].token # admin'[a].token
    BY Zenon DEF Reserved
  <2>1. admin'[a] = admin[a] /\ admin[a].op = "rotate" /\ admin[a].token \in issued
    BY Zenon, <1>2 DEF IInv, Reserved
  <2>2. admin[a].token # t
    BY <1>0, <2>1
  <2> QED
    BY <1>0, <1>1, <1>2, <2>1, <2>2 DEF IInv, TablesOK, Reserved
<1> QED
  BY Zenon, <1>3, <1>4, <1>5 DEF IInv

\* Every step keeps the rows consistent and the tokens of rotations reserved.
LEMMA Inductive ==
    ASSUME IInv, [KeysNext]_keyVars
    PROVE  IInv'
<1>1. ASSUME NEW p \in Projects, CreateProject(p) PROVE IInv'
  BY Zenon, <1>1 DEF CreateProject, IInv, TablesOK, RowsConsistent, Reserved
<1>2. ASSUME NEW p \in Projects, DeleteProject(p) PROVE IInv'
  <2>1. rows' \in [Ids -> Row \cup {None}]
        /\ \A k \in Ids : rows'[k] # None => rows'[k] = rows[k] /\ rows[k].project # p
    BY Zenon, <1>2 DEF DeleteProject, IInv, TablesOK
  <2>2. projects' = projects \ {p} /\ issued' = issued /\ admin' = admin
    BY Zenon, <1>2 DEF DeleteProject
  <2> QED
    BY <2>1, <2>2 DEF IInv, TablesOK, RowsConsistent, Reserved
<1>3. ASSUME NEW k \in Ids, NEW t \in Tokens, NEW p \in Projects, createKey(k, t, p)
      PROVE  IInv'
  BY Zenon, <1>3, InsertKeeps DEF createKey
<1>4. ASSUME NEW k \in Ids, revokeKey(k) PROVE IInv'
  <2>1. rows[k] \in Row /\ rows' = [rows EXCEPT ![k] = [rows[k] EXCEPT !.revoked = TRUE]]
    BY Zenon, <1>4 DEF revokeKey, IInv, TablesOK
  <2>2. [rows[k] EXCEPT !.revoked = TRUE] \in Row
    BY Zenon, <2>1 DEF Row
  <2>3. projects' = projects /\ issued' = issued /\ admin' = admin
    BY Zenon, <1>4 DEF revokeKey
  <2>4. \A j \in Ids : rows'[j] # None => rows[j] # None
            /\ rows'[j].project = rows[j].project /\ rows'[j].token = rows[j].token
    BY <1>4, <2>1 DEF revokeKey, IInv, TablesOK, Row
  <2>5. rows' \in [Ids -> Row \cup {None}]
    BY Zenon, <2>1, <2>2 DEF IInv, TablesOK
  <2> QED
    BY <2>3, <2>4, <2>5 DEF IInv, TablesOK, RowsConsistent, Reserved
<1>5. ASSUME NEW k \in Ids, NEW e \in BOOLEAN, UpdateKey(k, e) PROVE IInv'
  <2>1. rows[k] \in Row /\ rows' = [rows EXCEPT ![k] = [rows[k] EXCEPT !.expires = e]]
    BY Zenon, <1>5 DEF UpdateKey, IInv, TablesOK
  <2>2. [rows[k] EXCEPT !.expires = e] \in Row
    BY Zenon, <2>1 DEF Row
  <2>3. projects' = projects /\ issued' = issued /\ admin' = admin
    BY Zenon, <1>5 DEF UpdateKey
  <2>4. \A j \in Ids : rows'[j] # None => rows[j] # None
            /\ rows'[j].project = rows[j].project /\ rows'[j].token = rows[j].token
    BY <1>5, <2>1 DEF UpdateKey, IInv, TablesOK, Row
  <2>5. rows' \in [Ids -> Row \cup {None}]
    BY Zenon, <2>1, <2>2 DEF IInv, TablesOK
  <2> QED
    BY <2>3, <2>4, <2>5 DEF IInv, TablesOK, RowsConsistent, Reserved
<1>6. ASSUME NEW a \in Admins, NEW p \in Projects, QuickstartProject(a, p) PROVE IInv'
  <2>1. [op |-> "quickstart", id |-> None, token |-> p] \in Handlers
    BY Zenon DEF Handlers
  <2> QED
    BY Zenon, <1>6, <2>1 DEF QuickstartProject, IInv, TablesOK, RowsConsistent, Reserved
<1>7. ASSUME NEW a \in Admins, NEW k \in Ids, NEW t \in Tokens, QuickstartKey(a, k, t)
      PROVE  IInv'
  <2>1. admin[a].token \in Projects
    BY <1>7 DEF QuickstartKey, IInv, TablesOK, Handlers, Idle
  <2>2. CASE Insert(k, t, admin[a].token)
    BY Zenon, <1>7, <2>1, <2>2, InsertKeeps DEF QuickstartKey
  <2>3. CASE UNCHANGED <<rows, issued>>
    <3>1. Idle \in Handlers
      BY Zenon DEF Handlers
    <3> QED
      BY Zenon, <1>7, <2>3, <3>1 DEF QuickstartKey, IInv, TablesOK, RowsConsistent, Reserved, Idle
  <2> QED
    BY Zenon, <1>7, <2>2, <2>3 DEF QuickstartKey
<1>8. ASSUME NEW a \in Admins, NEW k \in Ids, NEW t \in Tokens, RotateRead(a, k, t)
      PROVE  IInv'
  <2>1. [op |-> "rotate", id |-> k, token |-> t] \in Handlers
    BY Zenon DEF Handlers
  <2>2. t \notin issued /\ issued' = issued \cup {t} /\ rows' = rows /\ projects' = projects
        /\ admin' = [admin EXCEPT ![a] = [op |-> "rotate", id |-> k, token |-> t]]
    BY Zenon, <1>8 DEF RotateRead
  <2>3. TablesOK' /\ RowsConsistent'
    BY Zenon, <2>1, <2>2 DEF IInv, TablesOK, RowsConsistent
  <2>4. Reserved'
    BY Zenon, <2>2 DEF IInv, TablesOK, RowsConsistent, Reserved
  <2> QED
    BY Zenon, <2>3, <2>4 DEF IInv
<1>9. ASSUME NEW a \in Admins, RotateWrite(a) PROVE IInv'
  <2> DEFINE k == admin[a].id
             t == admin[a].token
  <2>1. admin[a].op = "rotate" /\ k \in Ids /\ t \in Tokens /\ t \in issued
    BY <1>9 DEF RotateWrite, IInv, TablesOK, Reserved, Handlers, Idle
  <2>2. /\ projects' = projects /\ issued' = issued
        /\ admin' = [admin EXCEPT ![a] = Idle] /\ Idle \in Handlers
    BY Zenon, <1>9 DEF RotateWrite, Handlers
  <2>3. CASE rows[k] # None /\ ~rows[k].revoked
    <3>1. rows' = [rows EXCEPT ![k] = [rows[k] EXCEPT !.token = t]] /\ rows[k] \in Row
      BY Zenon, <1>9, <2>1, <2>3 DEF RotateWrite, Rotated, IInv, TablesOK
    <3>2. [rows[k] EXCEPT !.token = t] \in Row
      BY Zenon, <2>1, <3>1 DEF Row
    <3>3. rows'[k].token = t /\ rows'[k].project = rows[k].project
          /\ \A j \in Ids \ {k} : rows'[j] = rows[j]
      BY Zenon, <2>1, <3>1 DEF IInv, TablesOK, Row
    <3>4. TablesOK'
      BY Zenon, <2>1, <2>2, <3>1, <3>2 DEF IInv, TablesOK
    <3>5. RowsConsistent'
      BY <2>1, <2>2, <2>3, <3>3 DEF IInv, RowsConsistent, Reserved
    <3>6. Reserved'
      BY <2>1, <2>2, <2>3, <3>3 DEF IInv, TablesOK, Reserved, Idle
    <3> QED
      BY Zenon, <3>4, <3>5, <3>6 DEF IInv
  <2>4. CASE ~(rows[k] # None /\ ~rows[k].revoked)
    <3>1. rows' = rows
      BY Zenon, <1>9, <2>4 DEF RotateWrite, Rotated
    <3> QED
      BY Zenon, <2>2, <3>1 DEF IInv, TablesOK, RowsConsistent, Reserved, Idle
  <2> QED
    BY <2>3, <2>4
<1>10. CASE Elsewhere
  BY Zenon, <1>10 DEF Elsewhere, IInv, TablesOK, RowsConsistent, Reserved
<1> QED
  BY Zenon, <1>1, <1>2, <1>3, <1>4, <1>5, <1>6, <1>7, <1>8, <1>9, <1>10, OthersElsewhere DEF KeysNext

\* Initially there are no rows and no handlers.
LEMMA Initially == KeysInit => IInv
BY DEF KeysInit, IInv, TablesOK, RowsConsistent, Reserved, Handlers, Idle

\* createKey, handleQuickstart, rotateKey and deleteProject, interleaved statement by
\* statement: no two rows share a token, and every row's project exists.
THEOREM Consistent == KeysSpec => []RowsConsistent
<1>1. IInv /\ [KeysNext]_keyVars => IInv'
  BY Inductive
<1>2. IInv => RowsConsistent
  BY Zenon DEF IInv
<1> QED
  BY Initially, <1>1, <1>2, PTL DEF KeysSpec

\* RevokeVirtualKey, RotateVirtualKey and UpdateVirtualKey: a key that is revoked stays
\* revoked and keeps its token, whatever other handlers had read before.
THEOREM Revocation == KeysSpec => RevocationIsFinal
<1> DEFINE Final == \A k \in Ids : rows[k] # None /\ rows[k].revoked =>
               rows'[k] = None \/ (rows'[k].revoked /\ rows'[k].token = rows[k].token)
<1>1. IInv /\ [KeysNext]_keyVars => IInv'
  BY Inductive
<1>2. IInv /\ [KeysNext]_keyVars => [Final]_keyVars
  <2> SUFFICES ASSUME IInv, KeysNext PROVE Final
    OBVIOUS
  <2>1. ASSUME NEW p \in Projects, CreateProject(p) PROVE Final
    BY Zenon, <2>1 DEF CreateProject
  <2>2. ASSUME NEW p \in Projects, DeleteProject(p) PROVE Final
    BY Zenon, <2>2 DEF DeleteProject
  <2>3. ASSUME NEW k \in Ids, NEW t \in Tokens, NEW p, Insert(k, t, p) PROVE Final
    BY Zenon, <2>3 DEF Insert, IInv, TablesOK
  <2>4. ASSUME NEW k \in Ids, revokeKey(k) PROVE Final
    BY Zenon, <2>4 DEF revokeKey, IInv, TablesOK
  <2>5. ASSUME NEW k \in Ids, NEW e \in BOOLEAN, UpdateKey(k, e) PROVE Final
    <3>1. rows[k] \in Row /\ rows' = [rows EXCEPT ![k] = [rows[k] EXCEPT !.expires = e]]
      BY Zenon, <2>5 DEF UpdateKey, IInv, TablesOK
    <3> QED
      BY Zenon, <3>1 DEF IInv, TablesOK, Row
  <2>6. ASSUME NEW a \in Admins, RotateWrite(a) PROVE Final
    BY Zenon, <2>6 DEF RotateWrite, Rotated, IInv, TablesOK
  <2>7. ASSUME rows' = rows PROVE Final
    BY <2>7
  <2>8. ASSUME NEW a \in Admins, NEW p \in Projects, QuickstartProject(a, p) PROVE Final
    BY Zenon, <2>8, <2>7 DEF QuickstartProject
  <2>9. ASSUME NEW a \in Admins, NEW k \in Ids, NEW t \in Tokens,
               QuickstartKey(a, k, t) \/ RotateRead(a, k, t)
        PROVE  Final
    BY Zenon, <2>9, <2>3, <2>7 DEF QuickstartKey, RotateRead
  <2>10. ASSUME NEW k \in Ids, NEW t \in Tokens, NEW p \in Projects, createKey(k, t, p)
         PROVE  Final
    BY Zenon, <2>10, <2>3 DEF createKey
  <2>11. CASE Elsewhere
    BY Zenon, <2>7, <2>11 DEF Elsewhere
  <2> QED
    BY Zenon, <2>1, <2>2, <2>4, <2>5, <2>6, <2>8, <2>9, <2>10, <2>11, OthersElsewhere DEF KeysNext
<1> QED
  BY Initially, <1>1, <1>2, PTL DEF KeysSpec, RevocationIsFinal
-----------------------------------------------------------------------------
(* How long a key that is gone is accepted *)

Entries == [id : Ids, expires : BOOLEAN, age : Nat]
Authentications ==
    [pc : {"idle", "lookup", "store", "served"}, token : Tokens \cup {None},
     row : Entries \cup {None}, how : {"none", "hit", "grace", "fresh", "refused"}]

CachesOK ==
    /\ DOMAIN cache \subseteq Tokens /\ \A t \in DOMAIN cache : cache[t] \in Entries
    /\ dead \in [Tokens -> Nat]
    /\ client \in [Clients -> Authentications]
    /\ \A c \in Clients : client[c].pc \in {"lookup", "store"} => client[c].token \in Tokens
    /\ \A c \in Clients : client[c].pc = "store" => client[c].row \in Entries

\* A query finds the token, or somebody is about to make that so or has seen it so.
Alive(t) == Lookup(t) # {} \/ Held(t)

\* A token has been gone for no longer than its entry is old.
StaleInv ==
    /\ CachesOK
    /\ \A t \in Tokens : Alive(t) => dead[t] = 0
    /\ \A t \in DOMAIN cache : dead[t] <= cache[t].age

\* A change of the tables that brings no token back keeps that.
LEMMA NoneRevived ==
    ASSUME StaleInv, UNCHANGED caches, \A t \in Tokens : Alive(t)' => Alive(t)
    PROVE  StaleInv'
BY Zenon DEF StaleInv, CachesOK, caches

\* createKey and handleQuickstart insert a token that was never issued.
LEMMA InsertRevivesNone ==
    ASSUME IInv, NEW k \in Ids, NEW t \in Tokens, NEW p, Insert(k, t, p), client' = client,
           \A a \in Admins : admin'[a].op = "rotate" => admin'[a] = admin[a],
           NEW u \in Tokens, Alive(u)'
    PROVE  Alive(u)
<1>1. CASE u \notin issued
  BY Zenon, <1>1 DEF Alive, Held
<1>2. CASE u \in issued
  <2>1. u # t /\ issued' = issued \cup {t} /\ past' = past \ {k} /\ rows[k] = None
        /\ rows' = [rows EXCEPT ![k] = [token |-> t, project |-> p, revoked |-> FALSE,
                                        expires |-> FALSE]]
    BY Zenon, <1>2 DEF Insert
  <2>2. ASSUME NEW j \in Lookup(u)' PROVE j \in Lookup(u)
    <3>1. j \in Ids /\ j # k /\ rows'[j] = rows[j]
      BY Zenon, <2>1, <2>2 DEF Lookup, IInv, TablesOK
    <3> QED
      BY Zenon, <2>1, <2>2, <3>1 DEF Lookup, Live, Expired
  <2>3. Held(u)' => Held(u)
    BY Zenon, <1>2, <2>1 DEF Held
  <2> QED
    BY Zenon, <2>2, <2>3 DEF Alive
<1> QED
  BY <1>1, <1>2

\* The handlers of the admin API bring no token back, except that an update can move the
\* expiry of one, and then it is not gone.
LEMMA TablesReviveNone ==
    ASSUME IInv, StaleInv,
           \/ \E p \in Projects : CreateProject(p) \/ DeleteProject(p)
           \/ \E k \in Ids : revokeKey(k) \/ KeyExpires(k)
                             \/ \E t \in Tokens, p \in Projects : createKey(k, t, p)
           \/ \E a \in Admins :
                 \/ \E p \in Projects : QuickstartProject(a, p)
                 \/ \E k \in Ids, t \in Tokens : QuickstartKey(a, k, t) \/ RotateRead(a, k, t)
                 \/ RotateWrite(a)
           \/ Connection
    PROVE  StaleInv'
<1> DEFINE Goal == UNCHANGED caches /\ \A t \in Tokens : Alive(t)' => Alive(t)
<1>1. ASSUME NEW p \in Projects, CreateProject(p) PROVE Goal
  BY Zenon, <1>1 DEF CreateProject, caches, Alive, Lookup, Live, Expired, Held
<1>2. ASSUME NEW p \in Projects, DeleteProject(p) PROVE Goal
  <2>1. \A k \in Ids : rows'[k] # None => rows'[k] = rows[k]
    BY Zenon, <1>2 DEF DeleteProject
  <2> QED
    BY Zenon, <1>2, <2>1 DEF DeleteProject, caches, Alive, Lookup, Live, Expired, Held
<1>3. ASSUME NEW k \in Ids, revokeKey(k) PROVE Goal
  <2>1. \A j \in Ids : rows'[j] # None /\ ~rows'[j].revoked => rows'[j] = rows[j]
    BY Zenon, <1>3 DEF revokeKey, IInv, TablesOK, Row
  <2> QED
    BY Zenon, <1>3, <2>1 DEF revokeKey, caches, Alive, Lookup, Live, Expired, Held
<1>4. ASSUME NEW k \in Ids, KeyExpires(k) PROVE Goal
  BY Zenon, <1>4 DEF KeyExpires, caches, Alive, Lookup, Live, Expired, Held
<1>5. ASSUME NEW k \in Ids, NEW t \in Tokens, NEW p \in Projects, createKey(k, t, p) PROVE Goal
  <2>1. UNCHANGED caches /\ client' = client /\ admin' = admin /\ Insert(k, t, p)
    BY Zenon, <1>5 DEF createKey, caches
  <2> QED
    BY <2>1, InsertRevivesNone
<1>6. ASSUME NEW a \in Admins, NEW p \in Projects, QuickstartProject(a, p) PROVE Goal
  BY Zenon, <1>6 DEF QuickstartProject, caches, Alive, Lookup, Live, Expired, Held, IInv, TablesOK
<1>7. ASSUME NEW a \in Admins, NEW k \in Ids, NEW t \in Tokens, QuickstartKey(a, k, t) PROVE Goal
  <2>1. /\ UNCHANGED caches /\ client' = client
        /\ \A b \in Admins : admin'[b].op = "rotate" => admin'[b] = admin[b]
    BY Zenon, <1>7 DEF QuickstartKey, caches, IInv, TablesOK, Idle
  <2>2. CASE Insert(k, t, admin[a].token)
    BY Zenon, <2>1, <2>2, InsertRevivesNone
  <2>3. CASE UNCHANGED <<rows, issued, past>>
    BY Zenon, <2>1, <2>3 DEF Alive, Lookup, Live, Expired, Held
  <2> QED
    BY Zenon, <1>7, <2>2, <2>3 DEF QuickstartKey
<1>8. ASSUME NEW a \in Admins, NEW k \in Ids, NEW t \in Tokens, RotateRead(a, k, t) PROVE Goal
  <2>1. /\ UNCHANGED caches /\ client' = client /\ rows' = rows /\ past' = past
        /\ t \notin issued /\ issued' = issued \cup {t}
        /\ \A b \in Admins : admin'[b] = admin[b] \/ admin'[b].token = t
    BY Zenon, <1>8 DEF RotateRead, caches, IInv, TablesOK
  <2> QED
    BY Zenon, <2>1 DEF Alive, Lookup, Live, Expired, Held
<1>9. ASSUME NEW a \in Admins, RotateWrite(a) PROVE Goal
  <2>1. /\ UNCHANGED caches /\ client' = client /\ past' = past /\ issued' = issued
        /\ admin[a].op = "rotate" /\ admin[a].id \in Ids
        /\ \A b \in Admins : admin'[b].op = "rotate" => admin'[b] = admin[b]
        /\ rows' = Rotated(admin[a].id, admin[a].token)
    BY <1>9 DEF RotateWrite, caches, IInv, TablesOK, Idle, Handlers
  <2>2. ASSUME NEW u \in Tokens, NEW j \in Lookup(u)' PROVE j \in Lookup(u) \/ Held(u)
    <3>1. j \in Ids /\ rows'[j].token = u
      BY Zenon, <2>2 DEF Lookup
    <3>2. CASE rows'[j] = rows[j]
      BY Zenon, <2>1, <2>2, <3>2 DEF Lookup, Live, Expired
    <3>3. CASE rows'[j] # rows[j]
      <4>1. u = admin[a].token
        BY Zenon, <2>1, <3>1, <3>3 DEF Rotated, IInv, TablesOK, Row
      <4> QED
        BY Zenon, <2>1, <4>1 DEF Held
    <3> QED
      BY <3>2, <3>3
  <2>3. \A u \in Tokens : Held(u)' => Held(u)
    BY Zenon, <2>1 DEF Held
  <2> QED
    BY Zenon, <2>1, <2>2, <2>3 DEF Alive
<1>10. ASSUME Connection PROVE Goal
  <2>1. UNCHANGED <<rows, issued, past, admin>> /\ UNCHANGED caches
    BY <1>10, Zenon DEF Connection
  <2> QED
    BY Zenon, <2>1 DEF caches, Alive, Lookup, Live, Expired, Held
<1> HIDE DEF Goal
<1>11. Goal
  BY Zenon, <1>1, <1>2, <1>3, <1>4, <1>5, <1>6, <1>7, <1>8, <1>9, <1>10
<1> QED
  BY Zenon, <1>11, NoneRevived DEF Goal

LEMMA UpdateKeepsStale ==
    ASSUME IInv, StaleInv, NEW k \in Ids, NEW e \in BOOLEAN, UpdateKey(k, e)
    PROVE  StaleInv'
<1>1. /\ rows[k] \in Row /\ rows' = [rows EXCEPT ![k] = [rows[k] EXCEPT !.expires = e]]
      /\ UNCHANGED <<issued, admin, client, cache>> /\ past' = past \ {k}
      /\ dead' = IF rows[k].revoked THEN dead ELSE [dead EXCEPT ![rows[k].token] = 0]
  BY Zenon DEF UpdateKey, IInv, TablesOK
<1>2. /\ rows'[k].token = rows[k].token /\ rows'[k].revoked = rows[k].revoked
      /\ \A j \in Ids \ {k} : rows'[j] = rows[j]
  BY Zenon, <1>1 DEF IInv, TablesOK, Row
<1>3. CachesOK' /\ \A t \in Tokens : dead'[t] = dead[t] \/ dead'[t] = 0
  BY Zenon, <1>1 DEF StaleInv, CachesOK, Row
<1>4. ASSUME NEW t \in Tokens, Alive(t)' PROVE Alive(t) \/ dead'[t] = 0
  <2>1. CASE ~rows[k].revoked /\ rows[k].token = t
    BY Zenon, <1>1, <2>1 DEF StaleInv, CachesOK
  <2>2. CASE ~(~rows[k].revoked /\ rows[k].token = t)
    <3>1. \A j \in Lookup(t)' : j # k /\ j \in Lookup(t)
      BY Zenon, <1>1, <1>2, <2>2 DEF Lookup, Live, Expired
    <3>2. Held(t)' => Held(t)
      BY Zenon, <1>1 DEF Held
    <3> QED
      BY Zenon, <1>4, <3>1, <3>2 DEF Alive
  <2> QED
    BY <2>1, <2>2
<1>5. \A t \in Tokens : Alive(t)' => dead'[t] = 0
  BY Zenon, <1>3, <1>4 DEF StaleInv
<1>6. \A t \in DOMAIN cache' : dead'[t] <= cache'[t].age
  BY <1>1, <1>3 DEF StaleInv, CachesOK, Entries
<1> QED
  BY Zenon, <1>3, <1>5, <1>6 DEF StaleInv

\* An entry ages as fast as a token that is gone.
LEMMA TickKeepsStale ==
    ASSUME StaleInv, KeysTick
    PROVE  StaleInv'
<1>1. /\ UNCHANGED <<rows, issued, past, admin, client>>
      /\ cache' = [t \in DOMAIN cache |-> [cache[t] EXCEPT !.age = Older(@)]]
      /\ dead' = [t \in Tokens |-> IF Alive(t) THEN 0 ELSE Older(dead[t])]
  BY Zenon DEF KeysTick, tables, Alive
<1>2. /\ \A n \in Nat : Older(n) \in Nat
      /\ \A m, n \in Nat : m <= n => Older(m) <= Older(n)
  BY DEF Older, MaxAge
<1>3. \A t \in Tokens : Alive(t)' <=> Alive(t)
  BY Zenon, <1>1 DEF Alive, Lookup, Live, Expired, Held
<1>4. ASSUME NEW t \in DOMAIN cache
      PROVE  cache'[t] \in Entries /\ cache'[t].age = Older(cache[t].age)
  BY Zenon, <1>1, <1>2 DEF StaleInv, CachesOK, Entries
<1>5. DOMAIN cache' = DOMAIN cache /\ dead' \in [Tokens -> Nat]
  BY Zenon, <1>1, <1>2 DEF StaleInv, CachesOK
<1>6. CachesOK'
  BY Zenon, <1>1, <1>4, <1>5 DEF StaleInv, CachesOK
<1>7. ASSUME NEW t \in DOMAIN cache PROVE dead'[t] <= cache'[t].age
  <2>1. t \in Tokens /\ dead[t] \in Nat /\ cache[t].age \in Nat /\ dead[t] <= cache[t].age
    BY Zenon DEF StaleInv, CachesOK, Entries
  <2>2. Older(dead[t]) <= Older(cache[t].age) /\ 0 <= Older(cache[t].age)
    BY <1>2, <2>1
  <2> QED
    BY <1>1, <1>4, <2>1, <2>2
<1>8. \A t \in Tokens : Alive(t)' => dead'[t] = 0
  BY <1>1, <1>3
<1> QED
  BY Zenon, <1>5, <1>6, <1>7, <1>8 DEF StaleInv

\* What a step of a request has to establish.
Bounded(c) ==
    LET ago == dead[client'[c].token] IN
    /\ Accepts(c, "hit") => ago <= TTL
    /\ Accepts(c, "grace") => ago <= TTL + Grace
    /\ Accepts(c, "fresh") => ago = 0

\* A request that does not end up holding a token for the cache brings none back.
LEMMA RequestRevivesNone ==
    ASSUME StaleInv, NEW c \in Clients, UNCHANGED <<rows, issued, past, admin, dead>>,
           NEW q \in Authentications, client' = [client EXCEPT ![c] = q],
           q.pc = "lookup" => q.token \in Tokens,
           q.pc = "store" => q.token \in Tokens /\ q.row \in Entries /\ Alive(q.token),
           DOMAIN cache' \subseteq Tokens,
           \A t \in DOMAIN cache' : cache'[t] \in Entries /\ dead[t] <= cache'[t].age
    PROVE  /\ StaleInv'
           /\ client'[c] = q /\ \A d \in Clients \ {c} : client'[d] = client[d]
<1>1. client'[c] = q /\ \A d \in Clients \ {c} : client'[d] = client[d]
  BY Zenon DEF StaleInv, CachesOK
<1>2. CachesOK'
  BY Zenon, <1>1 DEF StaleInv, CachesOK
<1>3. \A t \in Tokens : Lookup(t)' = Lookup(t)
  BY Zenon DEF Lookup, Live, Expired
<1>4. ASSUME NEW t \in Tokens, Held(t)' PROVE Alive(t)
  <2>1. CASE \E d \in Clients \ {c} : client[d].pc = "store" /\ client[d].token = t
    BY Zenon, <2>1 DEF Alive, Held
  <2>2. CASE q.pc = "store" /\ q.token = t
    BY <2>2
  <2>3. CASE t \notin issued \/ \E a \in Admins : admin[a].op = "rotate" /\ admin[a].token = t
    BY Zenon, <2>3 DEF Alive, Held
  <2> QED
    BY Zenon, <1>1, <1>4, <2>1, <2>2, <2>3 DEF Held
<1>5. \A t \in Tokens : Alive(t)' => dead'[t] = 0
  BY Zenon, <1>3, <1>4 DEF Alive, StaleInv
<1> QED
  BY Zenon, <1>1, <1>2, <1>5 DEF StaleInv

\* What a client is told decides which bound applies to it.
LEMMA Told ==
    ASSUME NEW c, NEW t, NEW how, client'[c].how = how, client'[c].token = t,
           how = "hit" => dead[t] <= TTL,
           how = "grace" => dead[t] <= TTL + Grace,
           how = "fresh" => dead[t] = 0
    PROVE  Bounded(c)
BY Zenon DEF Bounded, Accepts

\* Each step of an authentication keeps the invariant and accepts within the bounds.
LEMMA RequestKeepsStale ==
    ASSUME IInv, StaleInv, NEW c \in Clients,
           (\E t \in Tokens : Present(c, t)) \/ Query(c) \/ Store(c) \/ Finish(c)
    PROVE  StaleInv' /\ \A d \in Clients : Bounded(d)
<1>0. /\ client \in [Clients -> Authentications] /\ client[c] \in Authentications
      /\ UNCHANGED <<rows, issued, past, admin, dead>>
  BY Zenon DEF StaleInv, CachesOK, Present, Query, Store, Finish, tables
<1>1. ASSUME \A d \in Clients \ {c} : client'[d] = client[d], Bounded(c)
      PROVE  \A d \in Clients : Bounded(d)
  BY Zenon, <1>1 DEF Bounded, Accepts
<1>2. /\ DOMAIN cache \subseteq Tokens
      /\ \A t \in DOMAIN cache : cache[t] \in Entries /\ dead[t] <= cache[t].age
  BY Zenon DEF StaleInv, CachesOK
<1>3. ASSUME NEW t \in Tokens, Present(c, t) PROVE StaleInv' /\ Bounded(c)
                 /\ \A d \in Clients \ {c} : client'[d] = client[d]
  <2> DEFINE Now(pc, how) == [pc |-> pc, token |-> t, row |-> None, how |-> how]
  <2>1. CASE ~Has(t, TTL)
    <3>1. client' = [client EXCEPT ![c] = Now("lookup", "none")] /\ cache' = cache
      BY Zenon, <1>3, <2>1 DEF Present
    <3>2. Now("lookup", "none") \in Authentications
      BY Zenon DEF Authentications
    <3>3. StaleInv' /\ client'[c] = Now("lookup", "none")
          /\ \A d \in Clients \ {c} : client'[d] = client[d]
      BY ZenonT(60), <1>0, <1>2, <3>1, <3>2, RequestRevivesNone
    <3>4. client'[c].how = "none"
      BY <3>3
    <3>5. Bounded(c)
      BY Zenon, <3>4 DEF Bounded, Accepts
    <3> QED
      BY Zenon, <3>3, <3>5
  <2>2. CASE Has(t, TTL) /\ path = "auth" /\ Expired(cache[t].id, cache[t].expires)
    <3>1. /\ client' = [client EXCEPT ![c] = Now("served", "refused")]
          /\ cache' = [u \in DOMAIN cache \ {t} |-> cache[u]]
      BY Zenon, <1>3, <2>2 DEF Present, Without
    <3>2. Now("served", "refused") \in Authentications
      BY Zenon DEF Authentications
    <3>3. StaleInv' /\ client'[c] = Now("served", "refused")
          /\ \A d \in Clients \ {c} : client'[d] = client[d]
      BY ZenonT(40), <1>0, <1>2, <3>1, <3>2, RequestRevivesNone
    <3>4. client'[c].how = "refused"
      BY <3>3
    <3>5. Bounded(c)
      BY Zenon, <3>4 DEF Bounded, Accepts
    <3> QED
      BY Zenon, <3>3, <3>5
  <2>3. CASE Has(t, TTL) /\ ~(path = "auth" /\ Expired(cache[t].id, cache[t].expires))
    <3>1. client' = [client EXCEPT ![c] = Now("served", "hit")] /\ cache' = cache
      BY Zenon, <1>3, <2>3 DEF Present
    <3>2. Now("served", "hit") \in Authentications
      BY Zenon DEF Authentications
    <3>3. StaleInv' /\ client'[c] = Now("served", "hit")
          /\ \A d \in Clients \ {c} : client'[d] = client[d]
      BY Zenon, <1>0, <1>2, <3>1, <3>2, RequestRevivesNone
    <3>4. dead[t] <= TTL
      <4>1. t \in DOMAIN cache /\ cache[t].age <= TTL
        BY Zenon, <2>3 DEF Has
      <4>2. dead[t] \in Nat /\ cache[t].age \in Nat /\ dead[t] <= cache[t].age
        BY Zenon, <1>2, <4>1 DEF StaleInv, CachesOK, Entries
      <4> QED
        BY <4>1, <4>2, KeysAssumption
    <3>5. client'[c].how = "hit" /\ client'[c].token = t
      BY <3>3
    <3>6. Bounded(c)
      BY Zenon, <3>4, <3>5, Told
    <3> QED
      BY <3>3, <3>6
  <2> QED
    BY Zenon, <2>1, <2>2, <2>3
<1>4. ASSUME NEW how \in {"hit", "grace", "fresh", "refused"}, Done(c, how), client[c].pc # "idle",
             DOMAIN cache' \subseteq Tokens,
             \A t \in DOMAIN cache' : cache'[t] \in Entries /\ dead[t] <= cache'[t].age
      PROVE  /\ StaleInv' /\ client'[c].how = how /\ client'[c].token = client[c].token
             /\ \A d \in Clients \ {c} : client'[d] = client[d]
  <2> DEFINE q == [client[c] EXCEPT !.pc = "served", !.row = None, !.how = how]
  <2>1. q \in Authentications /\ q.pc = "served" /\ q.how = how /\ q.token = client[c].token
    BY Zenon, <1>0 DEF Authentications
  <2>2. client' = [client EXCEPT ![c] = q]
    BY Zenon, <1>4 DEF Done
  <2> HIDE DEF q
  <2>3. StaleInv' /\ client'[c] = q /\ \A d \in Clients \ {c} : client'[d] = client[d]
    BY Zenon, <1>0, <1>4, <2>1, <2>2, RequestRevivesNone
  <2> QED
    BY <2>1, <2>3
<1>5. ASSUME Query(c) PROVE StaleInv' /\ Bounded(c)
                 /\ \A d \in Clients \ {c} : client'[d] = client[d]
  <2> DEFINE t == client[c].token
  <2>1. client[c].pc = "lookup" /\ t \in Tokens /\ cache' = cache
    BY Zenon, <1>5 DEF Query, StaleInv, CachesOK
  <2>2. CASE Done(c, "refused")
    BY Zenon, <1>2, <1>4, <2>1, <2>2 DEF Bounded, Accepts
  <2>3. CASE Done(c, "grace") /\ Has(t, TTL + Grace)
    <3>1. dead[t] <= TTL + Grace
      <4>1. t \in DOMAIN cache /\ cache[t].age <= TTL + Grace
        BY Zenon, <2>3 DEF Has
      <4>2. dead[t] \in Nat /\ cache[t].age \in Nat /\ dead[t] <= cache[t].age
        BY Zenon, <1>2, <4>1 DEF StaleInv, CachesOK, Entries
      <4> QED
        BY <4>1, <4>2, KeysAssumption
    <3> QED
      BY Zenon, <1>2, <1>4, <2>1, <2>3, <3>1 DEF Bounded, Accepts
  <2>4. ASSUME NEW k \in Lookup(t),
               client' = [client EXCEPT ![c].pc = "store",
                              ![c].row = [id |-> k, expires |-> rows[k].expires, age |-> 0]]
        PROVE  StaleInv' /\ Bounded(c) /\ \A d \in Clients \ {c} : client'[d] = client[d]
    <3> DEFINE e == [id |-> k, expires |-> rows[k].expires, age |-> 0]
               q == [client[c] EXCEPT !.pc = "store", !.row = e]
    <3>1. e \in Entries
      BY Zenon DEF Lookup, Live, IInv, TablesOK, Row, Entries
    <3> HIDE DEF e
    <3>2. q \in Authentications /\ q.pc = "store" /\ q.row = e /\ q.token = t /\ q.how = client[c].how
      BY Zenon, <1>0, <3>1 DEF Authentications
    <3>3. client' = [client EXCEPT ![c] = q] /\ Alive(t)
      BY ZenonT(40), <2>4 DEF Alive, e
    <3> HIDE DEF q
    <3>4. StaleInv' /\ client'[c] = q /\ \A d \in Clients \ {c} : client'[d] = client[d]
      BY Zenon, <1>0, <1>2, <2>1, <3>1, <3>2, <3>3, RequestRevivesNone
    <3> QED
      BY Zenon, <3>2, <3>4 DEF Bounded, Accepts
  <2> QED
    BY Zenon, <1>5, <2>2, <2>3, <2>4 DEF Query
<1>6. ASSUME Store(c) PROVE StaleInv' /\ Bounded(c)
                 /\ \A d \in Clients \ {c} : client'[d] = client[d]
  <2> DEFINE t == client[c].token
             gone == Room(t)
  <2>1. client[c].pc = "store" /\ t \in Tokens /\ client[c].row \in Entries
    BY Zenon, <1>6 DEF Store, StaleInv, CachesOK
  <2>2. dead[t] = 0
    BY Zenon, <1>0, <2>1 DEF StaleInv, Alive, Held
  <2>3. CASE Done(c, "refused") /\ cache' = cache
    BY Zenon, <1>2, <1>4, <2>1, <2>3 DEF Bounded, Accepts
  <2>4. CASE /\ cache' = [u \in (DOMAIN cache \ gone) \cup {t} |->
                             IF u = t THEN client[c].row ELSE cache[u]]
             /\ Done(c, "fresh")
    <3>1. /\ DOMAIN cache' \subseteq Tokens
          /\ \A u \in DOMAIN cache' : cache'[u] \in Entries /\ dead[u] <= cache'[u].age
      BY <1>2, <2>1, <2>2, <2>4 DEF Entries
    <3> QED
      BY Zenon, <1>4, <2>1, <2>2, <2>4, <3>1 DEF Bounded, Accepts
  <2> QED
    BY Zenon, <1>6, <2>3, <2>4 DEF Store
<1>7. ASSUME Finish(c) PROVE StaleInv' /\ Bounded(c)
                 /\ \A d \in Clients \ {c} : client'[d] = client[d]
  <2>1. client' = [client EXCEPT ![c] = Waiting] /\ cache' = cache
    BY Zenon, <1>7 DEF Finish
  <2>2. Waiting \in Authentications /\ Waiting.pc = "idle" /\ Waiting.how = "none"
    BY Zenon DEF Waiting, Authentications
  <2>3. StaleInv' /\ client'[c] = Waiting /\ \A d \in Clients \ {c} : client'[d] = client[d]
    BY Zenon, <1>0, <1>2, <2>1, <2>2, RequestRevivesNone
  <2> QED
    BY Zenon, <2>2, <2>3 DEF Bounded, Accepts
<1> QED
  BY <1>1, <1>3, <1>5, <1>6, <1>7

LEMMA StaleInductive ==
    ASSUME IInv, StaleInv, [KeysNext]_keyVars
    PROVE  StaleInv' /\ [\A c \in Clients : Bounded(c)]_keyVars
<1>0. ASSUME client' = client PROVE \A c \in Clients : Bounded(c)
  BY Zenon, <1>0 DEF Bounded, Accepts
<1>1. CASE UNCHANGED keyVars
  BY Zenon, <1>1 DEF keyVars, StaleInv, CachesOK, Alive, Lookup, Live, Expired, Held
<1>2. CASE \/ \E p \in Projects : CreateProject(p) \/ DeleteProject(p)
           \/ \E k \in Ids : revokeKey(k) \/ KeyExpires(k)
                             \/ \E t \in Tokens, p \in Projects : createKey(k, t, p)
           \/ \E a \in Admins :
                 \/ \E p \in Projects : QuickstartProject(a, p)
                 \/ \E k \in Ids, t \in Tokens : QuickstartKey(a, k, t) \/ RotateRead(a, k, t)
                 \/ RotateWrite(a)
           \/ Connection
  <2>1. client' = client
    BY Zenon, <1>2 DEF CreateProject, DeleteProject, revokeKey, KeyExpires, createKey, QuickstartProject,
                QuickstartKey, RotateRead, RotateWrite, Connection, caches
  <2> QED
    BY <1>0, <1>2, <2>1, TablesReviveNone
<1>3. ASSUME NEW k \in Ids, NEW e \in BOOLEAN, UpdateKey(k, e)
      PROVE  StaleInv' /\ \A c \in Clients : Bounded(c)
  BY Zenon, <1>0, <1>3, UpdateKeepsStale DEF UpdateKey
<1>4. ASSUME NEW c \in Clients,
             (\E t \in Tokens : Present(c, t)) \/ Query(c) \/ Store(c) \/ Finish(c)
      PROVE  StaleInv' /\ \A d \in Clients : Bounded(d)
  BY <1>4, RequestKeepsStale
<1>5. CASE KeysTick
  BY Zenon, <1>0, <1>5, TickKeepsStale DEF KeysTick
<1> QED
  BY Zenon, <1>1, <1>2, <1>3, <1>4, <1>5 DEF KeysNext

\* KeyCache.Get, GetWithGrace and the resolver's cache against the admin API: a key that
\* was revoked, rotated away, deleted or expired is accepted from a cache for at most the
\* time to live, and the grace period on top while the database is down, after the last
\* request that had read it let go of it.
THEOREM Staleness == KeysSpec => StaleAcceptanceBounded
<1>1. IInv /\ [KeysNext]_keyVars => IInv'
  BY Inductive
<1>2. IInv /\ StaleInv /\ [KeysNext]_keyVars => StaleInv' /\ [\A c \in Clients : Bounded(c)]_keyVars
  BY StaleInductive
<1>3. KeysInit => StaleInv
  <2> SUFFICES ASSUME KeysInit PROVE StaleInv
    OBVIOUS
  <2>1. /\ client = [c \in Clients |-> Waiting] /\ Waiting \in Authentications
        /\ Waiting.pc = "idle" /\ dead = [t \in Tokens |-> 0] /\ cache = <<>>
    BY Zenon DEF KeysInit, Waiting, Authentications
  <2>2. CachesOK
    BY <2>1 DEF CachesOK
  <2> QED
    BY <2>1, <2>2 DEF StaleInv
<1>4. [\A c \in Clients : Bounded(c)]_keyVars =>
        [\A c \in Clients :
           LET ago == dead[client'[c].token] IN
           /\ Accepts(c, "hit") => ago <= TTL
           /\ Accepts(c, "grace") => ago <= TTL + Grace
           /\ Accepts(c, "fresh") => ago = 0]_keyVars
  BY Zenon DEF Bounded
<1> QED
  BY Initially, <1>1, <1>2, <1>3, <1>4, PTL DEF KeysSpec, StaleAcceptanceBounded

-----------------------------------------------------------------------------
(* Ledger *)

\* The part of TypeOK that the proofs need (not the indices of the ring).
Counts ==
    /\ unchecked \in BOOLEAN
    /\ flying \subseteq Requests
    /\ spent \in Nat
    /\ queue \in 0 .. BufferSize /\ hand \in 0 .. 1

Phases == {"run", "signalled", "closing", "draining", "stopped"}
Shadows ==
    /\ phase \in Phases
    /\ shadow \in [Requests -> {"none", "started", "calling"}]

\* Adding a request to those in flight, or taking one away, changes their number as
\* expected, and there are never more than requests.
LEMMA FlyingCounts ==
    ASSUME flying \subseteq Requests, NEW r \in Requests
    PROVE  /\ Cardinality(flying) \in Nat /\ Cardinality(Requests) \in Nat
           /\ Cardinality(flying) <= Cardinality(Requests)
           /\ r \in flying => Cardinality(flying \ {r}) = Cardinality(flying) - 1
           /\ Cardinality(flying \cup {r}) \in Nat
           /\ Cardinality(flying \cup {r}) <= Cardinality(Requests)
<1>1. IsFiniteSet(Requests)
  BY LedgerAssumption
<1>2. IsFiniteSet(flying) /\ IsFiniteSet(flying \cup {r})
  BY <1>1, FS_Subset
<1>3. Cardinality(flying) <= Cardinality(Requests)
      /\ Cardinality(flying \cup {r}) <= Cardinality(Requests)
  BY <1>1, FS_Subset
<1>4. r \in flying => Cardinality(flying \ {r}) = Cardinality(flying) - 1
  BY <1>2, FS_RemoveElement
<1> QED
  BY <1>1, <1>2, <1>3, <1>4, FS_CardinalityType

\* The same without a request at hand.
LEMMA FlyingBound ==
    ASSUME flying \subseteq Requests
    PROVE  /\ Cardinality(flying) \in Nat /\ Cardinality(Requests) \in Nat
           /\ Cardinality(flying) <= Cardinality(Requests)
<1>1. IsFiniteSet(Requests)
  BY LedgerAssumption
<1> QED
  BY <1>1, FS_Subset, FS_CardinalityType

\* Every step keeps the counters within their types.
LEMMA CountsKept ==
    ASSUME Counts, [Next]_vars
    PROVE  Counts'
<1> USE LedgerAssumption
<1>1. ASSUME NEW r \in Requests, CheckBudget(r) PROVE Counts'
  BY Zenon, <1>1 DEF Counts, CheckBudget, replay
<1>2. ASSUME NEW r \in Requests, Fail(r) PROVE Counts'
  BY Zenon, <1>2 DEF Counts, Fail, replay
<1>3. ASSUME NEW r \in Requests, NEW b \in BOOLEAN, Answer(r, b) PROVE Counts'
  BY <1>3 DEF Counts, Answer, Record
<1>4. ASSUME NEW r \in Requests, ShadowStart(r) \/ ShadowEnd(r) PROVE Counts'
  BY Zenon, <1>4 DEF Counts, ShadowStart, ShadowEnd
<1>5. CASE Take
  BY <1>5 DEF Counts, Take, replay
<1>6. CASE Write
  BY <1>6 DEF Counts, Write, replay
<1>7. CASE NewPeriod
  BY Zenon, <1>7 DEF Counts, NewPeriod, replay
<1>8. CASE Main \/ Database \/ UNCHANGED vars
  BY Zenon, <1>8 DEF Counts, Main, Database, vars, replay
<1> QED
  BY Zenon, <1>1, <1>2, <1>3, <1>4, <1>5, <1>6, <1>7, <1>8 DEF Next

\* What is spent, on its way to the database or in flight stays within the bound: a check
\* that passes finds less than the limit spent, and every other step only moves a call
\* from one of these places to the next, or loses it.
LEMMA BoundKept ==
    ASSUME Counts, OvershootBounded, [Next]_vars
    PROVE  OvershootBounded'
<1> USE LedgerAssumption
<1>0. /\ Cardinality(flying) \in Nat /\ Cardinality(Requests) \in Nat
      /\ Cardinality(flying) <= Cardinality(Requests)
  BY Zenon, FlyingBound DEF Counts
<1>t. /\ spent \in Nat /\ queue \in Nat /\ hand \in Nat /\ queue <= BufferSize /\ hand <= 1
      /\ unchecked \in BOOLEAN
  BY DEF Counts
<1>1. ASSUME NEW r \in Requests, CheckBudget(r) PROVE OvershootBounded'
  <2>1. Cardinality(flying') \in Nat /\ Cardinality(flying') <= Cardinality(Requests)
    BY Zenon, <1>1, FlyingCounts DEF Counts, CheckBudget
  <2>2. spent' = spent /\ queue' = queue /\ hand' = hand
    BY Zenon, <1>1 DEF CheckBudget
  <2>3. ~unchecked' => spent < Limit
    BY <1>1, <1>t DEF CheckBudget, Refused
  <2> QED
    BY <1>0, <1>t, <2>1, <2>2, <2>3 DEF OvershootBounded
<1>2. ASSUME NEW r \in Requests, Fail(r) PROVE OvershootBounded'
  <2>1. Cardinality(flying') = Cardinality(flying) - 1
    BY Zenon, <1>2, FlyingCounts DEF Counts, Fail
  <2> QED
    BY <1>0, <1>2, <1>t, <2>1 DEF OvershootBounded, Fail
<1>3. ASSUME NEW r \in Requests, NEW b \in BOOLEAN, Answer(r, b) PROVE OvershootBounded'
  <2>1. Cardinality(flying') = Cardinality(flying) - 1
    BY Zenon, <1>3, FlyingCounts DEF Counts, Answer
  <2>2. queue' \in {queue, queue + 1}
    BY Zenon, <1>3, <1>t DEF Answer, Record
  <2>3. spent' = spent /\ hand' = hand /\ unchecked' = unchecked
    BY Zenon, <1>3 DEF Answer
  <2> QED
    BY SMTT(30), <1>0, <1>t, <2>1, <2>2, <2>3 DEF OvershootBounded
<1>4. ASSUME NEW r \in Requests, ShadowStart(r) \/ ShadowEnd(r) PROVE OvershootBounded'
  BY Zenon, <1>4 DEF OvershootBounded, ShadowStart, ShadowEnd
<1>5. CASE Take
  BY <1>0, <1>t, <1>5 DEF OvershootBounded, Take
<1>6. CASE Write
  BY <1>0, <1>t, <1>6 DEF OvershootBounded, Write
<1>7. CASE NewPeriod
  <2>1. spent' = 0 /\ queue' = queue /\ hand' = hand /\ flying' = flying
    BY Zenon, <1>7 DEF NewPeriod
  <2> QED
    BY <1>0, <1>t, <2>1 DEF OvershootBounded
<1>8. CASE Main \/ Database \/ UNCHANGED vars
  BY Zenon, <1>8 DEF OvershootBounded, Main, Database, vars
<1> QED
  BY Zenon, <1>1, <1>2, <1>3, <1>4, <1>5, <1>6, <1>7, <1>8 DEF Next

\* CheckBudget, Writer.Record and Writer.write: whatever the limit, the buffer and the
\* number of requests in flight, a key whose checks all found the database overruns its
\* budget by no more than what the check cannot see.
THEOREM Overshoot == Spec => []OvershootBounded
<1>1. Init => Counts /\ OvershootBounded
  <2> SUFFICES ASSUME Init PROVE Counts /\ OvershootBounded
    OBVIOUS
  <2>1. Cardinality({}) = 0
    BY FS_EmptySet
  <2>2. Cardinality(Requests) \in Nat
    BY LedgerAssumption, FS_CardinalityType
  <2>3. Counts
    BY LedgerAssumption DEF Init, Counts
  <2>4. spent + queue + hand + Cardinality(flying) = 0
    BY <2>1 DEF Init
  <2> QED
    BY <2>2, <2>3, <2>4, LedgerAssumption DEF OvershootBounded
<1>2. Counts /\ OvershootBounded /\ [Next]_vars => (Counts /\ OvershootBounded)'
  BY CountsKept, BoundKept
<1> QED
  BY <1>1, <1>2, PTL DEF Spec

\* Manager.Replay and Manager.Close: once Close has returned no shadow call is under way
\* or begins, although requests in flight go on asking for replays.
THEOREM ShadowsEnd == Spec => []NoShadowAfterClose
<1> DEFINE I == Shadows /\ NoShadowAfterClose
<1>1. Init => I
  BY Zenon DEF Init, Shadows, Phases, NoShadowAfterClose
<1>2. I /\ [Next]_vars => I'
  <2> SUFFICES ASSUME I, [Next]_vars PROVE I'
    OBVIOUS
  <2> USE DEF Shadows, Phases, NoShadowAfterClose
  <2>1. ASSUME NEW r \in Requests, CheckBudget(r) \/ Fail(r) PROVE I'
    BY Zenon, <2>1 DEF CheckBudget, Fail, replay
  <2>2. ASSUME NEW r \in Requests, NEW b \in BOOLEAN, Answer(r, b) PROVE I'
    BY Zenon, <2>2 DEF Answer
  <2>3. ASSUME NEW r \in Requests, ShadowStart(r) PROVE I'
    BY Zenon, <2>3 DEF ShadowStart, Closed
  <2>4. ASSUME NEW r \in Requests, ShadowEnd(r) PROVE I'
    BY Zenon, <2>4 DEF ShadowEnd
  <2>5. CASE Main
    BY Zenon, <2>5 DEF Main, Move, CloseWaits, replay
  <2>6. CASE Take \/ Write \/ NewPeriod \/ Database \/ UNCHANGED vars
    BY Zenon, <2>6 DEF Take, Write, NewPeriod, Database, vars, replay
  <2> QED
    BY Zenon, <2>1, <2>2, <2>3, <2>4, <2>5, <2>6 DEF Next
<1> QED
  BY <1>1, <1>2, PTL DEF Spec
-----------------------------------------------------------------------------
(* The ring of replay results *)

\* The code's % is only applied to numbers below twice the capacity.
LEMMA Wraps ==
    ASSUME NEW x \in 0 .. 2 * RingCap - 1
    PROVE  x % RingCap = IF x < RingCap THEN x ELSE x - RingCap
<1>1. RingCap \in Nat \ {0}
  BY LedgerAssumption
<1>2. CASE x < RingCap
  BY <1>1, <1>2
<1>3. CASE x >= RingCap
  BY SMTT(30), <1>1, <1>3
<1> QED
  BY <1>1, <1>2, <1>3

\* The index j places before the head.
Before(h, j) == IF h >= j THEN h - j ELSE h - j + RingCap

\* Counting back from the head, the ring holds the last results stored.
RingInv ==
    /\ stored \in Seq(SUBSET Requests)
    /\ head \in 0 .. RingCap - 1
    /\ count = IF Len(stored) < RingCap THEN Len(stored) ELSE RingCap
    /\ ring = [i \in 0 .. RingCap - 1 |-> ring[i]]
    /\ \A j \in 1 .. count : ring[Before(head, j)] = stored[Len(stored) - j + 1]

\* Manager.store keeps that: what it overwrites is no longer counted.
LEMMA StoreKeeps ==
    ASSUME RingInv, NEW x \in SUBSET Requests, StoreResult(x)
    PROVE  RingInv'
<1>0. RingCap \in Nat \ {0} /\ Len(stored) \in Nat
  BY LedgerAssumption DEF RingInv
<1>1. /\ stored' \in Seq(SUBSET Requests) /\ Len(stored') = Len(stored) + 1
      /\ stored'[Len(stored')] = x
      /\ \A i \in 1 .. Len(stored) : stored'[i] = stored[i]
  BY <1>0 DEF RingInv, StoreResult
<1>2. head' = IF head + 1 < RingCap THEN head + 1 ELSE 0
  <2> DEFINE x1 == head + 1
  <2>1. x1 \in 0 .. 2 * RingCap - 1 /\ head' = x1 % RingCap
    BY <1>0 DEF RingInv, StoreResult
  <2> HIDE DEF x1
  <2>2. x1 % RingCap = IF x1 < RingCap THEN x1 ELSE x1 - RingCap
    BY <2>1, Wraps
  <2> QED
    BY <1>0, <2>1, <2>2 DEF RingInv, x1
<1>3. head' \in 0 .. RingCap - 1
  BY <1>0, <1>2 DEF RingInv
<1>4. count' = IF Len(stored') < RingCap THEN Len(stored') ELSE RingCap
  BY <1>0, <1>1 DEF RingInv, StoreResult
<1>5. /\ ring' = [i \in 0 .. RingCap - 1 |-> ring'[i]] /\ ring'[head] = x
      /\ \A i \in 0 .. RingCap - 1 : i # head => ring'[i] = ring[i]
  BY Zenon DEF RingInv, StoreResult
<1>6. ASSUME NEW j \in 1 .. count'
      PROVE  ring'[Before(head', j)] = stored'[Len(stored') - j + 1]
  <2>1. CASE j = 1
    <3>1. Before(head', j) = head
      BY <1>0, <1>2, <2>1 DEF RingInv, Before
    <3> QED
      BY <1>0, <1>1, <1>5, <2>1, <3>1
  <2>2. CASE j # 1
    <3>1. j - 1 \in 1 .. count /\ j - 1 < RingCap /\ j \in Nat
      BY <1>0, <1>1, <1>4, <2>2 DEF RingInv
    <3>2. /\ Before(head', j) = Before(head, j - 1)
          /\ Before(head, j - 1) # head /\ Before(head, j - 1) \in 0 .. RingCap - 1
      <4>1. head \in 0 .. RingCap - 1 /\ head' \in 0 .. RingCap - 1
        BY Zenon, <1>3 DEF RingInv
      <4>2. CASE head + 1 < RingCap
        BY <1>0, <1>2, <3>1, <4>1, <4>2 DEF Before
      <4>3. CASE head + 1 = RingCap
        BY <1>0, <1>2, <3>1, <4>1, <4>3 DEF Before
      <4> QED
        BY <1>0, <4>1, <4>2, <4>3
    <3>3. ring[Before(head, j - 1)] = stored[Len(stored) - (j - 1) + 1]
      BY Zenon, <3>1 DEF RingInv
    <3>4. /\ Len(stored) - (j - 1) + 1 \in 1 .. Len(stored)
          /\ Len(stored') - j + 1 = Len(stored) - (j - 1) + 1
      BY <1>0, <1>1, <3>1 DEF RingInv
    <3> QED
      BY <1>1, <1>5, <3>2, <3>3, <3>4
  <2> QED
    BY <2>1, <2>2
<1> QED
  BY Zenon, <1>1, <1>3, <1>4, <1>5, <1>6 DEF RingInv

LEMMA RingKept ==
    ASSUME RingInv, [Next]_vars
    PROVE  RingInv'
<1>1. CASE UNCHANGED <<ring, head, count, stored>>
  BY Zenon, <1>1 DEF RingInv
<1>2. ASSUME NEW r \in Requests, ShadowEnd(r) PROVE RingInv'
  BY Zenon, <1>2, StoreKeeps DEF ShadowEnd
<1>3. ASSUME NEW r \in Requests, CheckBudget(r) \/ Fail(r) \/ ShadowStart(r) PROVE RingInv'
  BY Zenon, <1>1, <1>3 DEF CheckBudget, Fail, ShadowStart, replay
<1>4. ASSUME NEW r \in Requests, NEW b \in BOOLEAN, Answer(r, b) PROVE RingInv'
  BY Zenon, <1>1, <1>4 DEF Answer
<1>5. CASE Take \/ Write \/ NewPeriod \/ Main \/ Database \/ UNCHANGED vars
  BY Zenon, <1>1, <1>5 DEF Take, Write, NewPeriod, Main, Database, vars, replay
<1> QED
  BY Zenon, <1>2, <1>3, <1>4, <1>5 DEF Next

\* Manager.Recent counts forward, from the oldest result of the ring.
LEMMA RecentReads ==
    ASSUME RingInv, NEW n \in Nat
    PROVE  LET m == IF n > count THEN count ELSE n
           IN  Recent(n) = [i \in 1 .. m |-> stored[Len(stored) - m + i]]
<1> DEFINE m == IF n > count THEN count ELSE n
           start == (head - count + RingCap) % RingCap
<1>0. /\ RingCap \in Nat \ {0} /\ Len(stored) \in Nat /\ count \in 0 .. RingCap /\ head \in Nat
      /\ head < RingCap /\ m \in 0 .. count /\ count <= Len(stored)
  BY LedgerAssumption DEF RingInv
<1>1. start = IF head >= count THEN head - count ELSE head - count + RingCap
  <2> DEFINE x1 == head - count + RingCap
  <2>1. x1 \in 0 .. 2 * RingCap - 1 /\ start = x1 % RingCap
    BY <1>0
  <2> HIDE DEF x1
  <2>2. x1 % RingCap = IF x1 < RingCap THEN x1 ELSE x1 - RingCap
    BY <2>1, Wraps
  <2> QED
    BY <1>0, <2>1, <2>2 DEF x1
<1>2. Recent(n) = [i \in 1 .. m |-> ring[(start + (count - m) + i - 1) % RingCap]]
  BY Zenon DEF Recent
<1> HIDE DEF m, start
<1>3. ASSUME NEW i \in 1 .. m
      PROVE  ring[(start + (count - m) + i - 1) % RingCap] = stored[Len(stored) - m + i]
  <2> DEFINE j == m - i + 1
             x == start + (count - m) + i - 1
  <2>1. j \in 1 .. count /\ x = start + count - j
    BY <1>0, <1>1
  <2> HIDE DEF x
  <2>2. x \in 0 .. 2 * RingCap - 1
    BY <1>0, <1>1, <2>1
  <2>3. x % RingCap = IF x < RingCap THEN x ELSE x - RingCap
    BY <2>2, Wraps
  <2>4. x % RingCap = Before(head, j)
    BY <1>0, <1>1, <2>1, <2>2, <2>3 DEF Before
  <2>5. ring[Before(head, j)] = stored[Len(stored) - j + 1]
    BY Zenon, <2>1 DEF RingInv
  <2>6. Len(stored) - j + 1 = Len(stored) - m + i
    BY <1>0
  <2> QED
    BY Zenon, <2>4, <2>5, <2>6 DEF x
<1> QED
  BY Zenon, <1>2, <1>3 DEF m

\* Manager.store and Manager.Recent: before and after the ring wraps, and for a ring of any
\* size, the admin API shows the last results stored, oldest first.
THEOREM RingOrder == Spec => []RecentIsLast
<1>1. Init => RingInv
  <2> SUFFICES ASSUME Init PROVE RingInv
    OBVIOUS
  <2>1. RingCap \in Nat \ {0} /\ stored = <<>> /\ count = 0 /\ head = 0
        /\ ring = [i \in 0 .. RingCap - 1 |-> {}]
    BY Zenon, LedgerAssumption DEF Init
  <2> QED
    BY <2>1 DEF RingInv
<1>2. RingInv /\ [Next]_vars => RingInv'
  BY RingKept
<1>3. RingInv => RecentIsLast
  <2> SUFFICES ASSUME RingInv, NEW n \in 0 .. RingCap + 1
               PROVE  LET m == IF n > Len(stored) THEN Len(stored) ELSE n
                          k == IF m > RingCap THEN RingCap ELSE m
                      IN  Recent(n) = SubSeq(stored, Len(stored) - k + 1, Len(stored))
    BY Zenon DEF RecentIsLast
  <2> DEFINE m == IF n > Len(stored) THEN Len(stored) ELSE n
             k == IF m > RingCap THEN RingCap ELSE m
  <2>1. /\ RingCap \in Nat \ {0} /\ n \in Nat /\ Len(stored) \in Nat /\ stored \in Seq(SUBSET Requests)
        /\ k \in 0 .. Len(stored) /\ k = IF n > count THEN count ELSE n
    BY LedgerAssumption DEF RingInv
  <2> HIDE DEF k
  <2>2. Recent(n) = [i \in 1 .. k |-> stored[Len(stored) - k + i]]
    BY Zenon, <2>1, RecentReads
  <2>3. SubSeq(stored, Len(stored) - k + 1, Len(stored)) = [i \in 1 .. k |-> stored[Len(stored) - k + i]]
    BY <2>1
  <2> QED
    BY Zenon, <2>2, <2>3 DEF k
<1> QED
  BY <1>1, <1>2, <1>3, PTL DEF Spec
=============================================================================
