--------------------------- MODULE SemanticCache ----------------------------
(***************************************************************************)
(* internal/cache/semantic: getEmbedding with its circuit breaker          *)
(* (circuit.go) and the embedding cache (embed_cache.go), a map and a      *)
(* doubly linked list of nodes.                                            *)
(***************************************************************************)
EXTENDS Integers, Sequences, FiniteSets

CONSTANTS
    Texts,          \* texts to embed; a node is named by its text
    Requests,
    MaxEntries, TTL,       \* of the embedding cache
    Threshold, Window, Cooldown,
    Nil

VARIABLES
    items,          \* the map's keys
    list,           \* [head, tail, prev, next]
    age,            \* createdAt of the nodes
    circuit,        \* [failures, lastFail, openedAt], times as ages
    embedder,       \* the embedding service answers
    request         \* request[r]: [at, text]

vars == <<items, list, age, circuit, embedder, request>>

Older(n, bound) == IF n <= bound THEN n + 1 ELSE n
Idle == [at |-> "idle", text |-> Nil]
NoLinks == [k \in Texts |-> Nil]

Init ==
    /\ items = {}
    /\ list = [head |-> Nil, tail |-> Nil, prev |-> NoLinks, next |-> NoLinks]
    /\ age = [k \in Texts |-> 0]
    /\ circuit = [failures |-> 0, lastFail |-> Window + 1, openedAt |-> Cooldown + 1]
    /\ embedder \in BOOLEAN
    /\ request = [r \in Requests |-> Idle]

-----------------------------------------------------------------------------
(* lruList *)

Set(links, k, v) == IF k = Nil THEN links ELSE [links EXCEPT ![k] = v]

pushFront(l, k) ==
    IF l.head = Nil
    THEN [head |-> k, tail |-> k, prev |-> Set(l.prev, k, Nil), next |-> Set(l.next, k, Nil)]
    ELSE [head |-> k, tail |-> l.tail,
          prev |-> Set(Set(l.prev, k, Nil), l.head, k),
          next |-> Set(l.next, k, l.head)]

NewTail(l, k) == IF k = l.tail THEN l.prev[k] ELSE l.tail

moveToFront(l, k) ==
    IF k = l.head THEN l
    ELSE [head |-> k, tail |-> NewTail(l, k),
          prev |-> Set(Set(Set(l.prev, l.next[k], l.prev[k]), k, Nil), l.head, k),
          next |-> Set(Set(l.next, l.prev[k], l.next[k]), k, l.head)]

\* EmbeddingCache.removeNode
removeNode(l, k) ==
    [head |-> IF l.prev[k] = Nil THEN l.next[k] ELSE l.head,
     tail |-> IF l.next[k] = Nil THEN l.prev[k] ELSE l.tail,
     prev |-> Set(l.prev, l.next[k], l.prev[k]),
     next |-> Set(l.next, l.prev[k], l.next[k])]

\* (variant: the most recently used node is taken)
removeHead(l) == removeNode(l, l.head)
removeTail(l) ==
    [l EXCEPT !.head = IF l.prev[l.tail] = Nil THEN Nil ELSE @,
              !.tail = l.prev[l.tail],
              !.next = Set(@, l.prev[l.tail], Nil)]

\* A node that nothing refers to any more.
Freed(l, k) == [l EXCEPT !.prev[k] = Nil, !.next[k] = Nil]

\* EmbeddingCache.Get
CacheGet(k) ==
    IF k \notin items THEN UNCHANGED <<items, list>>
    ELSE IF age[k] > TTL THEN list' = Freed(removeNode(list, k), k) /\ items' = items \ {k}
    ELSE list' = moveToFront(list, k) /\ UNCHANGED items

\* EmbeddingCache.Set
CacheSet(k) ==
    /\ age' = [age EXCEPT ![k] = 0]
    /\ IF k \in items THEN list' = moveToFront(list, k) /\ UNCHANGED items
       ELSE IF Cardinality(items) >= MaxEntries
       THEN list' = pushFront(Freed(removeTail(list), list.tail), k) /\ items' = (items \ {list.tail}) \cup {k}
       ELSE list' = pushFront(list, k) /\ items' = items \cup {k}

-----------------------------------------------------------------------------
(* The circuit breaker and getEmbedding *)

Open == circuit.failures >= Threshold
Cooled == circuit.openedAt > Cooldown

\* Allow: refused while open; after the cooldown the failures are forgotten.
Allows == ~Open \/ Cooled
Allow == circuit' = IF Open /\ Cooled THEN [circuit EXCEPT !.failures = 0] ELSE circuit

RecordSuccess == circuit' = [circuit EXCEPT !.failures = 0]

Counted == IF circuit.lastFail > Window THEN 1 ELSE circuit.failures + 1
RecordFailure ==
    circuit' = [failures |-> Counted, lastFail |-> 0,
                openedAt |-> IF Counted >= Threshold THEN 0 ELSE circuit.openedAt]

To(r, at, k) == request' = [request EXCEPT ![r] = [at |-> at, text |-> k]]

Refused == UNCHANGED circuit

\* Up to the embedding cache: refused, found, or to be asked for.
Begin(r, k) ==
    /\ request[r] = Idle
    /\ IF ~Allows THEN Refused /\ UNCHANGED <<items, list, request>>
       ELSE /\ Allow /\ CacheGet(k)
            /\ IF k \in items /\ age[k] <= TTL THEN UNCHANGED request ELSE To(r, "embed", k)
    /\ UNCHANGED <<age, embedder>>

\* The embedder answers, or fails: the outcome is recorded and an answer stored.
Embedded(r) ==
    /\ request[r].at = "embed"
    /\ \/ /\ embedder /\ RecordSuccess /\ To(r, "store", request[r].text)
       \/ /\ ~embedder /\ RecordFailure /\ To(r, "idle", Nil)
    /\ UNCHANGED <<items, list, age, embedder>>

Store(r) ==
    /\ request[r].at = "store"
    /\ CacheSet(request[r].text) /\ To(r, "idle", Nil)
    /\ UNCHANGED <<circuit, embedder>>

Tick ==
    /\ age' = [k \in Texts |-> IF k \in items THEN Older(age[k], TTL) ELSE 0]
    /\ circuit' = [circuit EXCEPT !.lastFail = Older(@, Window), !.openedAt = Older(@, Cooldown)]
    /\ UNCHANGED <<items, list, embedder, request>>

Outage == embedder' = ~embedder /\ UNCHANGED <<items, list, age, circuit, request>>

Serve(r) == (\E k \in Texts : Begin(r, k)) \/ Embedded(r) \/ Store(r)
Next == (\E r \in Requests : Serve(r)) \/ Tick \/ Outage
Spec == Init /\ [][Next]_vars

-----------------------------------------------------------------------------
(* Properties *)

N == Cardinality(Texts)

\* The nodes met from the head on, following next.
Order ==
    LET nth[n \in 1..N] ==
            IF n = 1 THEN list.head
            ELSE IF nth[n - 1] = Nil THEN Nil ELSE list.next[nth[n - 1]]
    IN  [n \in {m \in 1..N : nth[m] # Nil} |-> nth[n]]

\* Besides the types: failures beyond the threshold come from calls under way when
\* the circuit opened.
TypeOK ==
    /\ items \subseteq Texts
    /\ age \in [Texts -> 0..TTL + 1]
    /\ circuit.lastFail \in 0..Window + 1 /\ circuit.openedAt \in 0..Cooldown + 1
    /\ circuit.failures \in 0..Threshold + Cardinality(Requests) - 1
    /\ \A r \in Requests : (request[r].at = "idle") = (request[r].text = Nil)
=============================================================================
