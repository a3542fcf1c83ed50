-------------------------------- MODULE LRU ---------------------------------
(***************************************************************************)
(* What the in-memory caches promise (internal/cache/exact.go and          *)
(* internal/cache/semantic/embed_cache.go): at most MaxEntries keys, the most     *)
(* recently used first, none served after its TTL.                         *)
(***************************************************************************)
EXTENDS Integers, Sequences, Functions

CONSTANTS Keys, MaxEntries, TTL

VARIABLES
    order,      \* the keys, most recently used first
    age         \* age[k]: since k was set, at most TTL + 1

vars == <<order, age>>

Old == TTL + 1
Without(k) ==
    IF k \notin Range(order) THEN order
    ELSE LET j == CHOOSE i \in DOMAIN order : order[i] = k
         IN  [i \in 1 .. Len(order) - 1 |-> IF i < j THEN order[i] ELSE order[i + 1]]
Kept(s) == SubSeq(s, 1, IF Len(s) < MaxEntries THEN Len(s) ELSE MaxEntries)

Init == order = <<>> /\ age = [k \in Keys |-> 0]

\* Get: a fresh key moves to the front, an expired one is dropped.
Get(k) ==
    /\ k \in Range(order)
    /\ order' = IF age[k] <= TTL THEN <<k>> \o Without(k) ELSE Without(k)
    /\ UNCHANGED age

\* Set: the key comes first; the last one goes when there are too many.
Set(k) ==
    /\ order' = Kept(<<k>> \o Without(k))
    /\ age' = [age EXCEPT ![k] = 0]

\* The age of a key that is not stored is of no interest.
Tick ==
    /\ \A k \in Range(order) : age'[k] = IF age[k] < Old THEN age[k] + 1 ELSE Old
    /\ age' \in [Keys -> 0..Old]
    /\ UNCHANGED order

Next == (\E k \in Keys : Get(k) \/ Set(k)) \/ Tick

Spec == Init /\ [][Next]_vars
=============================================================================
