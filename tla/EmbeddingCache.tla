--------------------------- MODULE EmbeddingCache ---------------------------
(***************************************************************************)
(* The embedding cache of SemanticCache as an implementation of LRU: the   *)
(* keys of the abstract cache are those the linked list names, in order.   *)
(***************************************************************************)
EXTENDS Integers, Sequences, FiniteSets

CONSTANTS
    Texts, Lookups, MaxEntries, TTL, Threshold, Window, Cooldown,   \* SemanticCache
    None

\* NewEmbeddingCache replaces a size or a time to live that is not positive.
ASSUME CacheAssumption ==
    IsFiniteSet(Texts) /\ None \notin Texts /\ MaxEntries \in Nat \ {0} /\ TTL \in Nat

VARIABLES items, list, age, circuit, embedder, request

embedVars == <<items, list, age, circuit, embedder, request>>

Embed == INSTANCE SemanticCache WITH Nil <- None, Requests <- Lookups

Cache == INSTANCE LRU WITH Keys <- Texts, order <- Embed!Order

\* The linked list of the embedding cache implements the abstract cache: a lookup or a
\* store moves its key to the front, the least recently used key is evicted, an expired
\* one is dropped.
ImplementsLRU == Cache!Spec
=============================================================================
