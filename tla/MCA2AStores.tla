----------------------------- MODULE MCA2AStores -----------------------------
(***************************************************************************)
(* Instance of A2ATasks for TLC with both task stores: store says which    *)
(* one a behaviour uses.  The parameters of this module are those of the   *)
(* database store; Memory is the in-memory store with clients that wait    *)
(* for results, and one id left to draw.                                   *)
(***************************************************************************)
EXTENDS A2ATasks, TLC

CONSTANT t1

VARIABLE store

Memory == INSTANCE A2ATasks WITH
    Persistent <- FALSE, Blocking <- TRUE, Peers <- FALSE

InitAll ==
    \/ store = "database" /\ Init
    \/ store = "memory" /\ Memory!InitWith({t1})

NextAll ==
    /\ \/ store = "database" /\ Next
       \/ store = "memory" /\ Memory!Next
    /\ UNCHANGED store

SpecAll == InitAll /\ [][NextAll]_<<store, vars>>

\* Tasks, workers and requests are interchangeable.
Symmetry ==
    Permutations(Tasks) \cup Permutations(Workers) \cup Permutations(Requests)

=============================================================================
