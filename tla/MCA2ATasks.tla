----------------------------- MODULE MCA2ATasks -----------------------------
(* Instances of A2ATasks for TLC. *)
EXTENDS A2ATasks, TLC

\* Tasks, workers and requests are interchangeable (safety runs only).
Symmetry ==
    Permutations(Tasks) \cup Permutations(Workers) \cup Permutations(Requests)

=============================================================================
