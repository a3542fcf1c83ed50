---------------------------- MODULE Subsequences ----------------------------
(***************************************************************************)
(* What a loop collects that walks a sequence of n elements and appends    *)
(* the position of some of them: written as a function, which can be       *)
(* reasoned about, where SelectSeq cannot.                                 *)
(***************************************************************************)
EXTENDS Integers, Sequences

\* The members of S from 1 to n, in increasing order.
Places(S, n) ==
    LET upTo[i \in 0 .. n] ==
            IF i = 0 THEN <<>>
            ELSE IF i \in S THEN Append(upTo[i - 1], i) ELSE upTo[i - 1]
    IN  upTo[n]

\* The elements of s at the positions in S, in the order of s.
Picked(s, S) ==
    LET found == Places(S, Len(s))
    IN  [k \in DOMAIN found |-> s[found[k]]]

\* The numbers of s that are not 0, in the order of s.
NonZero(s) == Picked(s, {k \in DOMAIN s : s[k] # 0})
=============================================================================
