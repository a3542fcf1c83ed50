-------------------------- MODULE SubsequenceProofs -------------------------
(***************************************************************************)
(* What Places collects, for every set and every length.  Induction over   *)
(* the numbers is used in the form of a set: the least number outside it   *)
(* is refuted.                                                             *)
(***************************************************************************)
EXTENDS Subsequences, WellFoundedInduction, TLAPS

LEMMA SetInduction ==
    ASSUME NEW S, 0 \in S, \A n \in Nat : n \in S => n + 1 \in S
    PROVE  \A n \in Nat : n \in S
<1> DEFINE less == OpToRel(<, Nat)
           rest == Nat \ S
<1> SUFFICES ASSUME rest # {} PROVE FALSE
  OBVIOUS
<1>1. IsWellFoundedOn(less, Nat)
  BY NatLessThanWellFounded, Zenon
<1> HIDE DEF less, rest
<1>2. PICK m \in rest : \A k \in rest : <<k, m>> \notin less
  <2>1. rest \subseteq Nat
    BY DEF rest
  <2> QED
    BY Zenon, <1>1, <2>1, WFMin
<1>3. m \in Nat /\ m \notin S /\ m # 0 /\ m - 1 \in Nat /\ m - 1 < m
  BY DEF rest
<1>4. m - 1 \in S
  BY Zenon, <1>2, <1>3 DEF less, rest, OpToRel
<1> QED
  BY <1>3, <1>4

LEMMA Least ==
    ASSUME NEW S \in SUBSET Nat, S # {}
    PROVE  \E m \in S : \A k \in S : m <= k
<1> DEFINE less == OpToRel(<, Nat)
<1>1. IsWellFoundedOn(less, Nat)
  BY NatLessThanWellFounded, Zenon
<1> HIDE DEF less
<1>2. PICK m \in S : \A k \in S : <<k, m>> \notin less
  BY Zenon, <1>1, WFMin
<1>3. ASSUME NEW k \in S PROVE ~(k < m)
  BY Zenon, <1>2 DEF less, OpToRel
<1>4. \A k \in S : m <= k
  BY <1>3
<1> QED
  BY <1>4

\* A function defined by a first value and a step has values, and only one solution.
\* (The step is a function, so that the lemma has no operator for a parameter.)
Solves(f, N, V, base, step) ==
    /\ f \in [0 .. N -> V]
    /\ f[0] = base
    /\ \A n \in 1 .. N : f[n] = step[n][f[n - 1]]

LEMMA Recursion ==
    ASSUME NEW N \in Nat, NEW V, NEW base \in V, NEW step \in [1 .. N -> [V -> V]]
    PROVE  \E f : Solves(f, N, V, base, step)
<1> DEFINE I == {m \in Nat : m <= N => \E f : Solves(f, m, V, base, step)}
<1>1. 0 \in I
  <2>1. Solves([n \in 0 .. 0 |-> base], 0, V, base, step)
    BY DEF Solves
  <2> QED
    BY <2>1
<1>2. ASSUME NEW m \in Nat, m \in I PROVE m + 1 \in I
  <2> SUFFICES ASSUME m + 1 <= N PROVE \E f : Solves(f, m + 1, V, base, step)
    OBVIOUS
  <2>1. PICK f : Solves(f, m, V, base, step)
    BY <1>2
  <2> DEFINE v == step[m + 1][f[m]]
             g == [n \in 0 .. m + 1 |-> IF n <= m THEN f[n] ELSE v]
  <2>2. v \in V
    <3>1. f[m] \in V /\ m + 1 \in 1 .. N
      BY <2>1 DEF Solves
    <3> QED
      BY <3>1
  <2>3. g \in [0 .. m + 1 -> V] /\ g[m + 1] = v /\ \A n \in 0 .. m : g[n] = f[n]
    BY <2>1, <2>2 DEF Solves
  <2> HIDE DEF g
  <2>4. ASSUME NEW n \in 1 .. m + 1 PROVE g[n] = step[n][g[n - 1]]
    <3>1. n - 1 \in 0 .. m /\ g[n - 1] = f[n - 1]
      BY <2>3
    <3>2. CASE n \in 1 .. m
      BY <2>1, <2>3, <3>1, <3>2 DEF Solves
    <3>3. CASE n = m + 1
      BY <2>3, <3>1, <3>3
    <3> QED
      BY <3>2, <3>3
  <2>5. Solves(g, m + 1, V, base, step)
    BY <2>1, <2>3, <2>4 DEF Solves
  <2> QED
    BY <2>5
<1> HIDE DEF I
<1>3. N \in I
  BY <1>1, <1>2, SetInduction
<1> QED
  BY <1>3 DEF I

LEMMA RecursionUnique ==
    ASSUME NEW N \in Nat, NEW f, NEW g, f[0] = g[0],
           \A n \in 1 .. N : f[n - 1] = g[n - 1] => f[n] = g[n]
    PROVE  \A n \in 0 .. N : f[n] = g[n]
<1> DEFINE I == {m \in Nat : m <= N => f[m] = g[m]}
<1>1. 0 \in I
  OBVIOUS
<1>2. ASSUME NEW m \in Nat, m \in I PROVE m + 1 \in I
  <2> SUFFICES ASSUME m + 1 <= N PROVE f[m + 1] = g[m + 1]
    OBVIOUS
  <2>1. f[m] = g[m] /\ m + 1 \in 1 .. N /\ (m + 1) - 1 = m
    BY <1>2
  <2> QED
    BY <2>1
<1> HIDE DEF I
<1>3. \A n \in Nat : n \in I
  BY <1>1, <1>2, SetInduction
<1> QED
  BY <1>3 DEF I

\* One turn of the loop of Places, and f, what it has collected after each turn up to n.
Turn(S, f, i) == IF i \in S THEN Append(f[i - 1], i) ELSE f[i - 1]
Turns(S, f, n) == f = [i \in 0 .. n |-> IF i = 0 THEN <<>> ELSE Turn(S, f, i)]

\* The recursive definition in Places has a solution.
LEMMA PlacesDefined ==
    ASSUME NEW S, NEW n \in Nat
    PROVE  \E f : Turns(S, f, n) /\ Places(S, n) = f[n]
<1> DEFINE I == {m \in Nat : \E f : Turns(S, f, m)}
<1>1. 0 \in I
  <2>1. Turns(S, [i \in 0 .. 0 |-> <<>>], 0)
    BY DEF Turns
  <2> QED
    BY <2>1
<1>2. ASSUME NEW m \in Nat, m \in I PROVE m + 1 \in I
  <2>1. PICK f : Turns(S, f, m)
    BY <1>2
  <2> DEFINE g == [i \in 0 .. m + 1 |-> IF i <= m THEN f[i] ELSE Turn(S, f, i)]
  <2>2. \A i \in 0 .. m : g[i] = f[i]
    OBVIOUS
  <2>3. \A i \in 1 .. m + 1 : Turn(S, g, i) = Turn(S, f, i)
    BY <2>2 DEF Turn
  <2>4. \A i \in 1 .. m : f[i] = Turn(S, f, i)
    BY <2>1 DEF Turns
  <2>5. f[0] = <<>>
    BY <2>1 DEF Turns
  <2>6. \A i \in 0 .. m + 1 : g[i] = IF i = 0 THEN <<>> ELSE Turn(S, g, i)
    BY <2>2, <2>3, <2>4, <2>5
  <2>7. Turns(S, g, m + 1)
    BY <2>6 DEF Turns
  <2> QED
    BY <2>7
<1> HIDE DEF I
<1>3. n \in I
  BY <1>1, <1>2, SetInduction
<1>4. Places(S, n) = (CHOOSE f : Turns(S, f, n))[n]
  BY DEF Places, Turns, Turn
<1> QED
  BY Zenon, <1>3, <1>4 DEF I

\* Places looks at the members of S up to n, and at nothing else.
LEMMA PlacesAgree ==
    ASSUME NEW S, NEW T, NEW n \in Nat, \A i \in 1 .. n : i \in S <=> i \in T,
           NEW f, NEW g, NEW p \in Nat, NEW q \in Nat, n <= p, n <= q,
           Turns(S, f, p), Turns(T, g, q)
    PROVE  f[n] = g[n]
<1> DEFINE I == {m \in Nat : m <= n => f[m] = g[m]}
<1>1. 0 \in I
  BY DEF Turns
<1>2. ASSUME NEW m \in Nat, m \in I PROVE m + 1 \in I
  <2> SUFFICES ASSUME m + 1 <= n PROVE f[m + 1] = g[m + 1]
    OBVIOUS
  <2>1. f[m] = g[m]
    BY <1>2
  <2>2. f[m + 1] = Turn(S, f, m + 1) /\ g[m + 1] = Turn(T, g, m + 1)
    BY DEF Turns
  <2> QED
    BY <2>1, <2>2 DEF Turn
<1> HIDE DEF I
<1>3. n \in I
  BY <1>1, <1>2, SetInduction
<1> QED
  BY <1>3 DEF I

LEMMA PlacesSame ==
    ASSUME NEW S, NEW T, NEW n \in Nat, \A i \in 1 .. n : i \in S <=> i \in T
    PROVE  Places(S, n) = Places(T, n)
<1>1. PICK f : Turns(S, f, n) /\ Places(S, n) = f[n]
  BY PlacesDefined
<1>2. PICK g : Turns(T, g, n) /\ Places(T, n) = g[n]
  BY PlacesDefined
<1> QED
  BY <1>1, <1>2, PlacesAgree

\* The turns of the loop
LEMMA PlacesZero == ASSUME NEW S PROVE Places(S, 0) = <<>>
<1>1. PICK f : Turns(S, f, 0) /\ Places(S, 0) = f[0]
  BY PlacesDefined
<1> QED
  BY <1>1 DEF Turns

LEMMA PlacesNext ==
    ASSUME NEW S, NEW n \in Nat
    PROVE  Places(S, n + 1) = IF n + 1 \in S THEN Append(Places(S, n), n + 1) ELSE Places(S, n)
<1>1. PICK f : Turns(S, f, n) /\ Places(S, n) = f[n]
  BY PlacesDefined
<1>2. n + 1 \in Nat
  OBVIOUS
<1>3. PICK g : Turns(S, g, n + 1) /\ Places(S, n + 1) = g[n + 1]
  BY <1>2, PlacesDefined
<1>4. f[n] = g[n]
  BY <1>1, <1>2, <1>3, PlacesAgree
<1>5. g[n + 1] = Turn(S, g, n + 1)
  BY <1>3 DEF Turns
<1> QED
  BY <1>1, <1>3, <1>4, <1>5 DEF Turn

\* What is collected: the members of S from 1 to n, each once, in increasing order.
Enumerates(p, S, n) ==
    /\ p \in Seq(1 .. n)
    /\ \A k \in 1 .. Len(p) : p[k] \in S
    /\ \A i \in 1 .. n : i \in S => \E k \in 1 .. Len(p) : p[k] = i
    /\ \A j, k \in 1 .. Len(p) : j < k => p[j] < p[k]

LEMMA PlacesEnumerate ==
    ASSUME NEW S, NEW n \in Nat
    PROVE  Enumerates(Places(S, n), S, n)
<1> DEFINE I == {m \in Nat : Enumerates(Places(S, m), S, m)}
<1>1. 0 \in I
  <2>1. Places(S, 0) = <<>>
    BY PlacesZero
  <2>2. Enumerates(<<>>, S, 0)
    <3>1. <<>> \in Seq(1 .. 0) /\ Len(<<>>) = 0
      OBVIOUS
    <3> QED
      BY <3>1 DEF Enumerates
  <2> QED
    BY <2>1, <2>2
<1>2. ASSUME NEW m \in Nat, m \in I PROVE m + 1 \in I
  <2> DEFINE p == Places(S, m)
             q == Places(S, m + 1)
  <2>1. Enumerates(p, S, m)
    BY <1>2
  <2>2. q = IF m + 1 \in S THEN Append(p, m + 1) ELSE p
    BY PlacesNext
  <2> HIDE DEF p, q
  <2>3. p \in Seq(1 .. m + 1) /\ Len(p) \in Nat
    BY <2>1 DEF Enumerates
  <2>4. CASE m + 1 \notin S
    <3>1. q = p
      BY <2>2, <2>4
    <3>2. \A i \in 1 .. m + 1 : i \in S => i \in 1 .. m
      BY <2>4
    <3>3. Enumerates(q, S, m + 1)
      BY <2>1, <2>3, <3>1, <3>2 DEF Enumerates
    <3> QED
      BY <3>3 DEF q
  <2>5. CASE m + 1 \in S
    <3>1. q = Append(p, m + 1)
      BY <2>2, <2>5
    <3>2. q \in Seq(1 .. m + 1) /\ Len(q) = Len(p) + 1 /\ q[Len(q)] = m + 1
      BY <2>3, <3>1
    <3>3. ASSUME NEW k \in 1 .. Len(p) PROVE q[k] = p[k] /\ p[k] \in 1 .. m
      <4>1. p \in Seq(1 .. m)
        BY <2>1 DEF Enumerates
      <4> QED
        BY <3>1, <3>3, <4>1
    <3>4. ASSUME NEW k \in 1 .. Len(q) PROVE q[k] \in S
      <4>1. k \in 1 .. Len(p) \/ k = Len(q)
        BY <2>3, <3>2
      <4> QED
        BY <2>1, <2>5, <3>2, <3>3, <4>1 DEF Enumerates
    <3>5. ASSUME NEW i \in 1 .. m + 1, i \in S PROVE \E k \in 1 .. Len(q) : q[k] = i
      <4>1. CASE i = m + 1
        BY <2>3, <3>2, <4>1
      <4>2. CASE i \in 1 .. m
        <5>1. PICK k \in 1 .. Len(p) : p[k] = i
          BY <2>1, <3>5, <4>2 DEF Enumerates
        <5> QED
          BY <2>3, <3>2, <3>3, <5>1
      <4> QED
        BY <4>1, <4>2
    <3>6. ASSUME NEW j \in 1 .. Len(q), NEW k \in 1 .. Len(q), j < k PROVE q[j] < q[k]
      <4>1. j \in 1 .. Len(p) /\ q[j] = p[j] /\ p[j] \in 1 .. m
        BY <2>3, <3>2, <3>3, <3>6
      <4>2. CASE k = Len(q)
        BY <3>2, <4>1, <4>2
      <4>3. CASE k # Len(q)
        <5>1. k \in 1 .. Len(p)
          BY <2>3, <3>2, <4>3
        <5>2. p[j] < p[k]
          BY <2>1, <3>6, <4>1, <5>1 DEF Enumerates
        <5> QED
          BY <3>3, <4>1, <5>1, <5>2
      <4> QED
        BY <4>2, <4>3
    <3>7. Enumerates(q, S, m + 1)
      BY <3>2, <3>4, <3>5, <3>6 DEF Enumerates
    <3> QED
      BY <3>7 DEF q
  <2> QED
    BY <2>4, <2>5
<1> HIDE DEF I
<1>3. n \in I
  BY <1>1, <1>2, SetInduction
<1> QED
  BY <1>3 DEF I

LEMMA NonZeroType ==
    ASSUME NEW s \in Seq(Nat)
    PROVE  NonZero(s) \in Seq(Nat)
<1> DEFINE S == {k \in DOMAIN s : s[k] # 0}
           p == Places(S, Len(s))
<1>1. Enumerates(p, S, Len(s)) /\ Len(s) \in Nat
  BY PlacesEnumerate
<1>2. NonZero(s) = [k \in DOMAIN p |-> s[p[k]]]
  BY DEF NonZero, Picked
<1> HIDE DEF S, p
<1>3. p \in Seq(1 .. Len(s))
  BY <1>1 DEF Enumerates
<1>4. NonZero(s) \in [1 .. Len(p) -> Nat] /\ Len(p) \in Nat
  BY <1>1, <1>2, <1>3
<1> QED
  BY <1>4

LEMMA NonZeroAppend ==
    ASSUME NEW s \in Seq(Nat), NEW x \in Nat
    PROVE  NonZero(Append(s, x)) = IF x = 0 THEN NonZero(s) ELSE Append(NonZero(s), x)
<1> DEFINE n == Len(s)
           t == Append(s, x)
           S == {k \in DOMAIN s : s[k] # 0}
           T == {k \in DOMAIN t : t[k] # 0}
           p == Places(S, n)
           q == Places(T, n + 1)
<1>1. n \in Nat /\ t \in Seq(Nat) /\ Len(t) = n + 1 /\ t[n + 1] = x
  OBVIOUS
<1>2. \A k \in 1 .. n : t[k] = s[k]
  OBVIOUS
<1>3. \A k \in 1 .. n : k \in S <=> k \in T
  BY <1>1, <1>2
<1>4. n + 1 \in T <=> x # 0
  BY <1>1
<1>5. NonZero(s) = [k \in DOMAIN p |-> s[p[k]]] /\ NonZero(t) = [k \in DOMAIN q |-> t[q[k]]]
  BY <1>1 DEF NonZero, Picked
<1> HIDE DEF S, T, t
<1>6. p = Places(T, n)
  BY <1>1, <1>3, PlacesSame
<1>7. q = IF n + 1 \in T THEN Append(p, n + 1) ELSE p
  BY <1>1, <1>6, PlacesNext
<1>8. Enumerates(p, S, n)
  BY <1>1, PlacesEnumerate
<1> HIDE DEF p, q, n
<1>9. p \in Seq(1 .. n) /\ DOMAIN p = 1 .. Len(p) /\ Len(p) \in Nat
  BY <1>8 DEF Enumerates
<1>10. ASSUME NEW k \in DOMAIN p PROVE t[p[k]] = s[p[k]]
  <2>1. p[k] \in 1 .. n
    BY <1>1, <1>9, <1>10
  <2> QED
    BY <1>2, <2>1
<1>11. CASE x = 0
  <2>1. q = p
    BY <1>4, <1>7, <1>11
  <2>2. NonZero(t) = NonZero(s)
    BY <1>5, <1>10, <2>1
  <2> QED
    BY <1>11, <2>2 DEF t
<1>12. CASE x # 0
  <2>1. q = Append(p, n + 1)
    BY <1>4, <1>7, <1>12
  <2>2. q \in Seq(1 .. n + 1) /\ Len(q) = Len(p) + 1 /\ q[Len(p) + 1] = n + 1
    BY <1>1, <1>9, <2>1
  <2>3. \A k \in 1 .. Len(p) : q[k] = p[k]
    BY <1>1, <1>9, <2>1
  <2> DEFINE u == NonZero(s)
             v == NonZero(t)
  <2>4. u \in Seq(Nat) /\ DOMAIN u = 1 .. Len(p) /\ Len(u) = Len(p)
    <3>1. u \in Seq(Nat)
      BY NonZeroType
    <3>2. DOMAIN u = 1 .. Len(p)
      BY <1>5, <1>9
    <3> QED
      BY <1>9, <3>1, <3>2
  <2>5. v \in Seq(Nat) /\ DOMAIN v = 1 .. Len(p) + 1 /\ Len(v) = Len(p) + 1
    <3>1. v \in Seq(Nat)
      BY <1>1, NonZeroType
    <3>2. DOMAIN v = 1 .. Len(p) + 1
      BY <1>5, <1>9, <2>2
    <3> QED
      BY <1>9, <3>1, <3>2
  <2>6. v[Len(p) + 1] = x
    BY <1>1, <1>5, <1>9, <2>2, <2>5
  <2>7. ASSUME NEW k \in 1 .. Len(p) PROVE v[k] = u[k]
    <3>1. k \in DOMAIN p /\ k \in DOMAIN q
      BY <1>9, <2>2
    <3>2. u[k] = s[p[k]] /\ v[k] = t[q[k]]
      BY <1>5, <3>1
    <3> QED
      BY <1>10, <2>3, <3>1, <3>2
  <2> HIDE DEF u, v
  <2>8. v = Append(u, x)
    BY <1>9, <2>4, <2>5, <2>6, <2>7
  <2> QED
    BY <1>12, <2>8 DEF u, v, t
<1> QED
  BY <1>11, <1>12

\* What Picked takes: the elements at the positions that Places enumerates.
LEMMA PickedElements ==
    ASSUME NEW X, NEW s \in Seq(X), NEW S
    PROVE  /\ Picked(s, S) \in Seq(X)
           /\ Places(S, Len(s)) \in Seq(DOMAIN s)
           /\ Len(Picked(s, S)) = Len(Places(S, Len(s)))
           /\ \A k \in 1 .. Len(Picked(s, S)) :
                 /\ Places(S, Len(s))[k] \in S \cap DOMAIN s
                 /\ Picked(s, S)[k] = s[Places(S, Len(s))[k]]
<1> DEFINE p == Places(S, Len(s))
<1>1. Enumerates(p, S, Len(s)) /\ Len(s) \in Nat /\ DOMAIN s = 1 .. Len(s)
  BY PlacesEnumerate
<1>2. Picked(s, S) = [k \in DOMAIN p |-> s[p[k]]]
  BY DEF Picked
<1> HIDE DEF p
<1>3. p \in Seq(1 .. Len(s)) /\ \A k \in 1 .. Len(p) : p[k] \in S
  BY <1>1 DEF Enumerates
<1>4. DOMAIN p = 1 .. Len(p) /\ Len(p) \in Nat /\ \A k \in 1 .. Len(p) : p[k] \in 1 .. Len(s)
  BY <1>3
<1>5. Picked(s, S) \in [1 .. Len(p) -> X]
  BY <1>1, <1>2, <1>4
<1>6. Picked(s, S) \in Seq(X) /\ Len(Picked(s, S)) = Len(p)
  BY <1>4, <1>5
<1> QED
  BY <1>1, <1>2, <1>3, <1>4, <1>6 DEF p

\* q has the elements of s in another order: f says where each one was.
Rearranges(f, q, s) ==
    /\ f \in [DOMAIN q -> DOMAIN s]
    /\ \A j, k \in DOMAIN q : f[j] = f[k] => j = k
    /\ \A i \in DOMAIN s : \E k \in DOMAIN q : f[k] = i
    /\ \A k \in DOMAIN q : q[k] = s[f[k]]

\* What is picked followed by what is not has all the elements of s.
LEMMA PickedApart ==
    ASSUME NEW X, NEW s \in Seq(X), NEW S
    PROVE  \E f : Rearranges(f, Picked(s, S) \o Picked(s, DOMAIN s \ S), s)
<1> DEFINE T == DOMAIN s \ S
           a == Picked(s, S)
           b == Picked(s, T)
           p == Places(S, Len(s))
           r == Places(T, Len(s))
           q == a \o b
           f == p \o r
<1>1. /\ a \in Seq(X) /\ p \in Seq(DOMAIN s) /\ Len(a) = Len(p)
      /\ \A k \in 1 .. Len(a) : p[k] \in S \cap DOMAIN s /\ a[k] = s[p[k]]
  BY PickedElements
<1>2. /\ b \in Seq(X) /\ r \in Seq(DOMAIN s) /\ Len(b) = Len(r)
      /\ \A k \in 1 .. Len(b) : r[k] \in T \cap DOMAIN s /\ b[k] = s[r[k]]
  BY PickedElements
<1>3. Enumerates(p, S, Len(s)) /\ Enumerates(r, T, Len(s)) /\ DOMAIN s = 1 .. Len(s) /\ Len(s) \in Nat
  BY PlacesEnumerate
<1>4. \A i \in DOMAIN s : i \in T <=> i \notin S
  OBVIOUS
<1> HIDE DEF T, a, b, p, r
<1> DEFINE la == Len(a)
           lb == Len(b)
<1>5. la \in Nat /\ lb \in Nat /\ Len(p) = la /\ Len(r) = lb
  BY <1>1, <1>2
<1>6. /\ q \in Seq(X) /\ DOMAIN q = 1 .. la + lb
      /\ \A k \in 1 .. la : q[k] = a[k]
      /\ \A k \in 1 .. lb : q[la + k] = b[k]
  <2>1. a \in Seq(X) /\ b \in Seq(X)
    BY <1>1, <1>2
  <2> QED
    BY <2>1
<1>7. /\ f \in Seq(DOMAIN s) /\ DOMAIN f = 1 .. la + lb
      /\ \A k \in 1 .. la : f[k] = p[k]
      /\ \A k \in 1 .. lb : f[la + k] = r[k]
  BY <1>1, <1>2
<1> HIDE DEF q, f, la, lb
<1>8. \A k \in 1 .. la : f[k] \in S /\ q[k] = s[f[k]]
  BY <1>1, <1>6, <1>7 DEF la
<1>9. \A k \in 1 .. lb : f[la + k] \in T /\ q[la + k] = s[f[la + k]]
  BY <1>2, <1>6, <1>7 DEF lb
<1>10. \A k \in 1 .. la + lb : k \in 1 .. la \/ \E m \in 1 .. lb : k = la + m
  <2> SUFFICES ASSUME NEW k \in 1 .. la + lb, k \notin 1 .. la PROVE \E m \in 1 .. lb : k = la + m
    OBVIOUS
  <2>1. k - la \in 1 .. lb /\ k = la + (k - la)
    BY <1>5
  <2> QED
    BY <2>1
<1>11. f \in [DOMAIN q -> DOMAIN s]
  BY <1>5, <1>6, <1>7
<1>12. ASSUME NEW k \in DOMAIN q PROVE q[k] = s[f[k]]
  BY <1>6, <1>8, <1>9, <1>10
<1>13. ASSUME NEW i \in DOMAIN s PROVE \E k \in DOMAIN q : f[k] = i
  <2>1. CASE i \in S
    <3>1. PICK k \in 1 .. la : p[k] = i
      BY <1>3, <1>5, <2>1 DEF Enumerates
    <3>2. k \in DOMAIN q /\ f[k] = i
      BY <1>5, <1>6, <1>7, <3>1
    <3> QED
      BY <3>2
  <2>2. CASE i \in T
    <3>1. PICK k \in 1 .. lb : r[k] = i
      BY <1>3, <1>5, <2>2 DEF Enumerates
    <3>2. la + k \in DOMAIN q /\ f[la + k] = i
      BY <1>5, <1>6, <1>7, <3>1
    <3> QED
      BY <3>2
  <2> QED
    BY <1>4, <2>1, <2>2
<1>14. ASSUME NEW j \in DOMAIN q, NEW k \in DOMAIN q, f[j] = f[k] PROVE j = k
  <2>1. \A x, y \in 1 .. la : x < y => p[x] < p[y]
    BY <1>3, <1>5 DEF Enumerates
  <2>2. \A x, y \in 1 .. lb : x < y => r[x] < r[y]
    BY <1>3, <1>5 DEF Enumerates
  <2>3. f[j] \in DOMAIN s /\ f[k] \in DOMAIN s
    BY <1>11
  <2>4. CASE j \in 1 .. la
    <3>1. k \in 1 .. la
      BY <1>4, <1>6, <1>8, <1>9, <1>10, <1>14, <2>3, <2>4
    <3>2. p[j] = p[k] /\ p[j] \in 1 .. Len(s)
      BY <1>3, <1>7, <1>14, <2>3, <2>4, <3>1
    <3> QED
      BY <2>1, <2>4, <3>1, <3>2, <1>3, <1>5
  <2>5. CASE j \notin 1 .. la
    <3>1. PICK x \in 1 .. lb : j = la + x
      BY <1>6, <1>10, <2>5
    <3>2. k \notin 1 .. la
      BY <1>4, <1>8, <1>9, <1>14, <2>3, <3>1
    <3>3. PICK y \in 1 .. lb : k = la + y
      BY <1>6, <1>10, <3>2
    <3>4. r[x] = r[y] /\ r[x] \in 1 .. Len(s)
      BY <1>3, <1>7, <1>14, <2>3, <3>1, <3>3
    <3> QED
      BY <2>2, <3>1, <3>3, <3>4, <1>3, <1>5
  <2> QED
    BY <2>4, <2>5
<1>15. Rearranges(f, q, s)
  BY <1>11, <1>12, <1>13, <1>14 DEF Rearranges
<1> QED
  BY <1>15 DEF q, a, b, T
=============================================================================
