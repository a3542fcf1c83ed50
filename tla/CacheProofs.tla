---------------------------- MODULE CacheProofs -----------------------------
(***************************************************************************)
(* The linked list of the embedding cache implements LRU.                  *)
(***************************************************************************)
EXTENDS EmbeddingCache, SubsequenceProofs, FiniteSetTheorems

Nodes == Texts \cup {None}
At(q, i) == IF i \in 1 .. Len(q) THEN q[i] ELSE None

\* The links of l are those of a list of the nodes q.
Lists(l, q) ==
    /\ q \in Seq(Texts)
    /\ \A i, j \in 1 .. Len(q) : q[i] = q[j] => i = j
    /\ l \in [head : Nodes, tail : Nodes, prev : [Texts -> Nodes], next : [Texts -> Nodes]]
    /\ l.head = At(q, 1) /\ l.tail = At(q, Len(q))
    /\ \A i \in 1 .. Len(q) : l.next[q[i]] = At(q, i + 1) /\ l.prev[q[i]] = At(q, i - 1)

\* There are at most as many nodes as texts.
LEMMA DistinctLen ==
    ASSUME NEW q \in Seq(Texts), \A i, j \in 1 .. Len(q) : q[i] = q[j] => i = j
    PROVE  /\ IsFiniteSet(Range(q)) /\ Cardinality(Range(q)) = Len(q)
           /\ Cardinality(Texts) \in Nat /\ Len(q) <= Cardinality(Texts)
<1>1. IsFiniteSet(Texts) /\ Cardinality(Texts) \in Nat
  BY CacheAssumption, FS_CardinalityType
<1>2. Len(q) \in Nat /\ DOMAIN q = 1 .. Len(q) /\ q \in [1 .. Len(q) -> Range(q)]
  BY DEF Range
<1>3. q \in Bijection(1 .. Len(q), Range(q))
  BY Zenon, <1>2 DEF Bijection, Injection, Surjection, IsInjective, Range
<1>4. ExistsBijection(1 .. Len(q), Range(q))
  BY Zenon, <1>3 DEF ExistsBijection
<1>5. Cardinality(Range(q)) = Len(q)
  BY <1>2, <1>4, FS_CountingElements
<1>6. Range(q) \in SUBSET Texts
  BY DEF Range
<1>7. IsFiniteSet(Range(q)) /\ Cardinality(Range(q)) <= Cardinality(Texts)
  BY <1>1, <1>6, FS_Subset
<1> QED
  BY <1>1, <1>5, <1>7

\* Following next from the head meets the nodes in their order.
LEMMA OrderIs ==
    ASSUME NEW q, Lists(list, q)
    PROVE  Embed!Order = q
<1> DEFINE N == Cardinality(Texts)
           after(k) == IF k = None THEN None ELSE list.next[k]
           Solution(f) == f = [n \in 1 .. N |-> IF n = 1 THEN list.head ELSE after(f[n - 1])]
           g == [n \in 1 .. N |-> At(q, n)]
           met(f) == [n \in {m \in 1 .. N : f[m] # None} |-> f[n]]
<1>1. q \in Seq(Texts) /\ Len(q) \in Nat /\ N \in Nat /\ Len(q) <= N
  BY DistinctLen DEF Lists
<1>2. \A i \in 1 .. Len(q) : q[i] \in Texts /\ q[i] # None
  BY <1>1, CacheAssumption
<1>3. Embed!Order = met(CHOOSE f : Solution(f))
  BY Zenon DEF Embed!Order, Embed!N, Embed!Cardinality, Cardinality, Embed!IsFiniteSet, IsFiniteSet
<1> HIDE DEF N
<1>4. ASSUME NEW n \in 2 .. N PROVE g[n] = after(g[n - 1])
  <2>1. n - 1 \in 1 .. N /\ g[n] = At(q, n) /\ g[n - 1] = At(q, n - 1)
    BY <1>1
  <2>2. CASE n - 1 \in 1 .. Len(q)
    <3>1. g[n - 1] = q[n - 1] /\ g[n - 1] # None
      BY Zenon, <1>2, <2>1, <2>2 DEF At
    <3>2. list.next[q[n - 1]] = At(q, (n - 1) + 1) /\ (n - 1) + 1 = n
      BY <1>1, <2>2 DEF Lists
    <3> QED
      BY <2>1, <3>1, <3>2
  <2>3. CASE n - 1 \notin 1 .. Len(q)
    BY <1>1, <2>1, <2>3 DEF At
  <2> QED
    BY <2>2, <2>3
<1>5. N >= 1 => g[1] = list.head
  BY <1>1 DEF Lists
<1>6. Solution(g)
  <2> SUFFICES ASSUME NEW n \in 1 .. N PROVE g[n] = IF n = 1 THEN list.head ELSE after(g[n - 1])
    OBVIOUS
  <2>1. n = 1 \/ n \in 2 .. N
    BY SMTT(30), <1>1
  <2> HIDE DEF g, after
  <2> QED
    BY <1>1, <1>4, <1>5, <2>1
<1> DEFINE f == CHOOSE f : Solution(f)
<1>7. Solution(f)
  BY Zenon, <1>6
<1> HIDE DEF f
<1>8. /\ N >= 1 => f[1] = list.head
      /\ \A n \in 2 .. N : f[n] = after(f[n - 1])
  BY <1>1, <1>7
<1> HIDE DEF Solution, after
<1>9. \A n \in 1 .. N : f[n] = At(q, n)
  <2> DEFINE I == {m \in Nat : m + 1 \in 1 .. N => f[m + 1] = g[m + 1]}
  <2> HIDE DEF g
  <2>1. 0 \in I
    BY <1>5, <1>8
  <2>2. ASSUME NEW m \in Nat, m \in I PROVE m + 1 \in I
    <3> SUFFICES ASSUME (m + 1) + 1 \in 1 .. N PROVE f[(m + 1) + 1] = g[(m + 1) + 1]
      OBVIOUS
    <3> DEFINE n == (m + 1) + 1
    <3>1. n \in 2 .. N /\ n - 1 = m + 1 /\ m + 1 \in 1 .. N
      BY <1>1
    <3>2. f[n] = after(f[n - 1]) /\ g[n] = after(g[n - 1]) /\ f[m + 1] = g[m + 1]
      BY <1>4, <1>8, <2>2, <3>1
    <3> QED
      BY <3>1, <3>2
  <2> HIDE DEF I
  <2>3. \A m \in Nat : m \in I
    BY <2>1, <2>2, SetInduction
  <2>4. \A n \in 1 .. N : f[n] = g[n]
    <3> SUFFICES ASSUME NEW n \in 1 .. N PROVE f[n] = g[n]
      OBVIOUS
    <3>1. n - 1 \in Nat /\ (n - 1) + 1 = n
      BY <1>1
    <3> QED
      BY Zenon, <2>3, <3>1 DEF I
  <2> QED
    BY Zenon, <2>4 DEF g
<1>10. {m \in 1 .. N : f[m] # None} = 1 .. Len(q)
  BY <1>1, <1>2, <1>9 DEF At
<1>11. \A n \in 1 .. Len(q) : f[n] = q[n]
  BY <1>1, <1>9 DEF At
<1>12. met(f) = [n \in 1 .. Len(q) |-> q[n]]
  BY <1>10, <1>11
<1>13. q = [n \in 1 .. Len(q) |-> q[n]]
  BY <1>1
<1> QED
  BY Zenon, <1>3, <1>12, <1>13 DEF f

\* q without its element j, and with k before all others.
Drop(q, j) == [i \in 1 .. Len(q) - 1 |-> IF i < j THEN q[i] ELSE q[i + 1]]
Distinct(q) == \A i, j \in 1 .. Len(q) : q[i] = q[j] => i = j

LEMMA Dropped ==
    ASSUME NEW q \in Seq(Texts), Distinct(q), NEW j \in 1 .. Len(q)
    PROVE  /\ Drop(q, j) \in Seq(Texts) /\ Len(Drop(q, j)) = Len(q) - 1
           /\ Distinct(Drop(q, j))
           /\ \A i \in 1 .. Len(q) - 1 : Drop(q, j)[i] = IF i < j THEN q[i] ELSE q[i + 1]
           /\ \A i \in 1 .. Len(q) - 1 : Drop(q, j)[i] # q[j]
           /\ Range(Drop(q, j)) = Range(q) \ {q[j]}
<1> DEFINE d == Drop(q, j)
           n == Len(q) - 1
<1>1. n \in Nat /\ Len(q) = n + 1 /\ Len(q) \in Nat /\ DOMAIN q = 1 .. n + 1
  OBVIOUS
<1>2. DOMAIN d = 1 .. n /\ \A i \in 1 .. n : d[i] = IF i < j THEN q[i] ELSE q[i + 1]
  BY Zenon DEF Drop
<1>3. \A i \in 1 .. n : i \in 1 .. Len(q) /\ i + 1 \in 1 .. Len(q)
  BY <1>1
<1>4. d \in [1 .. n -> Texts]
  BY <1>1, <1>3 DEF Drop
<1> HIDE DEF d
<1>5. d \in Seq(Texts) /\ Len(d) = n
  <2> HIDE DEF n
  <2> QED
    BY <1>1, <1>4
<1>6. Distinct(d)
  BY SMTT(30), <1>1, <1>2, <1>3, <1>5 DEF Distinct
<1>7. \A i \in 1 .. n : d[i] # q[j]
  BY <1>1, <1>2, <1>3 DEF Distinct
<1>8. Range(d) = Range(q) \ {q[j]}
  <2>1. ASSUME NEW i \in 1 .. n PROVE d[i] \in Range(q) \ {q[j]}
    BY Zenon, <1>1, <1>2, <1>3, <1>7 DEF Range
  <2>2. ASSUME NEW i \in 1 .. n + 1, q[i] # q[j] PROVE \E m \in 1 .. n : d[m] = q[i]
    <3>1. i < j \/ i > j
      BY <1>1, <2>2
    <3>2. CASE i < j
      <4>1. i \in 1 .. n /\ d[i] = q[i]
        BY <1>1, <1>2, <3>2
      <4> QED
        BY <4>1
    <3>3. CASE i > j
      <4>1. i - 1 \in 1 .. n /\ (i - 1) + 1 = i /\ ~(i - 1 < j)
        BY <1>1, <3>3
      <4>2. d[i - 1] = q[i]
        BY <1>2, <4>1
      <4> QED
        BY <4>1, <4>2
    <3> QED
      BY <3>1, <3>2, <3>3
  <2>3. Range(d) \subseteq Range(q) \ {q[j]}
    BY Zenon, <1>2, <2>1 DEF Range
  <2>4. ASSUME NEW x \in Range(q), x # q[j] PROVE x \in Range(d)
    <3>1. PICK i \in 1 .. n + 1 : q[i] = x
      BY Zenon, <1>1 DEF Range
    <3>2. PICK m \in 1 .. n : d[m] = q[i]
      BY Zenon, <2>2, <2>4, <3>1
    <3> QED
      BY Zenon, <1>2, <3>1, <3>2 DEF Range
  <2> QED
    BY <2>3, <2>4
<1> QED
  BY Zenon, <1>2, <1>5, <1>6, <1>7, <1>8 DEF d

LEMMA Fronted ==
    ASSUME NEW q \in Seq(Texts), Distinct(q), NEW k \in Texts, k \notin Range(q)
    PROVE  /\ <<k>> \o q \in Seq(Texts) /\ Len(<<k>> \o q) = Len(q) + 1
           /\ Distinct(<<k>> \o q)
           /\ (<<k>> \o q)[1] = k
           /\ \A i \in 1 .. Len(q) : (<<k>> \o q)[i + 1] = q[i]
           /\ Range(<<k>> \o q) = Range(q) \cup {k}
<1> DEFINE f == <<k>> \o q
<1>1. f \in Seq(Texts) /\ Len(f) = Len(q) + 1 /\ Len(q) \in Nat
  OBVIOUS
<1>2. f[1] = k
  OBVIOUS
<1>3. \A i \in 1 .. Len(q) : f[i + 1] = q[i]
  OBVIOUS
<1> HIDE DEF f
<1>4. \A i \in 1 .. Len(f) : i = 1 \/ (i - 1 \in 1 .. Len(q) /\ f[i] = q[i - 1])
  <2> SUFFICES ASSUME NEW i \in 1 .. Len(f), i # 1 PROVE i - 1 \in 1 .. Len(q) /\ f[i] = q[i - 1]
    OBVIOUS
  <2>1. i - 1 \in 1 .. Len(q) /\ (i - 1) + 1 = i
    BY <1>1
  <2> QED
    BY <1>3, <2>1
<1>5. \A i \in 1 .. Len(q) : q[i] # k
  BY DEF Range
<1>6. Distinct(f)
  <2> SUFFICES ASSUME NEW i \in 1 .. Len(f), NEW j \in 1 .. Len(f), f[i] = f[j]
               PROVE  i = j
    BY Zenon DEF Distinct
  <2>1. CASE i = 1 \/ j = 1
    BY <1>2, <1>4, <1>5, <2>1
  <2>2. CASE i # 1 /\ j # 1
    <3>1. i - 1 \in 1 .. Len(q) /\ j - 1 \in 1 .. Len(q) /\ q[i - 1] = q[j - 1]
      BY <1>4, <2>2
    <3>2. i - 1 = j - 1
      BY Zenon, <3>1 DEF Distinct
    <3> QED
      BY <3>2
  <2> QED
    BY <2>1, <2>2
<1>7. Range(f) = Range(q) \cup {k}
  <2>1. DOMAIN f = 1 .. Len(q) + 1 /\ DOMAIN q = 1 .. Len(q)
    BY <1>1
  <2>2. \A i \in 1 .. Len(q) : i + 1 \in DOMAIN f /\ f[i + 1] = q[i]
    BY <1>1, <1>3, <2>1
  <2>3. 1 \in DOMAIN f
    BY <1>1, <2>1
  <2>4. ASSUME NEW x \in Range(f) PROVE x \in Range(q) \cup {k}
    <3>1. PICK i \in 1 .. Len(f) : f[i] = x
      BY Zenon, <1>1, <2>1 DEF Range
    <3>2. CASE i = 1
      BY <1>2, <3>1, <3>2
    <3>3. CASE i # 1
      BY Zenon, <1>4, <2>1, <3>1, <3>3 DEF Range
    <3> QED
      BY <3>2, <3>3
  <2>5. k \in Range(f)
    BY Zenon, <1>2, <2>3 DEF Range
  <2>6. \A x \in Range(q) : x \in Range(f)
    BY Zenon, <2>1, <2>2 DEF Range
  <2> QED
    BY <2>4, <2>5, <2>6
<1> QED
  BY Zenon, <1>1, <1>2, <1>3, <1>6, <1>7 DEF f

LEMMA ListsElements ==
    ASSUME NEW l, NEW q, Lists(l, q)
    PROVE  /\ q \in Seq(Texts) /\ Distinct(q) /\ Len(q) \in Nat
           /\ \A i \in 1 .. Len(q) : q[i] \in Texts /\ q[i] # None
           /\ DOMAIN l.next = Texts /\ DOMAIN l.prev = Texts
           /\ l.head \in Nodes /\ l.tail \in Nodes
           /\ \A k \in Texts : l.next[k] \in Nodes /\ l.prev[k] \in Nodes
BY CacheAssumption DEF Lists, Distinct

\* Unlinking a node.
LEMMA Removed ==
    ASSUME NEW l, NEW q, Lists(l, q), NEW j \in 1 .. Len(q)
    PROVE  Lists(Embed!Freed(Embed!removeNode(l, q[j]), q[j]), Drop(q, j))
<1> DEFINE k == q[j]
           d == Drop(q, j)
           n == Len(q) - 1
           m == Embed!Freed(Embed!removeNode(l, k), k)
<1>1. /\ q \in Seq(Texts) /\ Distinct(q) /\ Len(q) \in Nat
      /\ \A i \in 1 .. Len(q) : q[i] \in Texts /\ q[i] # None
      /\ DOMAIN l.next = Texts /\ DOMAIN l.prev = Texts
      /\ l.head \in Nodes /\ l.tail \in Nodes
      /\ \A x \in Texts : l.next[x] \in Nodes /\ l.prev[x] \in Nodes
  BY ListsElements
<1>2. n \in Nat /\ Len(q) = n + 1
  BY <1>1
<1>3. /\ d \in Seq(Texts) /\ Len(d) = n /\ Distinct(d)
      /\ \A i \in 1 .. n : d[i] = IF i < j THEN q[i] ELSE q[i + 1]
      /\ \A i \in 1 .. n : d[i] # k
  BY <1>1, Dropped
<1>4. k \in Texts /\ k # None /\ l.next[k] = At(q, j + 1) /\ l.prev[k] = At(q, j - 1)
  BY Zenon, <1>1 DEF Lists
<1>5. \A x \in Texts : m.next[x] = IF x = k THEN None
                                   ELSE IF x = l.prev[k] THEN l.next[k] ELSE l.next[x]
  BY Zenon, <1>1, <1>4, CacheAssumption DEF Embed!Freed, Embed!removeNode, Embed!Set, Nodes
<1>6. \A x \in Texts : m.prev[x] = IF x = k THEN None
                                   ELSE IF x = l.next[k] THEN l.prev[k] ELSE l.prev[x]
  BY Zenon, <1>1, <1>4, CacheAssumption DEF Embed!Freed, Embed!removeNode, Embed!Set, Nodes
<1>7. /\ m.head = IF l.prev[k] = None THEN l.next[k] ELSE l.head
      /\ m.tail = IF l.next[k] = None THEN l.prev[k] ELSE l.tail
  BY Zenon DEF Embed!Freed, Embed!removeNode
<1>8. m \in [head : Nodes, tail : Nodes, prev : [Texts -> Nodes], next : [Texts -> Nodes]]
  <2>1. Embed!removeNode(l, k) \in
            [head : Nodes, tail : Nodes, prev : [Texts -> Nodes], next : [Texts -> Nodes]]
    BY Zenon, <1>1, <1>4 DEF Lists, Embed!removeNode, Embed!Set, Nodes
  <2> QED
    BY Zenon, <2>1 DEF Embed!Freed, Nodes
<1> HIDE DEF m, d, n, k
<1>9. /\ At(q, j - 1) = IF j = 1 THEN None ELSE q[j - 1]
      /\ At(q, j + 1) = IF j = Len(q) THEN None ELSE q[j + 1]
      /\ l.head = q[1] /\ l.tail = q[Len(q)]
  BY <1>1, <1>2 DEF At, Lists
<1>10. \A i \in Int : At(d, i) = IF i < j THEN (IF i = 0 THEN None ELSE At(q, i)) ELSE At(q, i + 1)
  BY SMTT(30), <1>2, <1>3 DEF At
<1>11. m.head = At(d, 1)
  BY SMTT(30), <1>1, <1>2, <1>3, <1>4, <1>7, <1>9 DEF At
<1>12. m.tail = At(d, Len(d))
  BY SMTT(30), <1>1, <1>2, <1>3, <1>4, <1>7, <1>9 DEF At
<1>13. ASSUME NEW i \in 1 .. n
       PROVE  m.next[d[i]] = At(d, i + 1) /\ m.prev[d[i]] = At(d, i - 1)
  <2>1. d[i] \in Texts /\ d[i] # k
    BY <1>3
  <2>2. \A a, b \in 1 .. Len(q) : q[a] = q[b] => a = b
    BY Zenon, <1>1 DEF Distinct
  <2>3. \A a \in 1 .. Len(q) : l.next[q[a]] = At(q, a + 1) /\ l.prev[q[a]] = At(q, a - 1)
    BY Zenon DEF Lists
  <2>4. CASE i < j
    <3>1. i \in 1 .. Len(q) /\ d[i] = q[i] /\ i - 1 < j /\ At(d, i - 1) = At(q, i - 1)
      BY SMTT(30), <1>2, <1>3, <1>10, <2>4 DEF At
    <3>2. q[i] # l.next[k]
      BY SMTT(30), <1>1, <1>2, <1>4, <1>9, <2>2, <2>4, <3>1
    <3>3. m.prev[d[i]] = At(d, i - 1)
      BY Zenon, <1>6, <2>1, <2>3, <3>1, <3>2
    <3>4. CASE i = j - 1
      <4>1. q[i] = l.prev[k] /\ At(d, i + 1) = At(q, j + 1)
        BY SMTT(30), <1>1, <1>2, <1>4, <1>9, <1>10, <3>1, <3>4
      <4> QED
        BY Zenon, <1>4, <1>5, <2>1, <3>1, <3>3, <4>1
    <3>5. CASE i # j - 1
      <4>1. q[i] # l.prev[k]
        BY <1>1, <1>2, <1>4, <1>9, <2>2, <3>1, <3>5
      <4>2. At(d, i + 1) = At(q, i + 1)
        BY <1>10, <2>4, <3>5
      <4> QED
        BY ZenonT(40), <1>5, <2>1, <2>3, <3>1, <3>3, <4>1, <4>2
    <3> QED
      BY <3>4, <3>5
  <2>5. CASE ~(i < j)
    <3> DEFINE h == i + 1
    <3>1. /\ h \in 1 .. Len(q) /\ h \in Nat /\ h > j /\ h - 1 = i /\ d[i] = q[h]
          /\ At(d, i + 1) = At(q, h + 1)
      BY SMTT(30), <1>2, <1>3, <1>10, <2>5
    <3>2. j # 1 => j - 1 \in 1 .. Len(q) /\ j - 1 # h
      BY <3>1
    <3>3. j # Len(q) => j + 1 \in 1 .. Len(q)
      BY <1>1
    <3>4. At(q, h - 1) = At(q, i) /\ (i = j => h = j + 1 /\ j # Len(q)) /\ (i # j => h # j + 1)
      BY <1>1, <3>1
    <3>5. i = j => At(d, i - 1) = At(q, j - 1)
      BY SMTT(30), <1>10 DEF At
    <3>6. i # j => At(d, i - 1) = At(q, i)
      BY SMTT(30), <1>10, <2>5
    <3> HIDE DEF h
    <3>7. q[h] # l.prev[k]
      BY SMTT(30), <1>1, <1>4, <1>9, <2>2, <3>1, <3>2
    <3>8. m.next[d[i]] = At(d, i + 1)
      BY Zenon, <1>5, <2>1, <2>3, <3>1, <3>7
    <3>9. CASE i = j
      <4>1. q[h] = l.next[k]
        BY Zenon, <1>4, <1>9, <3>4, <3>9
      <4> QED
        BY Zenon, <1>4, <1>6, <2>1, <3>1, <3>5, <3>8, <3>9, <4>1
    <3>10. CASE i # j
      <4>1. q[h] # l.next[k]
        BY SMTT(30), <1>1, <1>4, <1>9, <2>2, <3>1, <3>3, <3>4, <3>10
      <4> QED
        BY Zenon, <1>6, <2>1, <2>3, <3>1, <3>4, <3>6, <3>8, <3>10, <4>1
    <3> QED
      BY <3>9, <3>10
  <2> QED
    BY <2>4, <2>5
<1>14. Lists(m, d)
  BY Zenon, <1>3, <1>8, <1>11, <1>12, <1>13 DEF Lists, Distinct
<1> QED
  BY Zenon, <1>14 DEF m, d, k

\* Linking a node before the others.
LEMMA Pushed ==
    ASSUME NEW l, NEW q, Lists(l, q), NEW k \in Texts, k \notin Range(q)
    PROVE  Lists(Embed!pushFront(l, k), <<k>> \o q)
<1> DEFINE f == <<k>> \o q
           m == Embed!pushFront(l, k)
<1>1. /\ q \in Seq(Texts) /\ Distinct(q) /\ Len(q) \in Nat
      /\ \A i \in 1 .. Len(q) : q[i] \in Texts /\ q[i] # None
      /\ DOMAIN l.next = Texts /\ DOMAIN l.prev = Texts
      /\ l.head \in Nodes /\ l.tail \in Nodes
      /\ \A x \in Texts : l.next[x] \in Nodes /\ l.prev[x] \in Nodes
  BY ListsElements
<1>2. /\ f \in Seq(Texts) /\ Len(f) = Len(q) + 1 /\ Distinct(f) /\ f[1] = k
      /\ \A i \in 1 .. Len(q) : f[i + 1] = q[i]
  BY <1>1, Fronted
<1>3. k # None /\ \A i \in 1 .. Len(q) : q[i] # k
  BY <1>1, CacheAssumption DEF Range
<1>4. \A x \in Texts : m.next[x] = IF x = k THEN l.head ELSE l.next[x]
  BY Zenon, <1>1, <1>3 DEF Embed!pushFront, Embed!Set
<1>5. l.head # k
  BY Zenon, <1>1, <1>3 DEF Lists, At
<1>6. \A x \in Texts : m.prev[x] = IF x = k THEN None
                                   ELSE IF x = l.head THEN k ELSE l.prev[x]
  BY Zenon, <1>1, <1>3, <1>5, CacheAssumption DEF Embed!pushFront, Embed!Set, Nodes
<1>7. m.head = k /\ m.tail = IF l.head = None THEN k ELSE l.tail
  BY Zenon DEF Embed!pushFront
<1>8. m \in [head : Nodes, tail : Nodes, prev : [Texts -> Nodes], next : [Texts -> Nodes]]
  BY Zenon, <1>1, <1>3 DEF Lists, Embed!pushFront, Embed!Set, Nodes
<1> HIDE DEF m, f
<1>9. \A i \in 1 .. Len(f) : i = 1 \/ (i - 1 \in 1 .. Len(q) /\ f[i] = q[i - 1])
  <2> SUFFICES ASSUME NEW i \in 1 .. Len(f), i # 1 PROVE i - 1 \in 1 .. Len(q) /\ f[i] = q[i - 1]
    OBVIOUS
  <2>1. i - 1 \in 1 .. Len(q) /\ (i - 1) + 1 = i
    BY <1>1, <1>2
  <2> QED
    BY <1>2, <2>1
<1>10. \A i \in Int : At(f, i + 1) = IF i = 0 THEN k ELSE At(q, i)
  <2> SUFFICES ASSUME NEW i \in Int PROVE At(f, i + 1) = IF i = 0 THEN k ELSE At(q, i)
    OBVIOUS
  <2>1. i + 1 \in 1 .. Len(f) <=> i = 0 \/ i \in 1 .. Len(q)
    BY <1>1, <1>2
  <2> QED
    BY <1>1, <1>2, <2>1 DEF At
<1>11. l.head = At(q, 1) /\ l.tail = At(q, Len(q))
       /\ \A i \in 1 .. Len(q) : l.next[q[i]] = At(q, i + 1) /\ l.prev[q[i]] = At(q, i - 1)
  BY Zenon DEF Lists
<1>12. m.head = At(f, 1)
  BY <1>1, <1>2, <1>7 DEF At
<1>13. m.tail = At(f, Len(f))
  <2>1. CASE Len(q) = 0
    <3>1. l.head = None /\ Len(f) = 1
      BY SMTT(30), <1>1, <1>2, <1>11, <2>1 DEF At
    <3> QED
      BY Zenon, <1>7, <1>12, <3>1
  <2>2. CASE Len(q) # 0
    <3>1. l.head # None /\ At(f, Len(q) + 1) = At(q, Len(q))
      BY SMTT(30), <1>1, <1>10, <1>11, <2>2 DEF At
    <3> QED
      BY Zenon, <1>2, <1>7, <1>11, <3>1
  <2> QED
    BY <2>1, <2>2
<1>14. m.next[f[1]] = At(f, 2) /\ m.prev[f[1]] = At(f, 0)
  <2>1. At(f, 1 + 1) = At(q, 1) /\ At(f, 0) = None /\ 1 + 1 = 2
    BY <1>10 DEF At
  <2> QED
    BY Zenon, <1>2, <1>4, <1>6, <1>11, <2>1
<1>15. ASSUME NEW i \in 1 .. Len(q)
       PROVE  m.next[q[i]] = At(f, i + 2) /\ m.prev[q[i]] = At(f, i)
  <2>1. q[i] \in Texts /\ q[i] # k
    BY <1>1, <1>3
  <2>2. At(f, (i + 1) + 1) = At(q, i + 1) /\ (i + 1) + 1 = i + 2
    BY <1>1, <1>10
  <2>3. m.next[q[i]] = At(f, i + 2)
    BY Zenon, <1>4, <1>11, <2>1, <2>2
  <2>4. q[i] = l.head <=> i = 1
    BY Zenon, <1>1, <1>11 DEF At, Distinct
  <2>5. At(f, (i - 1) + 1) = (IF i = 1 THEN k ELSE At(q, i - 1)) /\ (i - 1) + 1 = i
    <3> DEFINE h == i - 1
    <3>1. h \in Int /\ (h = 0 <=> i = 1) /\ h + 1 = i
      BY <1>1
    <3> HIDE DEF h
    <3>2. At(f, h + 1) = IF h = 0 THEN k ELSE At(q, h)
      BY Zenon, <1>10, <3>1
    <3>3. At(f, h + 1) = IF i = 1 THEN k ELSE At(q, h)
      BY <3>1, <3>2
    <3> QED
      BY Zenon, <3>1, <3>3 DEF h
  <2>6. m.prev[q[i]] = IF i = 1 THEN k ELSE At(q, i - 1)
    BY Zenon, <1>6, <1>11, <2>1, <2>4
  <2> QED
    BY <2>3, <2>5, <2>6
<1>16. ASSUME NEW i \in 1 .. Len(f)
       PROVE  m.next[f[i]] = At(f, i + 1) /\ m.prev[f[i]] = At(f, i - 1)
  <2>1. CASE i = 1
    BY <1>14, <2>1
  <2>2. CASE i # 1
    <3>1. i - 1 \in 1 .. Len(q) /\ f[i] = q[i - 1] /\ (i - 1) + 2 = i + 1
      BY SMTT(30), <1>1, <1>2, <1>9, <2>2
    <3> QED
      BY <1>15, <3>1
  <2> QED
    BY <2>1, <2>2
<1>17. Lists(m, f)
  BY Zenon, <1>2, <1>8, <1>12, <1>13, <1>16 DEF Lists, Distinct
<1> QED
  BY Zenon, <1>17 DEF m, f

\* removeTail unlinks the last node.
LEMMA TailRemoved ==
    ASSUME NEW l, NEW q, Lists(l, q), Len(q) # 0
    PROVE  /\ l.tail = q[Len(q)]
           /\ Lists(Embed!Freed(Embed!removeTail(l), l.tail), Drop(q, Len(q)))
<1> DEFINE k == q[Len(q)]
<1>1. /\ q \in Seq(Texts) /\ Len(q) \in Nat
      /\ \A i \in 1 .. Len(q) : q[i] \in Texts /\ q[i] # None
  BY ListsElements
<1>2. Len(q) \in 1 .. Len(q) /\ Len(q) + 1 \notin 1 .. Len(q)
  BY <1>1
<1>3. l.tail = k /\ l.next[k] = None /\ k # None
  BY Zenon, <1>1, <1>2 DEF Lists, At
<1>4. l \in [head : Nodes, tail : Nodes, prev : [Texts -> Nodes], next : [Texts -> Nodes]]
  BY Zenon DEF Lists
<1>5. Embed!removeTail(l) = Embed!removeNode(l, k)
  <2> HIDE DEF k
  <2> DEFINE h == IF l.prev[k] = None THEN None ELSE l.head
             x == Embed!Set(l.next, l.prev[k], None)
  <2>1. Embed!removeTail(l) = [head |-> h, tail |-> l.prev[k], prev |-> l.prev, next |-> x]
    <3> DEFINE t == Embed!removeTail(l)
    <3>1. h \in Nodes /\ l.prev[k] \in Nodes /\ x \in [Texts -> Nodes]
      BY Zenon, <1>1, <1>2, <1>4 DEF Embed!Set, Nodes, k
    <3>2. t \in [head : Nodes, tail : Nodes, prev : [Texts -> Nodes], next : [Texts -> Nodes]]
      BY Zenon, <1>3, <1>4, <3>1 DEF Embed!removeTail
    <3>3. t.head = h /\ t.tail = l.prev[k] /\ t.prev = l.prev /\ t.next = x
      BY Zenon, <1>3, <1>4 DEF Embed!removeTail
    <3> HIDE DEF t
    <3>4. t = [head |-> t.head, tail |-> t.tail, prev |-> t.prev, next |-> t.next]
      BY <3>2
    <3>5. t = [head |-> h, tail |-> l.prev[k], prev |-> l.prev, next |-> x]
      BY <3>3, <3>4
    <3> QED
      BY Zenon, <3>5 DEF t
  <2>2. Embed!Set(l.prev, l.next[k], l.prev[k]) = l.prev
    BY Zenon, <1>3 DEF Embed!Set
  <2>3. Embed!removeNode(l, k) = [head |-> h, tail |-> l.prev[k], prev |-> l.prev, next |-> x]
    BY Zenon, <1>3, <2>2 DEF Embed!removeNode
  <2> QED
    BY SMTT(30), <2>1, <2>3
<1> QED
  BY <1>2, <1>3, <1>5, Removed

\* moveToFront unlinks a node and links it before the others.
LEMMA Moved ==
    ASSUME NEW l, NEW q, Lists(l, q), NEW j \in 1 .. Len(q)
    PROVE  Lists(Embed!moveToFront(l, q[j]), <<q[j]>> \o Drop(q, j))
<1> DEFINE k == q[j]
           d == Drop(q, j)
           m == Embed!Freed(Embed!removeNode(l, k), k)
<1>1. /\ q \in Seq(Texts) /\ Distinct(q) /\ Len(q) \in Nat
      /\ \A i \in 1 .. Len(q) : q[i] \in Texts /\ q[i] # None
      /\ DOMAIN l.next = Texts /\ DOMAIN l.prev = Texts
      /\ l.head \in Nodes /\ l.tail \in Nodes
      /\ \A x \in Texts : l.next[x] \in Nodes /\ l.prev[x] \in Nodes
  BY ListsElements
<1>2. Lists(m, d)
  BY Removed
<1>3. /\ d \in Seq(Texts) /\ Len(d) = Len(q) - 1 /\ Distinct(d) /\ Range(d) = Range(q) \ {k}
      /\ \A i \in 1 .. Len(q) - 1 : d[i] = IF i < j THEN q[i] ELSE q[i + 1]
  BY Zenon, <1>1, Dropped
<1>4. Lists(Embed!pushFront(m, k), <<k>> \o d)
  BY <1>1, <1>2, <1>3, Pushed
<1>5. /\ l.head = q[1] /\ l.tail = q[Len(q)]
      /\ l.next[k] = At(q, j + 1) /\ l.prev[k] = At(q, j - 1) /\ k \in Texts /\ k # None
  BY <1>1 DEF Lists, At
<1>6. CASE j = 1
  <2>1. Embed!moveToFront(l, k) = l
    BY Zenon, <1>5, <1>6 DEF Embed!moveToFront
  <2>2. <<k>> \o d = q
    <3>1. /\ <<k>> \o d \in Seq(Texts) /\ Len(<<k>> \o d) = Len(d) + 1
          /\ (<<k>> \o d)[1] = k /\ \A i \in 1 .. Len(d) : (<<k>> \o d)[i + 1] = d[i]
      BY <1>3, <1>5, Fronted
    <3> DEFINE g == <<k>> \o d
    <3> HIDE DEF g, d
    <3>2. Len(g) = Len(q)
      BY <1>1, <1>3, <3>1 DEF g
    <3>3. ASSUME NEW i \in 1 .. Len(q) PROVE g[i] = q[i]
      <4>1. CASE i = 1
        BY Zenon, <1>6, <3>1, <4>1 DEF g
      <4>2. CASE i # 1
        <5>1. i - 1 \in 1 .. Len(d) /\ (i - 1) + 1 = i /\ i - 1 \in 1 .. Len(q) - 1 /\ ~(i - 1 < j)
          BY <1>1, <1>3, <1>6, <4>2
        <5> QED
          BY Zenon, <1>3, <3>1, <5>1 DEF g
      <4> QED
        BY <4>1, <4>2
    <3>4. g \in Seq(Texts)
      BY Zenon, <3>1 DEF g
    <3>5. g = q
      BY SMTT(30), <1>1, <3>2, <3>3, <3>4
    <3> QED
      BY Zenon, <3>5 DEF g
  <2> QED
    BY Zenon, <2>1, <2>2
<1>7. CASE j # 1
  <2>1. 1 \in 1 .. Len(q) /\ j - 1 \in 1 .. Len(q) /\ Len(q) \in 1 .. Len(q)
    BY <1>1, <1>7
  <2>2. l.head # k /\ l.head # None /\ l.prev[k] # None
    BY Zenon, <1>1, <1>5, <1>7, <2>1 DEF At, Distinct
  <2>3. l.next[k] = None <=> k = l.tail
    BY <1>1, <1>5, <2>1 DEF At, Distinct
  <2>4. l \in [head : Nodes, tail : Nodes, prev : [Texts -> Nodes], next : [Texts -> Nodes]]
    BY Zenon DEF Lists
  <2>5. /\ m.head = l.head /\ m.tail = IF k = l.tail THEN l.prev[k] ELSE l.tail
        /\ m.prev = [Embed!Set(l.prev, l.next[k], l.prev[k]) EXCEPT ![k] = None]
        /\ m.next = [Embed!Set(l.next, l.prev[k], l.next[k]) EXCEPT ![k] = None]
    <3> HIDE DEF k
    <3> QED
      BY Zenon, <2>2, <2>3 DEF Embed!Freed, Embed!removeNode
  <2> DEFINE P == Embed!Set(l.prev, l.next[k], l.prev[k])
             X == Embed!Set(l.next, l.prev[k], l.next[k])
  <2>6. DOMAIN P = Texts /\ DOMAIN X = Texts
    BY Zenon, <1>1 DEF Embed!Set
  <2> HIDE DEF m, k, P, X
  <2>7. Embed!pushFront(m, k) =
           [head |-> k, tail |-> m.tail,
            prev |-> Embed!Set(Embed!Set(m.prev, k, None), l.head, k),
            next |-> Embed!Set(m.next, k, l.head)]
    BY Zenon, <2>2, <2>5 DEF Embed!pushFront
  <2>8. Embed!moveToFront(l, k) =
           [head |-> k, tail |-> m.tail,
            prev |-> Embed!Set(Embed!Set(P, k, None), l.head, k),
            next |-> Embed!Set(X, k, l.head)]
    BY Zenon, <2>2, <2>5 DEF Embed!moveToFront, Embed!NewTail, P, X
  <2>9. Embed!Set(m.prev, k, None) = Embed!Set(P, k, None)
    BY Zenon, <1>5, <2>5, <2>6 DEF Embed!Set, P
  <2>10. Embed!Set(m.next, k, l.head) = Embed!Set(X, k, l.head)
    BY Zenon, <1>5, <2>5, <2>6 DEF Embed!Set, X
  <2>11. Embed!moveToFront(l, k) = Embed!pushFront(m, k)
    BY <2>7, <2>8, <2>9, <2>10
  <2> QED
    BY Zenon, <1>4, <2>11 DEF k
<1> QED
  BY <1>6, <1>7

-----------------------------------------------------------------------------
(* The abstract cache, on the nodes of the list *)

LEMMA OrderOf == \A q : Lists(list, q) => Embed!Order = q
BY OrderIs

LEMMA OrderNext == \A q : Lists(list', q) => Embed!Order' = q
<1>1. (\A q : Lists(list, q) => Embed!Order = q)'
  BY OrderOf, PTL
<1> QED
  BY <1>1

LEMMA WithoutIs ==
    ASSUME NEW q \in Seq(Texts), Distinct(q), Embed!Order = q
    PROVE  /\ \A j \in 1 .. Len(q) : Cache!Without(q[j]) = Drop(q, j)
           /\ \A k : k \notin Range(q) => Cache!Without(k) = q
<1>1. DOMAIN q = 1 .. Len(q)
  OBVIOUS
<1>2. ASSUME NEW j \in 1 .. Len(q) PROVE Cache!Without(q[j]) = Drop(q, j)
  <2>1. q[j] \in Range(q)
    BY Zenon, <1>1 DEF Range
  <2>2. (CHOOSE i \in DOMAIN q : q[i] = q[j]) = j
    BY Zenon, <1>1 DEF Distinct
  <2> QED
    BY Zenon, <2>1, <2>2 DEF Cache!Without, Cache!Range, Range, Drop
<1>3. ASSUME NEW k, k \notin Range(q) PROVE Cache!Without(k) = q
  BY Zenon, <1>3 DEF Cache!Without, Cache!Range, Range
<1> QED
  BY <1>2, <1>3

LEMMA KeptIs ==
    ASSUME NEW q \in Seq(Texts)
    PROVE  /\ Len(q) <= MaxEntries => Cache!Kept(q) = q
           /\ Len(q) = MaxEntries + 1 => Cache!Kept(q) = SubSeq(q, 1, MaxEntries)
<1>1. Len(q) \in Nat /\ MaxEntries \in Nat
  BY CacheAssumption
<1>2. SubSeq(q, 1, Len(q)) = q
  <2> DEFINE n == Len(q)
             f == SubSeq(q, 1, n)
  <2>1. n \in Nat /\ f \in Seq(Texts) /\ Len(f) = n /\ \A i \in 1 .. n : f[i] = q[i]
    BY <1>1
  <2>2. Len(q) = n
    OBVIOUS
  <2> HIDE DEF n, f
  <2>3. f = q
    BY <2>1, <2>2
  <2> QED
    BY Zenon, <2>3 DEF f, n
<1>3. CASE Len(q) < MaxEntries
  <2>1. Cache!Kept(q) = SubSeq(q, 1, Len(q))
    BY Zenon, <1>3 DEF Cache!Kept
  <2>2. Len(q) # MaxEntries + 1
    BY <1>1, <1>3
  <2> QED
    BY <1>2, <2>1, <2>2
<1>4. CASE ~(Len(q) < MaxEntries)
  <2>1. Cache!Kept(q) = SubSeq(q, 1, MaxEntries)
    BY Zenon, <1>4 DEF Cache!Kept
  <2>2. Len(q) <= MaxEntries => MaxEntries = Len(q)
    BY <1>1, <1>4
  <2> QED
    BY <1>2, <2>1, <2>2
<1> QED
  BY <1>3, <1>4

\* The last of more than the cache keeps is the one dropped.
LEMMA LastDropped ==
    ASSUME NEW q \in Seq(Texts), Distinct(q), Len(q) # 0, NEW k \in Texts, k \notin Range(q)
    PROVE  SubSeq(<<k>> \o q, 1, Len(q)) = <<k>> \o Drop(q, Len(q))
<1> DEFINE n == Len(q)
           d == Drop(q, Len(q))
           f == <<k>> \o q
           g == <<k>> \o d
<1>1. n \in Nat /\ n >= 1 /\ n \in 1 .. Len(q)
  OBVIOUS
<1>2. /\ d \in Seq(Texts) /\ Len(d) = n - 1 /\ Distinct(d)
      /\ \A i \in 1 .. n - 1 : d[i] = IF i < n THEN q[i] ELSE q[i + 1]
      /\ Range(d) = Range(q) \ {q[n]}
  BY Zenon, <1>1, Dropped
<1>3. f \in Seq(Texts) /\ Len(f) = n + 1 /\ f[1] = k /\ \A i \in 1 .. n : f[i + 1] = q[i]
  BY Fronted
<1>4. g \in Seq(Texts) /\ Len(g) = Len(d) + 1 /\ g[1] = k /\ \A i \in 1 .. Len(d) : g[i + 1] = d[i]
  BY <1>2, Fronted
<1> HIDE DEF n, d, f, g
<1>5. SubSeq(f, 1, n) \in Seq(Texts) /\ Len(SubSeq(f, 1, n)) = n
      /\ \A i \in 1 .. n : SubSeq(f, 1, n)[i] = f[i]
  BY <1>1, <1>3
<1>6. Len(g) = n
  BY <1>1, <1>2, <1>4
<1>7. ASSUME NEW i \in 1 .. n PROVE f[i] = g[i]
  <2>1. CASE i = 1
    BY Zenon, <1>3, <1>4, <2>1
  <2>2. CASE i # 1
    <3> DEFINE h == i - 1
    <3>1. h \in 1 .. n - 1 /\ h \in 1 .. n /\ h \in 1 .. Len(d) /\ h < n /\ h + 1 = i
      BY SMTT(30), <1>1, <1>2, <2>2
    <3> HIDE DEF h
    <3> QED
      BY Zenon, <1>2, <1>3, <1>4, <3>1
  <2> QED
    BY <2>1, <2>2
<1>8. SubSeq(f, 1, n) = g
  BY SMTT(30), <1>1, <1>4, <1>5, <1>6, <1>7
<1> QED
  BY Zenon, <1>8 DEF n, d, f, g

\* The list links exactly the keys of the map, and no more than the cache keeps.
Listed ==
    /\ Lists(list, Embed!Order)
    /\ Range(Embed!Order) = items
    /\ Len(Embed!Order) <= MaxEntries

\* A request past the cache carries the text it asked for.
Carried ==
    /\ \A r \in Lookups : request[r].at \in {"embed", "store"} => request[r].text \in Texts
    /\ request \in [Lookups -> [at : {"idle", "embed", "store"}, text : Nodes]]

CacheInv == Listed /\ Carried /\ age \in [Texts -> 0 .. TTL + 1]

LEMMA ListedFacts ==
    ASSUME Listed
    PROVE  \E q : /\ Embed!Order = q /\ Lists(list, q) /\ q \in Seq(Texts) /\ Distinct(q)
                  /\ Len(q) \in Nat /\ Len(q) <= MaxEntries
                  /\ Range(q) = items /\ DOMAIN q = 1 .. Len(q)
                  /\ Cardinality(items) = Len(q)
                  /\ \A j \in 1 .. Len(q) : Cache!Without(q[j]) = Drop(q, j)
                  /\ \A k : k \notin items => Cache!Without(k) = q
<1> DEFINE q == Embed!Order
<1>1. Lists(list, q) /\ Range(q) = items /\ Len(q) <= MaxEntries
  BY Zenon DEF Listed
<1>2. q \in Seq(Texts) /\ Distinct(q) /\ Len(q) \in Nat
  BY <1>1, ListsElements
<1>3. Cardinality(items) = Len(q)
  BY Zenon, <1>1, <1>2, DistinctLen DEF Distinct
<1>4. /\ \A j \in 1 .. Len(q) : Cache!Without(q[j]) = Drop(q, j)
      /\ \A k : k \notin items => Cache!Without(k) = q
  BY <1>1, <1>2, WithoutIs
<1>5. DOMAIN q = 1 .. Len(q)
  BY <1>2
<1> HIDE DEF q
<1>6. Embed!Order = q
  BY Zenon DEF q
<1> QED
  BY Zenon, <1>1, <1>2, <1>3, <1>4, <1>5, <1>6

LEMMA ListedNext ==
    ASSUME NEW q, Lists(list', q), Range(q) = items', Len(q) <= MaxEntries
    PROVE  Listed' /\ Embed!Order' = q
<1>1. Embed!Order' = q
  BY OrderNext
<1>2. Listed' = (Lists(list', Embed!Order') /\ Range(Embed!Order') = items' /\ Len(Embed!Order') <= MaxEntries)
  BY Zenon DEF Listed
<1> QED
  BY Zenon, <1>1, <1>2

LEMMA ListUnchanged ==
    ASSUME Listed, list' = list, items' = items
    PROVE  Listed' /\ Embed!Order' = Embed!Order
BY Zenon, ListedNext DEF Listed

\* A key looked up, or stored again, moves to the front.
LEMMA Touched ==
    ASSUME Listed, NEW k \in items, list' = Embed!moveToFront(list, k), items' = items
    PROVE  /\ Listed' /\ Embed!Order' = <<k>> \o Cache!Without(k)
           /\ Embed!Order' = Cache!Kept(<<k>> \o Cache!Without(k))
<1>1. PICK q : /\ Lists(list, q) /\ q \in Seq(Texts) /\ Distinct(q)
               /\ Len(q) \in Nat /\ Len(q) <= MaxEntries
               /\ Range(q) = items /\ DOMAIN q = 1 .. Len(q)
               /\ \A j \in 1 .. Len(q) : Cache!Without(q[j]) = Drop(q, j)
  BY ListedFacts
<1>2. PICK j \in 1 .. Len(q) : q[j] = k
  BY Zenon, <1>1 DEF Range
<1> DEFINE d == Drop(q, j)
<1>3. d \in Seq(Texts) /\ Len(d) = Len(q) - 1 /\ Distinct(d) /\ Range(d) = Range(q) \ {k}
  BY Zenon, <1>1, <1>2, Dropped
<1>4. Cache!Without(k) = d /\ k \in Texts
  BY <1>1, <1>2
<1>5. Lists(list', <<k>> \o d)
  BY Zenon, <1>1, <1>2, Moved
<1> DEFINE f == <<k>> \o d
<1>6. f \in Seq(Texts) /\ Len(f) = Len(d) + 1 /\ Range(f) = Range(d) \cup {k}
  BY <1>3, <1>4, Fronted
<1> HIDE DEF d, f
<1>7. Len(f) <= MaxEntries /\ Range(f) = items'
  BY <1>1, <1>3, <1>6
<1>8. Listed' /\ Embed!Order' = f
  BY Zenon, <1>5, <1>7, ListedNext DEF f
<1>9. Cache!Kept(f) = f
  BY <1>6, <1>7, KeptIs
<1> QED
  BY Zenon, <1>4, <1>8, <1>9 DEF f

\* An expired key is dropped.
LEMMA Forgotten ==
    ASSUME Listed, NEW k \in items,
           list' = Embed!Freed(Embed!removeNode(list, k), k), items' = items \ {k}
    PROVE  Listed' /\ Embed!Order' = Cache!Without(k)
<1>1. PICK q : /\ Lists(list, q) /\ q \in Seq(Texts) /\ Distinct(q)
               /\ Len(q) \in Nat /\ Len(q) <= MaxEntries
               /\ Range(q) = items /\ DOMAIN q = 1 .. Len(q)
               /\ \A j \in 1 .. Len(q) : Cache!Without(q[j]) = Drop(q, j)
  BY Zenon, ListedFacts
<1>2. PICK j \in 1 .. Len(q) : q[j] = k
  BY Zenon, <1>1 DEF Range
<1> DEFINE d == Drop(q, j)
<1>3. Len(d) = Len(q) - 1 /\ Range(d) = Range(q) \ {k}
  BY Zenon, <1>1, <1>2, Dropped
<1>4. Cache!Without(k) = d
  BY <1>1, <1>2
<1>5. Lists(list', d)
  BY <1>1, <1>2, Removed
<1> HIDE DEF d
<1>6. Len(d) <= MaxEntries /\ Range(d) = items'
  BY <1>1, <1>3, CacheAssumption
<1> QED
  BY <1>4, <1>5, <1>6, ListedNext

\* A new key comes first while there is room.
LEMMA Added ==
    ASSUME Listed, NEW k \in Texts, k \notin items, ~(Cardinality(items) >= MaxEntries),
           list' = Embed!pushFront(list, k), items' = items \cup {k}
    PROVE  Listed' /\ Embed!Order' = Cache!Kept(<<k>> \o Cache!Without(k))
<1>1. PICK q : /\ Lists(list, q) /\ q \in Seq(Texts) /\ Distinct(q)
               /\ Len(q) \in Nat /\ Len(q) <= MaxEntries /\ Range(q) = items
               /\ Cardinality(items) = Len(q) /\ Cache!Without(k) = q
  BY ListedFacts
<1> DEFINE f == <<k>> \o q
<1>2. f \in Seq(Texts) /\ Len(f) = Len(q) + 1 /\ Range(f) = Range(q) \cup {k}
  BY <1>1, Fronted
<1>3. Lists(list', f)
  BY <1>1, Pushed
<1> HIDE DEF f
<1>4. Len(f) <= MaxEntries /\ Range(f) = items'
  BY <1>1, <1>2, CacheAssumption
<1>5. Listed' /\ Embed!Order' = f
  BY <1>3, <1>4, ListedNext
<1>6. Cache!Kept(f) = f
  BY <1>2, <1>4, KeptIs
<1> QED
  BY Zenon, <1>1, <1>5, <1>6 DEF f

\* In a full cache the least recently used key makes room.
LEMMA Evicted ==
    ASSUME Listed, NEW k \in Texts, k \notin items, Cardinality(items) >= MaxEntries,
           list' = Embed!pushFront(Embed!Freed(Embed!removeTail(list), list.tail), k),
           items' = (items \ {list.tail}) \cup {k}
    PROVE  Listed' /\ Embed!Order' = Cache!Kept(<<k>> \o Cache!Without(k))
<1>1. PICK q : /\ Lists(list, q) /\ q \in Seq(Texts) /\ Distinct(q)
               /\ Len(q) \in Nat /\ Len(q) <= MaxEntries /\ Range(q) = items
               /\ Cardinality(items) = Len(q) /\ Cache!Without(k) = q
  BY ListedFacts
<1>2. Len(q) = MaxEntries /\ Len(q) # 0 /\ Len(q) \in 1 .. Len(q)
  BY SMTT(30), <1>1, CacheAssumption
<1> DEFINE m == Embed!Freed(Embed!removeTail(list), list.tail)
           d == Drop(q, Len(q))
           f == <<k>> \o q
           g == <<k>> \o d
<1>3. list.tail = q[Len(q)] /\ Lists(m, d)
  BY Zenon, <1>1, <1>2, TailRemoved
<1>4. d \in Seq(Texts) /\ Len(d) = Len(q) - 1 /\ Distinct(d) /\ Range(d) = Range(q) \ {q[Len(q)]}
  BY ZenonT(40), <1>1, <1>2, Dropped
<1>5. k \notin Range(d)
  BY <1>1, <1>4
<1>6. Lists(list', g)
  BY Zenon, <1>3, <1>5, Pushed
<1>7. Len(g) = Len(d) + 1 /\ Range(g) = Range(d) \cup {k}
  BY Zenon, <1>4, <1>5, Fronted
<1>8. f \in Seq(Texts) /\ Len(f) = Len(q) + 1
  BY <1>1, Fronted
<1>9. SubSeq(f, 1, Len(q)) = g
  BY Zenon, <1>1, <1>2, LastDropped
<1> HIDE DEF m, d, f, g
<1>10. Len(g) <= MaxEntries /\ Range(g) = items'
  BY SMTT(30), <1>1, <1>2, <1>3, <1>4, <1>7
<1>11. Listed' /\ Embed!Order' = g
  BY <1>6, <1>10, ListedNext
<1>12. Cache!Kept(f) = SubSeq(f, 1, MaxEntries)
  BY <1>2, <1>8, KeptIs
<1> QED
  BY Zenon, <1>1, <1>2, <1>9, <1>11, <1>12 DEF f

LEMMA CarriedTo ==
    ASSUME Carried, NEW r \in Lookups, NEW at \in {"idle", "embed", "store"},
           NEW k \in Nodes, at = "idle" \/ k \in Texts, Embed!To(r, at, k)
    PROVE  Carried'
<1>1. request' = [request EXCEPT ![r] = [at |-> at, text |-> k]]
  BY Zenon DEF Embed!To
<1>2. [at |-> at, text |-> k] \in [at : {"idle", "embed", "store"}, text : Nodes]
  OBVIOUS
<1>3. request' \in [Lookups -> [at : {"idle", "embed", "store"}, text : Nodes]]
  BY Zenon, <1>1, <1>2 DEF Carried
<1>4. ASSUME NEW s \in Lookups, request'[s].at \in {"embed", "store"}
      PROVE  request'[s].text \in Texts
  <2>1. CASE s = r
    BY Zenon, <1>1, <1>4, <2>1 DEF Carried
  <2>2. CASE s # r
    BY Zenon, <1>1, <1>4, <2>2 DEF Carried
  <2> QED
    BY <2>1, <2>2
<1> QED
  BY Zenon, <1>3, <1>4 DEF Carried

\* A lookup is one of the abstract cache, or leaves it alone.
LEMMA BeginStep ==
    ASSUME Listed, Carried, age \in [Texts -> 0 .. TTL + 1],
           NEW r \in Lookups, NEW k \in Texts, Embed!Begin(r, k)
    PROVE  /\ Listed' /\ Carried' /\ age' = age
           /\ Cache!Get(k) \/ UNCHANGED Cache!vars
<1>1. age' = age
  BY Zenon DEF Embed!Begin
<1>2. CASE ~Embed!Allows
  <2>1. list' = list /\ items' = items /\ request' = request
    BY Zenon, <1>2 DEF Embed!Begin
  <2>2. Listed' /\ Embed!Order' = Embed!Order
    BY <2>1, ListUnchanged
  <2>3. Carried'
    BY Zenon, <2>1 DEF Carried
  <2> QED
    BY Zenon, <1>1, <2>2, <2>3 DEF Cache!vars
<1>3. CASE Embed!Allows
  <2>1. /\ Embed!CacheGet(k)
        /\ IF k \in items /\ age[k] <= TTL THEN request' = request ELSE Embed!To(r, "embed", k)
    BY Zenon, <1>3 DEF Embed!Begin
  <2>2. Carried'
    <3>1. CASE request' = request
      BY Zenon, <3>1 DEF Carried
    <3>2. CASE Embed!To(r, "embed", k)
      BY Zenon, <3>2, CarriedTo DEF Nodes
    <3> QED
      BY <2>1, <3>1, <3>2
  <2>3. CASE k \notin items
    <3>1. list' = list /\ items' = items
      BY Zenon, <2>1, <2>3 DEF Embed!CacheGet
    <3> QED
      BY Zenon, <1>1, <2>2, <3>1, ListUnchanged DEF Cache!vars
  <2>4. CASE k \in items
    <3>1. k \in Cache!Range(Embed!Order)
      BY Zenon, <2>4 DEF Listed, Cache!Range, Range
    <3>2. age[k] \in Int /\ TTL \in Int
      BY CacheAssumption
    <3>3. CASE age[k] > TTL
      <4>1. list' = Embed!Freed(Embed!removeNode(list, k), k) /\ items' = items \ {k}
        BY Zenon, <2>1, <2>4, <3>3 DEF Embed!CacheGet
      <4>2. Listed' /\ Embed!Order' = Cache!Without(k)
        BY <2>4, <4>1, Forgotten
      <4>3. ~(age[k] <= TTL)
        BY <3>2, <3>3
      <4>4. Cache!Get(k)
        BY Zenon, <1>1, <3>1, <4>2, <4>3 DEF Cache!Get
      <4> QED
        BY Zenon, <1>1, <2>2, <4>2, <4>4
    <3>4. CASE ~(age[k] > TTL)
      <4>1. list' = Embed!moveToFront(list, k) /\ items' = items
        BY Zenon, <2>1, <2>4, <3>4 DEF Embed!CacheGet
      <4>2. Listed' /\ Embed!Order' = <<k>> \o Cache!Without(k)
        BY <2>4, <4>1, Touched
      <4>3. age[k] <= TTL
        BY <3>2, <3>4
      <4>4. Cache!Get(k)
        BY Zenon, <1>1, <3>1, <4>2, <4>3 DEF Cache!Get
      <4> QED
        BY Zenon, <1>1, <2>2, <4>2, <4>4
    <3> QED
      BY Zenon, <3>3, <3>4
  <2> QED
    BY <2>3, <2>4
<1> QED
  BY <1>2, <1>3

\* A store is one of the abstract cache.
LEMMA StoreStep ==
    ASSUME Listed, Carried, age \in [Texts -> 0 .. TTL + 1], NEW r \in Lookups, Embed!Store(r)
    PROVE  /\ Listed' /\ Carried' /\ age' \in [Texts -> 0 .. TTL + 1]
           /\ \E k \in Texts : Cache!Set(k)
<1> DEFINE k == request[r].text
<1>1. request[r].at = "store" /\ Embed!CacheSet(k) /\ Embed!To(r, "idle", None)
  BY Zenon DEF Embed!Store
<1>2. k \in Texts
  BY Zenon, <1>1 DEF Carried
<1>3. Carried'
  BY Zenon, <1>1, CarriedTo DEF Nodes
<1> HIDE DEF k
<1>4. age' = [age EXCEPT ![k] = 0]
  BY Zenon, <1>1 DEF Embed!CacheSet
<1>5. age' \in [Texts -> 0 .. TTL + 1]
  <2>1. 0 \in 0 .. TTL + 1
    BY CacheAssumption
  <2> QED
    BY <1>4, <2>1, Zenon
<1>6. Listed' /\ Embed!Order' = Cache!Kept(<<k>> \o Cache!Without(k))
  <2>1. Embed!Cardinality(items) = Cardinality(items)
    BY Zenon DEF Embed!Cardinality, Cardinality, Embed!IsFiniteSet, IsFiniteSet
  <2>2. CASE k \in items
    <3>1. list' = Embed!moveToFront(list, k) /\ items' = items
      BY ZenonT(40), <1>1, <2>2 DEF Embed!CacheSet
    <3> QED
      BY Zenon, <2>2, <3>1, Touched
  <2>3. CASE k \notin items /\ Cardinality(items) >= MaxEntries
    <3>1. /\ list' = Embed!pushFront(Embed!Freed(Embed!removeTail(list), list.tail), k)
          /\ items' = (items \ {list.tail}) \cup {k}
      BY ZenonT(40), <1>1, <2>1, <2>3 DEF Embed!CacheSet
    <3> QED
      BY Zenon, <1>2, <2>3, <3>1, Evicted
  <2>4. CASE k \notin items /\ ~(Cardinality(items) >= MaxEntries)
    <3>1. list' = Embed!pushFront(list, k) /\ items' = items \cup {k}
      BY Zenon, <1>1, <2>1, <2>4 DEF Embed!CacheSet
    <3> QED
      BY Zenon, <1>2, <2>4, <3>1, Added
  <2> QED
    BY <2>2, <2>3, <2>4
<1>7. Cache!Set(k)
  BY Zenon, <1>4, <1>6 DEF Cache!Set
<1> QED
  BY Zenon, <1>2, <1>3, <1>5, <1>6, <1>7

LEMMA CacheStep ==
    ASSUME CacheInv, [Embed!Next]_embedVars
    PROVE  CacheInv' /\ [Cache!Next]_(Cache!vars)
<1>1. Listed /\ Carried /\ age \in [Texts -> 0 .. TTL + 1]
  BY Zenon DEF CacheInv
<1>2. Listed' /\ Carried' /\ age' \in [Texts -> 0 .. TTL + 1] => CacheInv'
  BY Zenon DEF CacheInv
<1>3. ASSUME NEW r \in Lookups, NEW k \in Texts, Embed!Begin(r, k)
      PROVE  CacheInv' /\ [Cache!Next]_(Cache!vars)
  BY <1>1, <1>2, <1>3, BeginStep DEF Cache!Next
<1>4. ASSUME NEW r \in Lookups, Embed!Embedded(r)
      PROVE  CacheInv' /\ [Cache!Next]_(Cache!vars)
  <2>1. list' = list /\ items' = items /\ age' = age
    BY Zenon, <1>4 DEF Embed!Embedded
  <2>2. Listed' /\ Embed!Order' = Embed!Order
    BY <1>1, <2>1, ListUnchanged
  <2>3. Carried'
    <3>1. request[r].at = "embed"
      BY Zenon, <1>4 DEF Embed!Embedded
    <3>2. request[r].text \in Texts
      BY Zenon, <1>1, <3>1 DEF Carried
    <3>3. CASE Embed!To(r, "store", request[r].text)
      BY Zenon, <1>1, <3>2, <3>3, CarriedTo DEF Nodes
    <3>4. CASE Embed!To(r, "idle", None)
      BY Zenon, <1>1, <3>4, CarriedTo DEF Nodes
    <3> QED
      BY Zenon, <1>4, <3>3, <3>4 DEF Embed!Embedded
  <2> QED
    BY Zenon, <1>1, <1>2, <2>1, <2>2, <2>3 DEF Cache!vars
<1>5. ASSUME NEW r \in Lookups, Embed!Store(r)
      PROVE  CacheInv' /\ [Cache!Next]_(Cache!vars)
  BY Zenon, <1>1, <1>2, <1>5, StoreStep DEF Cache!Next
<1>6. ASSUME Embed!Tick
      PROVE  CacheInv' /\ [Cache!Next]_(Cache!vars)
  <2>1. list' = list /\ items' = items /\ request' = request
    BY Zenon, <1>6 DEF Embed!Tick
  <2>2. Listed' /\ Embed!Order' = Embed!Order
    BY <1>1, <2>1, ListUnchanged
  <2>3. Carried'
    BY Zenon, <1>1, <2>1 DEF Carried
  <2>4. age' = [k \in Texts |-> IF k \in items THEN Embed!Older(age[k], TTL) ELSE 0]
    BY Zenon, <1>6 DEF Embed!Tick
  <2>5. \A k \in Texts : age[k] \in 0 .. TTL + 1
    BY <1>1
  <2>6. \A k \in Texts : /\ Embed!Older(age[k], TTL) \in 0 .. TTL + 1
                         /\ Embed!Older(age[k], TTL) = IF age[k] < TTL + 1 THEN age[k] + 1 ELSE TTL + 1
    BY <2>5, CacheAssumption DEF Embed!Older
  <2>7. age' \in [Texts -> 0 .. TTL + 1]
    BY <2>4, <2>6, CacheAssumption
  <2>8. \A k \in Cache!Range(Embed!Order) : k \in items /\ k \in Texts
    <3>1. Range(Embed!Order) = items /\ Embed!Order \in Seq(Texts)
      BY Zenon, <1>1 DEF Listed, Lists
    <3> QED
      BY <3>1 DEF Range, Cache!Range
  <2>9. Cache!Tick
    BY Zenon, <2>2, <2>4, <2>6, <2>7, <2>8 DEF Cache!Tick, Cache!Old
  <2> QED
    BY Zenon, <1>2, <2>2, <2>3, <2>7, <2>9 DEF Cache!Next
<1>7. ASSUME Embed!Outage \/ UNCHANGED embedVars
      PROVE  CacheInv' /\ [Cache!Next]_(Cache!vars)
  <2>1. list' = list /\ items' = items /\ age' = age /\ request' = request
    BY Zenon, <1>7 DEF Embed!Outage, embedVars
  <2>2. Listed' /\ Embed!Order' = Embed!Order
    BY <1>1, <2>1, ListUnchanged
  <2>3. Carried'
    BY Zenon, <1>1, <2>1 DEF Carried
  <2> QED
    BY Zenon, <1>1, <1>2, <2>1, <2>2, <2>3 DEF Cache!vars
<1> QED
  BY Zenon, <1>3, <1>4, <1>5, <1>6, <1>7 DEF Embed!Next, Embed!Serve

LEMMA CacheStart ==
    ASSUME Embed!Init
    PROVE  CacheInv /\ Cache!Init
<1>1. Lists(list, <<>>)
  BY DEF Embed!Init, Embed!NoLinks, Lists, At, Nodes
<1>2. Embed!Order = <<>>
  BY Zenon, <1>1, OrderIs
<1>3. Listed
  BY SMTT(30), <1>1, <1>2, CacheAssumption DEF Listed, Range, Embed!Init
<1>4. age = [k \in Texts |-> 0] /\ age \in [Texts -> 0 .. TTL + 1]
  BY SMTT(30), CacheAssumption DEF Embed!Init
<1>5. Carried
  BY Zenon DEF Carried, Embed!Init, Embed!Idle, Nodes
<1> QED
  BY Zenon, <1>2, <1>3, <1>4, <1>5 DEF CacheInv, Cache!Init

\* The embedding cache implements the abstract least-recently-used cache, for every
\* set of texts, size and time to live.
THEOREM ImplementsLRUHolds == Embed!Spec => ImplementsLRU
<1>1. Embed!Init => CacheInv /\ Cache!Init
  BY CacheStart
<1>2. CacheInv /\ [Embed!Next]_(Embed!vars) => CacheInv' /\ [Cache!Next]_(Cache!vars)
  BY Zenon, CacheStep DEF Embed!vars, embedVars
<1> QED
  BY <1>1, <1>2, PTL DEF Embed!Spec, ImplementsLRU, Cache!Spec
=============================================================================
