-------------------------- MODULE RateLimiterProofs --------------------------
(***************************************************************************)
(* Proofs about the two rate limiters: about SlidingWindow for every       *)
(* limit, window, delay, skew and set of callers, and about TokenBucket    *)
(* for every limit, window and age of eviction.                            *)
(***************************************************************************)
EXTENDS RateLimiters, Sequences, FiniteSetTheorems, WellFoundedInduction, TLAPS

-----------------------------------------------------------------------------
(* The sorted set *)

\* A call in flight carries the time it was made, wrong by at most the skew, and
\* has been under way for at most MaxDelay.
CallsAreTimely ==
    \A r \in Requests : call[r].pc = "eval" =>
        /\ call[r].id # 0
        /\ call[r].read <= now
        /\ now <= call[r].read + MaxDelay
        /\ call[r].read - MaxSkew <= call[r].score
        /\ call[r].score <= call[r].read + MaxSkew

\* The score of a member is its time of admission up to the delay and the skew.
ScoresAreTimely ==
    \A m \in grants :
        /\ m.at <= touched
        /\ m.at - MaxDelay - MaxSkew <= m.score
        /\ m.score <= m.at + MaxSkew

\* No member is dropped from the set within Span of its admission.
RecentAreKept == GrantedIn(Span) \subseteq zset

SetIsSound ==
    /\ zset \subseteq grants
    /\ IsFiniteSet(zset)
    /\ IsFiniteSet(grants)
    /\ Cardinality(zset) <= Limit

IInv ==
    /\ TypeOK
    /\ touched <= now
    /\ CallsAreTimely
    /\ ScoresAreTimely
    /\ SetIsSound
    /\ RecentAreKept

\* What the script drops was admitted at least Span ago.
LEMMA DroppedAreOld ==
    ASSUME IInv, NEW r \in Requests, call[r].pc = "eval",
           NEW m \in grants, m.at > now - Span, m \in zset
    PROVE  m \in Kept(call[r])
<1> USE ConstantsAssumption
<1>1. call[r] \in Calls /\ m \in Members
  BY DEF IInv, TypeOK
<1>2. now \in Nat /\ call[r].score \in Int /\ call[r].read \in Nat
      /\ m.score \in Int /\ m.at \in Nat
  BY <1>1 DEF IInv, TypeOK, Calls, Members
<1>3. /\ call[r].read <= now
      /\ call[r].score <= call[r].read + MaxSkew
      /\ m.at - MaxDelay - MaxSkew <= m.score
  BY DEF IInv, CallsAreTimely, ScoresAreTimely
<1>4. m.score > call[r].score - Window
  BY <1>2, <1>3 DEF Span
<1> QED
  BY <1>4 DEF Kept

\* The script leaves a finite set within the limit.
LEMMA ScriptIsSound ==
    ASSUME IInv, NEW r \in Requests, call[r].pc = "eval",
           NEW room \in BOOLEAN, Script(call[r], room)
    PROVE  /\ SetIsSound'
           /\ Kept(call[r]) \subseteq zset'
           /\ grants \subseteq grants'
           /\ grants' \subseteq grants \cup {Member(call[r])}
           /\ grants' \ grants \subseteq zset'
<1> DEFINE c == call[r]
<1> USE ConstantsAssumption
<1>1. Kept(c) \subseteq zset /\ IsFiniteSet(zset) /\ IsFiniteSet(grants)
      /\ Cardinality(zset) <= Limit /\ zset \subseteq grants
  BY DEF IInv, SetIsSound, Kept
<1>2. IsFiniteSet(Kept(c)) /\ Cardinality(Kept(c)) <= Cardinality(zset)
  BY <1>1, FS_Subset
<1>3. Cardinality(Kept(c)) \in Nat /\ Cardinality(zset) \in Nat
  BY <1>1, <1>2, FS_CardinalityType
<1>4. CASE room
  <2>1. /\ Cardinality(Kept(c)) + 1 <= Limit
        /\ zset' = Kept(c) \cup {Member(c)}
        /\ grants' = grants \cup {Member(c)}
    BY <1>4 DEF Script
  <2>2. IsFiniteSet(zset') /\ IsFiniteSet(grants')
    BY <2>1, <1>1, <1>2, FS_AddElement
  <2>3. Cardinality(zset') <= Cardinality(Kept(c)) + 1
    <3>1. Cardinality(Kept(c) \cup {Member(c)}) =
            IF Member(c) \in Kept(c) THEN Cardinality(Kept(c))
                                     ELSE Cardinality(Kept(c)) + 1
      BY Zenon, <1>2, FS_AddElement
    <3> QED
      BY <3>1, <2>1, <1>3
  <2>4. Cardinality(zset') \in Nat
    BY <2>2, FS_CardinalityType
  <2>5. Cardinality(zset') <= Limit
    BY <2>1, <2>3, <2>4, <1>3
  <2> QED
    BY <1>1, <2>1, <2>2, <2>5 DEF SetIsSound
<1>5. CASE ~room
  <2>1. zset' = Kept(c) /\ grants' = grants
    BY <1>5 DEF Script
  <2>2. Cardinality(zset') <= Limit
    BY <2>1, <1>1, <1>2, <1>3
  <2> QED
    BY <1>1, <1>2, <2>1, <2>2 DEF SetIsSound
<1> QED
  BY <1>4, <1>5

LEMMA CallType ==
    ASSUME TypeOK, NEW r \in Requests
    PROVE  /\ call[r] \in Calls
           /\ call[r].id \in Nat /\ call[r].score \in Int /\ call[r].read \in Nat
BY DEF TypeOK, Calls

\* The script preserves the invariant, whatever its caller is told.
LEMMA ScriptStep ==
    ASSUME IInv, NEW r \in Requests, NEW room \in BOOLEAN,
           NEW told \in {"passed", "refused"},
           Return(r, told), Script(call[r], room)
    PROVE  IInv'
<1> DEFINE c == call[r]
           m == Member(c)
<1> USE ConstantsAssumption
<1>1. c.pc = "eval" /\ now' = now /\ seq' = seq /\ touched' = now
      /\ call' = [call EXCEPT ![r] = Returned(told)]
  BY DEF Return, Script
<1>2. /\ SetIsSound'
      /\ Kept(c) \subseteq zset'
      /\ grants' \subseteq grants \cup {m}
      /\ grants' \ grants \subseteq zset'
      /\ zset' \subseteq grants'
  BY <1>1, ScriptIsSound DEF SetIsSound
<1>3. /\ c.id \in Nat \ {0} /\ c.score \in Int /\ c.read \in Nat /\ now \in Nat
      /\ c.read <= now /\ now <= c.read + MaxDelay
      /\ c.read - MaxSkew <= c.score /\ c.score <= c.read + MaxSkew
  BY <1>1, CallType DEF IInv, CallsAreTimely, TypeOK
<1>4. m \in Members /\ m.at = now /\ m.score = c.score
  BY <1>3 DEF Members, Member
<1>5. Returned(told) \in Calls /\ Returned(told).pc # "eval"
  BY DEF Returned, Calls
<1>6. TypeOK'
  <2>1. call' \in [Requests -> Calls]
    BY <1>1, <1>5 DEF IInv, TypeOK
  <2>2. grants' \subseteq Members /\ zset' \subseteq Members
    BY <1>2, <1>4 DEF IInv, TypeOK
  <2> QED
    BY <1>1, <2>1, <2>2 DEF IInv, TypeOK
<1>7. (touched <= now)'
  BY <1>1, <1>3
<1>8. CallsAreTimely'
  BY <1>1, <1>5 DEF IInv, CallsAreTimely, TypeOK
<1>9. ScoresAreTimely'
  <2> SUFFICES ASSUME NEW g \in grants'
               PROVE  /\ g.at <= now
                      /\ g.at - MaxDelay - MaxSkew <= g.score
                      /\ g.score <= g.at + MaxSkew
    BY <1>1 DEF ScoresAreTimely
  <2>1. CASE g \in grants
    <3>1. g.at \in Nat /\ touched \in Nat /\ touched <= now /\ g.at <= touched
      BY <2>1 DEF IInv, TypeOK, Members, ScoresAreTimely
    <3> QED
      BY <2>1, <3>1, <1>3 DEF IInv, ScoresAreTimely
  <2>2. CASE g = m
    BY <2>2, <1>3, <1>4
  <2> QED
    BY <2>1, <2>2, <1>2
<1>10. RecentAreKept'
  <2> SUFFICES ASSUME NEW g \in grants', g.at > now - Span
               PROVE  g \in zset'
    BY <1>1 DEF RecentAreKept, GrantedIn, Span
  <2>1. CASE g \in grants
    <3>1. g \in zset
      BY <2>1 DEF IInv, RecentAreKept, GrantedIn
    <3> QED
      BY <2>1, <3>1, <1>1, <1>2, DroppedAreOld
  <2> QED
    BY <2>1, <1>2
<1> QED
  BY <1>2, <1>6, <1>7, <1>8, <1>9, <1>10 DEF IInv

LEMMA InitIInv == Init => IInv
<1> SUFFICES ASSUME Init PROVE IInv
  OBVIOUS
<1> USE ConstantsAssumption DEF Init
<1>1. Returned("passed") \in Calls /\ Returned("passed").pc = "passed"
  BY DEF Returned, Calls
<1>2. TypeOK
  BY <1>1 DEF TypeOK
<1>3. CallsAreTimely
  BY <1>1 DEF CallsAreTimely
<1>4. SetIsSound
  BY FS_EmptySet DEF SetIsSound
<1> QED
  BY <1>2, <1>3, <1>4 DEF IInv, ScoresAreTimely, RecentAreKept, GrantedIn

LEMMA StepIInv == IInv /\ [Next]_vars => IInv'
<1> SUFFICES ASSUME IInv, [Next]_vars PROVE IInv'
  OBVIOUS
<1> USE ConstantsAssumption
<1>0. TypeOK /\ now \in Nat /\ touched \in Nat /\ seq \in Nat /\ touched <= now
  BY DEF IInv, TypeOK
<1>1. ASSUME NEW r \in Requests, ReadClock(r) PROVE IInv'
  <2> DEFINE c == [pc |-> "eval", id |-> seq + 1,
                   score |-> now + Clock[r], read |-> now]
  <2>1. call' = [call EXCEPT ![r] = c] /\ seq' = seq + 1
        /\ UNCHANGED <<now, zset, touched, grants>>
    BY <1>1 DEF ReadClock
  <2>2. Clock[r] \in Int /\ -MaxSkew <= Clock[r] /\ Clock[r] <= MaxSkew
    OBVIOUS
  <2>3. c \in Calls /\ c.id # 0 /\ c.read = now /\ c.score = now + Clock[r]
    BY <1>0, <2>2 DEF Calls
  <2>4. TypeOK'
    BY <1>0, <2>1, <2>3 DEF TypeOK
  <2>5. CallsAreTimely'
    <3> SUFFICES ASSUME NEW q \in Requests, call'[q].pc = "eval"
                 PROVE  /\ call'[q].id # 0
                        /\ call'[q].read <= now
                        /\ now <= call'[q].read + MaxDelay
                        /\ call'[q].read - MaxSkew <= call'[q].score
                        /\ call'[q].score <= call'[q].read + MaxSkew
      BY <2>1 DEF CallsAreTimely
    <3>1. CASE q = r
      <4>1. call'[q] = c
        BY <3>1, <2>1, <1>0 DEF TypeOK
      <4> HIDE DEF c
      <4> QED
        BY <4>1, <2>2, <2>3, <1>0
    <3>2. CASE q # r
      BY <3>2, <2>1 DEF IInv, CallsAreTimely, TypeOK
    <3> QED
      BY <3>1, <3>2
  <2> QED
    BY <2>1, <2>4, <2>5
    DEF IInv, ScoresAreTimely, SetIsSound, RecentAreKept, GrantedIn, Span
<1>2. ASSUME NEW r \in Requests, Admit(r) PROVE IInv'
  BY Zenon, <1>2, ScriptStep DEF Admit
<1>3. ASSUME NEW r \in Requests, Refuse(r) PROVE IInv'
  BY Zenon, <1>3, ScriptStep DEF Refuse
<1>4. ASSUME NEW r \in Requests, FailOpen(r) PROVE IInv'
  <2>1. call' = [call EXCEPT ![r] = Returned("passed")]
        /\ UNCHANGED <<now, seq, zset, touched, grants>>
    BY <1>4 DEF FailOpen, Return
  <2>2. Returned("passed") \in Calls /\ Returned("passed").pc # "eval"
    BY DEF Returned, Calls
  <2>3. TypeOK'
    BY <1>0, <2>1, <2>2 DEF TypeOK
  <2>4. CallsAreTimely'
    BY <2>1, <2>2 DEF IInv, CallsAreTimely, TypeOK
  <2> QED
    BY <2>1, <2>3, <2>4
    DEF IInv, ScoresAreTimely, SetIsSound, RecentAreKept, GrantedIn, Span
<1>5. ASSUME NEW r \in Requests, AnswerLost(r) PROVE IInv'
  BY Zenon, <1>5, ScriptStep DEF AnswerLost
<1>6. CASE Expire
  <2>1. now >= touched + 2 * Window /\ zset' = {}
        /\ UNCHANGED <<now, seq, touched, grants, call>>
    BY <1>6 DEF Expire
  <2>2. TypeOK'
    BY <1>0, <2>1 DEF TypeOK
  <2>3. SetIsSound'
    BY <2>1, FS_EmptySet DEF IInv, SetIsSound
  <2>4. ASSUME NEW g \in grants PROVE ~(g.at > now - Span)
    <3>1. g.at \in Nat /\ g.at <= touched
      BY DEF IInv, TypeOK, Members, ScoresAreTimely
    <3> QED
      BY <3>1, <2>1, <1>0 DEF Span
  <2>5. RecentAreKept'
    BY <2>1, <2>4 DEF RecentAreKept, GrantedIn, Span
  <2> QED
    BY <2>1, <2>2, <2>3, <2>5 DEF IInv, CallsAreTimely, ScoresAreTimely
<1>7. CASE Tick
  <2>1. now' = now + 1 /\ UNCHANGED <<seq, zset, touched, grants, call>>
    BY <1>7 DEF Tick
  <2>2. TypeOK' /\ (touched <= now)'
    BY <1>0, <2>1 DEF TypeOK
  <2>3. CallsAreTimely'
    <3> SUFFICES ASSUME NEW q \in Requests, call[q].pc = "eval"
                 PROVE  /\ call[q].id # 0
                        /\ call[q].read <= now + 1
                        /\ now + 1 <= call[q].read + MaxDelay
                        /\ call[q].read - MaxSkew <= call[q].score
                        /\ call[q].score <= call[q].read + MaxSkew
      BY <2>1 DEF CallsAreTimely
    <3>1. call[q].read \in Nat
      BY <1>0, CallType
    <3>2. now < call[q].read + MaxDelay
      BY <1>7 DEF Tick
    <3> QED
      BY <3>1, <3>2, <1>0 DEF IInv, CallsAreTimely
  <2>4. RecentAreKept'
    <3> SUFFICES ASSUME NEW g \in grants, g.at > now' - Span PROVE g \in zset
      BY <2>1 DEF RecentAreKept, GrantedIn, Span
    <3>1. g.at \in Nat
      BY DEF IInv, TypeOK, Members
    <3>2. g.at > now - Span
      BY <3>1, <1>0, <2>1 DEF Span
    <3> QED
      BY <3>2 DEF IInv, RecentAreKept, GrantedIn
  <2> QED
    BY <2>1, <2>2, <2>3, <2>4 DEF IInv, ScoresAreTimely, SetIsSound
<1>8. CASE UNCHANGED vars
  BY <1>8 DEF IInv, TypeOK, CallsAreTimely, ScoresAreTimely, SetIsSound,
              RecentAreKept, GrantedIn, Span, vars
<1> QED
  BY <1>1, <1>2, <1>3, <1>4, <1>5, <1>6, <1>7, <1>8 DEF Next

LEMMA Invariance == Spec => []IInv
BY InitIInv, StepIInv, PTL DEF Spec

\* checkCount: the script never leaves more than limit members in the set.
THEOREM SetBound == Spec => []SetIsBounded
<1>1. IInv => SetIsBounded
  BY DEF IInv, SetIsSound, SetIsBounded
<1> QED
  BY <1>1, Invariance, PTL

\* checkCount: over every stretch of Span the requests Redis admitted are at
\* most the limit, for every number of callers and every skew and delay.
THEOREM LimitTheorem == Spec => []LimitHolds
<1>1. IInv => LimitHolds
  <2> SUFFICES ASSUME IInv PROVE LimitHolds
    OBVIOUS
  <2>1. GrantedIn(Span) \subseteq zset /\ IsFiniteSet(zset) /\ Cardinality(zset) <= Limit
    BY DEF IInv, RecentAreKept, SetIsSound
  <2>2. IsFiniteSet(GrantedIn(Span)) /\ Cardinality(GrantedIn(Span)) <= Cardinality(zset)
    BY <2>1, FS_Subset
  <2>3. Cardinality(GrantedIn(Span)) \in Nat /\ Cardinality(zset) \in Nat
    BY <2>1, <2>2, FS_CardinalityType
  <2> QED
    BY <2>1, <2>2, <2>3, ConstantsAssumption DEF LimitHolds
<1> QED
  BY <1>1, Invariance, PTL

\* checkCount: a refusal means that Limit requests were admitted within
\* Window + MaxDelay + 2 * MaxSkew before it.
THEOREM RefusalTheorem == Spec => RefusalIsDeserved
<1> DEFINE Long == Window + MaxDelay + 2 * MaxSkew
           Deserved == \A r \in Requests :
                          call[r].pc = "eval" /\ call'[r].pc = "refused"
                          => Cardinality(GrantedIn(Long)) >= Limit
<1>1. IInv /\ [Next]_vars => [Deserved]_vars
  <2> SUFFICES ASSUME IInv, Next, NEW r \in Requests,
                      call[r].pc = "eval", call'[r].pc = "refused"
               PROVE  Cardinality(GrantedIn(Long)) >= Limit
    OBVIOUS
  <2> USE ConstantsAssumption
  <2>0. now \in Nat /\ call \in [Requests -> Calls]
    BY DEF IInv, TypeOK
  <2>1. Refuse(r)
    <3>1. ASSUME NEW q \in Requests, ReadClock(q) PROVE FALSE
      BY <3>1, <2>0 DEF ReadClock
    <3>2. ASSUME NEW q \in Requests, Return(q, "passed") PROVE FALSE
      BY <3>2, <2>0 DEF Return, Returned
    <3>3. ASSUME NEW q \in Requests, Refuse(q) PROVE q = r
      BY <3>3, <2>0 DEF Refuse, Return, Returned
    <3> QED
      BY Zenon, <3>1, <3>2, <3>3 DEF Next, Admit, FailOpen, AnswerLost, Expire, Tick
  <2>2. ~(Cardinality(Kept(call[r])) + 1 <= Limit)
    BY <2>1 DEF Refuse, Script
  <2>3. Kept(call[r]) \subseteq GrantedIn(Long)
    <3> SUFFICES ASSUME NEW m \in zset, m.score > call[r].score - Window
                 PROVE  m \in grants /\ m.at > now - Long
      BY DEF Kept, GrantedIn
    <3>1. m \in grants /\ m \in Members
      BY DEF IInv, SetIsSound, TypeOK
    <3>2. m.score \in Int /\ m.at \in Nat /\ m.score <= m.at + MaxSkew
      BY <3>1 DEF Members, IInv, ScoresAreTimely
    <3>3. /\ call[r].score \in Int /\ call[r].read \in Nat
          /\ now <= call[r].read + MaxDelay
          /\ call[r].read - MaxSkew <= call[r].score
      BY CallType DEF IInv, CallsAreTimely
    <3> QED
      BY <2>0, <3>1, <3>2, <3>3
  <2>4. IsFiniteSet(GrantedIn(Long))
    <3>1. GrantedIn(Long) \subseteq grants /\ IsFiniteSet(grants)
      BY DEF GrantedIn, IInv, SetIsSound
    <3> QED
      BY <3>1, FS_Subset
  <2>5. IsFiniteSet(Kept(call[r]))
        /\ Cardinality(Kept(call[r])) <= Cardinality(GrantedIn(Long))
    BY <2>3, <2>4, FS_Subset
  <2>6. Cardinality(Kept(call[r])) \in Nat /\ Cardinality(GrantedIn(Long)) \in Nat
    BY <2>4, <2>5, FS_CardinalityType
  <2> HIDE DEF Long
  <2> QED
    BY <2>2, <2>5, <2>6
<1>2. Spec => [][Deserved]_vars
  BY <1>1, Invariance, PTL DEF Spec
<1> QED
  BY <1>2 DEF RefusalIsDeserved

-----------------------------------------------------------------------------
(* Arithmetic *)

\* The induction principle of the naturals, for a set.
LEMMA SetInduction ==
    ASSUME NEW S, 0 \in S, \A n \in Nat : n \in S => n + 1 \in S
    PROVE  \A n \in Nat : n \in S
<1> DEFINE less == OpToRel(<, Nat)
           rest == Nat \ S
<1> SUFFICES ASSUME rest # {} PROVE FALSE
  OBVIOUS
<1>1. IsWellFoundedOn(less, Nat)
  BY NatLessThanWellFounded, Zenon
<1> HIDE DEF less, rest
<1>2. PICK m \in rest : \A k \in rest : <<k, m>> \notin less
  <2>1. rest \subseteq Nat
    BY DEF rest
  <2> QED
    BY Zenon, <1>1, <2>1, WFMin
<1>3. m \in Nat /\ m \notin S /\ m # 0 /\ m - 1 \in Nat /\ m - 1 < m
  BY DEF rest
<1>4. m - 1 \in S
  BY Zenon, <1>2, <1>3 DEF less, rest, OpToRel
<1> QED
  BY <1>3, <1>4

LEMMA Monotone ==
    ASSUME NEW x \in Int, NEW y \in Int, x <= y, NEW w \in Nat
    PROVE  x * w <= y * w
OBVIOUS

LEMMA Division ==
    ASSUME NEW x \in Nat, NEW w \in Nat \ {0}
    PROVE  /\ x \div w \in Nat
           /\ (x \div w) * w <= x /\ x < (x \div w) * w + w
           /\ x % w = 0 => x = (x \div w) * w
OBVIOUS

-----------------------------------------------------------------------------
(* The token bucket *)

L == BucketLimit
W == BucketWindow

LEMMA Constants == L \in Nat \ {0} /\ W \in Nat \ {0} /\ IdleMax \in Nat /\ IdleMax >= W
BY BucketAssumption DEF L, W

\* A refill never exceeds the proportion of the time; it is at least half of it, or nothing
\* when that would be a single token or less.
LEMMA RefillBounds ==
    ASSUME sinceRefill \in Nat, NEW n \in Bucket!Refills
    PROVE  /\ n \in Nat /\ n * W <= sinceRefill * L
           /\ n = 0 => sinceRefill * L <= W
           /\ n > 0 => sinceRefill * L <= 2 * (n * W)
<1> DEFINE x == sinceRefill * L
           q == x \div W
<1>1. x \in Nat /\ W \in Nat \ {0}
  BY Constants
<1>2. n = q \/ (n = q - 1 /\ n >= 0 /\ x % W = 0)
  BY DEF Bucket!Refills, L, W
<1> HIDE DEF x
<1>3. q \in Nat /\ q * W <= x /\ x < q * W + W /\ (x % W = 0 => x = q * W)
  BY <1>1, Division
<1> HIDE DEF q
<1>4. n \in Nat /\ n * W <= q * W
  BY <1>1, <1>2, <1>3, Monotone
<1>5. ASSUME n = 0 PROVE x <= W
  BY <1>1, <1>2, <1>3, <1>5
<1>6. ASSUME n > 0 PROVE x <= 2 * (n * W)
  <2>1. 1 * W <= n * W
    BY <1>1, <1>4, <1>6, Monotone
  <2>2. CASE n = q
    BY <1>1, <1>3, <2>1, <2>2
  <2>3. CASE n = q - 1 /\ x % W = 0
    <3>1. q * W = n * W + W
      BY <1>1, <1>3, <1>4, <2>3
    <3> QED
      BY <1>1, <1>3, <1>4, <2>1, <2>3, <3>1
  <2> QED
    BY <1>2, <2>2, <2>3
<1> QED
  BY <1>1, <1>3, <1>4, <1>5, <1>6 DEF x

Places == 1 .. Len(admitted)

\* The types; a bucket in use has given a token away; the calls admitted are no younger than
\* the last access, the oldest first; and a bucket that is not there starts afresh.
Shape ==
    /\ tokens \in 0 .. L /\ sinceRefill \in 0 .. W /\ sinceAccess \in 0 .. IdleMax + 1
    /\ admitted \in Seq(0 .. W - 1)
    /\ present => tokens <= L - 1
    /\ ~present => tokens = L /\ admitted = <<>>
    /\ \A i \in Places : admitted[i] >= sinceAccess
    /\ \A i, j \in Places : i <= j => admitted[i] >= admitted[j]

\* The tokens that the bucket has given away since a call of some age, that call included, or
\* still holds, are at most a full bucket and what the time up to the last refill brings.
AtMost(total, age, since) == total * W <= L * W + (age - since) * L

\* The tokens that it has given away in the last ticks or still holds are at least half of
\* what that time brings.
AtLeast(span, total, since) == L * (span - since) <= 2 * (total * W)

BucketInv ==
    /\ Shape
    /\ \A i \in Places : AtMost(Len(admitted) - i + 1 + tokens, admitted[i], sinceRefill)
    /\ \A d \in 0 .. W : \A k \in 0 .. Len(admitted) :
          (\A i \in 1 .. k : admitted[i] >= d) =>
              AtLeast(d, Len(admitted) - k + tokens, sinceRefill)
    /\ answer = "no" => tokens = 0 /\ sinceRefill * L <= W

LEMMA BucketInitially == Bucket!Init => BucketInv
<1> SUFFICES ASSUME Bucket!Init PROVE BucketInv
  OBVIOUS
<1>1. /\ ~present /\ tokens = L /\ sinceRefill = 0 /\ sinceAccess = 0 /\ admitted = <<>>
      /\ Len(admitted) = 0 /\ answer = "none"
  BY DEF Bucket!Init, L
<1>2. Shape /\ Places = {}
  BY <1>1, Constants DEF Shape, Places
<1>3. ASSUME NEW d \in 0 .. W PROVE AtLeast(d, 0 - 0 + L, 0)
  <2>1. d * L <= W * L
    BY Constants, Monotone
  <2> QED
    BY <2>1, Constants DEF AtLeast
<1>4. \A k \in 0 .. Len(admitted) : k = 0
  BY <1>1
<1> QED
  BY <1>1, <1>2, <1>3, <1>4 DEF BucketInv

\* tok tokens, and the time e since the last refill, after the refill of a call.
Refreshed(tok, e) ==
    /\ tok \in 0 .. L /\ e \in 0 .. W
    /\ \A i \in Places : AtMost(Len(admitted) - i + 1 + tok, admitted[i], e)
    /\ \A d \in 0 .. W : \A k \in 0 .. Len(admitted) :
          (\A i \in 1 .. k : admitted[i] >= d) => AtLeast(d, Len(admitted) - k + tok, e)
    /\ tok * W + e * L <= L * W
    /\ tok = 0 => e * L <= W

\* A full bucket is as good as one that has just been filled.
LEMMA FullIsRefreshed ==
    ASSUME admitted \in Seq(0 .. W - 1),
           \A i \in Places : AtMost(Len(admitted) - i + 1 + L, admitted[i], 0)
    PROVE  Refreshed(L, 0)
<1>1. ASSUME NEW d \in 0 .. W, NEW k \in 0 .. Len(admitted)
      PROVE  AtLeast(d, Len(admitted) - k + L, 0)
  <2> DEFINE c == Len(admitted) - k
  <2>1. c \in Nat
    OBVIOUS
  <2> HIDE DEF c
  <2>2. d * L <= W * L /\ 0 * W <= c * W
    BY <2>1, Constants, Monotone
  <2>3. L * (d - 0) <= 2 * ((c + L) * W)
    BY <2>1, <2>2, Constants
  <2> QED
    BY <2>3 DEF AtLeast, c
<1> QED
  BY <1>1, Constants DEF Refreshed

LEMMA RefillRefreshes ==
    ASSUME BucketInv, present, NEW n \in Bucket!Refills
    PROVE  Refreshed(Bucket!Refilled(n), IF Bucket!Restarts(n) THEN 0 ELSE sinceRefill)
<1> DEFINE e == sinceRefill
           len == Len(admitted)
<1>0. /\ tokens \in Nat /\ tokens <= L - 1 /\ e \in 0 .. W /\ len \in Nat
      /\ admitted \in Seq(0 .. W - 1) /\ \A i \in Places : i \in 1 .. len /\ admitted[i] \in 0 .. W - 1
  BY Constants DEF BucketInv, Shape, Places
<1>1. /\ n \in Nat /\ n * W <= e * L /\ (n = 0 => e * L <= W) /\ (n > 0 => e * L <= 2 * (n * W))
  BY <1>0, RefillBounds
<1>2. \A i \in Places : AtMost(len - i + 1 + tokens, admitted[i], e)
  BY DEF BucketInv
<1>3. CASE e = W
  <2>1. Bucket!Refilled(n) = L /\ Bucket!Restarts(n)
    BY <1>0, <1>3, Constants DEF Bucket!Refilled, Bucket!Restarts, L, W
  <2>2. ASSUME NEW i \in Places PROVE AtMost(len - i + 1 + L, admitted[i], 0)
    <3> DEFINE c == len - i + 1
               b == admitted[i]
    <3>1. c \in Int /\ b \in Nat /\ (c + tokens) * W <= L * W + (b - W) * L
      BY <1>0, <1>2, <1>3 DEF AtMost
    <3> HIDE DEF c, b
    <3>2. 0 * W <= tokens * W
      BY <1>0, Constants, Monotone
    <3>3. (c + L) * W <= L * W + (b - 0) * L
      BY <1>0, <3>1, <3>2, Constants
    <3> QED
      BY <3>3 DEF AtMost, c, b
  <2> QED
    BY <1>0, <2>1, <2>2, FullIsRefreshed
<1>4. CASE e < W /\ n = 0
  <2>1. Bucket!Refilled(n) = tokens /\ ~Bucket!Restarts(n)
    BY <1>0, <1>4, Constants DEF Bucket!Refilled, Bucket!Restarts, Bucket!Capped, L, W
  <2>2. tokens * W <= (L - 1) * W
    BY <1>0, Constants, Monotone
  <2>3. tokens * W + e * L <= L * W
    BY <1>0, <1>1, <1>4, <2>2, Constants
  <2> QED
    BY <1>0, <1>1, <1>2, <1>4, <2>1, <2>3, Constants DEF Refreshed, BucketInv
<1>5. CASE e < W /\ n > 0 /\ tokens + n > L
  <2>1. Bucket!Refilled(n) = L /\ Bucket!Restarts(n)
    BY <1>0, <1>5, Constants DEF Bucket!Refilled, Bucket!Restarts, Bucket!Capped, L, W
  <2>2. ASSUME NEW i \in Places PROVE AtMost(len - i + 1 + L, admitted[i], 0)
    <3> DEFINE c == len - i + 1
               b == admitted[i]
    <3>1. c \in Int /\ b \in Nat /\ (c + tokens) * W <= L * W + (b - e) * L
      BY <1>0, <1>2 DEF AtMost
    <3> HIDE DEF c, b
    <3>2. L * W <= (tokens + n) * W
      BY <1>0, <1>1, <1>5, Constants, Monotone
    <3>3. (c + L) * W <= L * W + (b - 0) * L
      BY <1>0, <1>1, <3>1, <3>2, Constants
    <3> QED
      BY <3>3 DEF AtMost, c, b
  <2> QED
    BY <1>0, <2>1, <2>2, FullIsRefreshed
<1>6. CASE e < W /\ n > 0 /\ tokens + n <= L
  <2> DEFINE tok == tokens + n
  <2>1. Bucket!Refilled(n) = tok /\ Bucket!Restarts(n)
    BY <1>0, <1>1, <1>6, Constants DEF Bucket!Refilled, Bucket!Restarts, Bucket!Capped, L, W
  <2>2. ASSUME NEW i \in Places PROVE AtMost(len - i + 1 + tok, admitted[i], 0)
    <3> DEFINE c == len - i + 1
               b == admitted[i]
    <3>1. c \in Int /\ b \in Nat /\ (c + tokens) * W <= L * W + (b - e) * L
      BY <1>0, <1>2 DEF AtMost
    <3> HIDE DEF c, b
    <3>2. (c + (tokens + n)) * W <= L * W + (b - 0) * L
      BY <1>0, <1>1, <3>1, Constants
    <3> QED
      BY <3>2 DEF AtMost, c, b
  <2>3. ASSUME NEW d \in 0 .. W, NEW k \in 0 .. len, \A i \in 1 .. k : admitted[i] >= d
        PROVE  AtLeast(d, len - k + tok, 0)
    <3>1. L * (d - e) <= 2 * ((len - k + tokens) * W)
      BY <2>3 DEF BucketInv, AtLeast
    <3> DEFINE c == len - k
    <3>2. c \in Int /\ L * (d - e) <= 2 * ((c + tokens) * W)
      BY <1>0, <3>1
    <3> HIDE DEF c
    <3>3. L * (d - 0) <= 2 * ((c + (tokens + n)) * W)
      BY <1>0, <1>1, <1>6, <3>2, Constants
    <3> QED
      BY <3>3 DEF AtLeast, c
  <2>4. tok * W <= L * W /\ tok \in 1 .. L
    BY <1>0, <1>1, <1>6, Constants, Monotone
  <2> HIDE DEF tok
  <2>5. tok * W + 0 * L <= L * W
    BY <2>4, Constants
  <2> QED
    BY <2>1, <2>2, <2>3, <2>4, <2>5, Constants DEF Refreshed
<1>7. \/ e = W
      \/ e < W /\ n = 0
      \/ e < W /\ n > 0 /\ tokens + n > L
      \/ e < W /\ n > 0 /\ tokens + n <= L
  BY <1>0, <1>1, Constants
<1> QED
  BY <1>3, <1>4, <1>5, <1>6, <1>7, Zenon

\* What is left of the bucket after a call, whether the call got a token or not.
LEMMA TakeKeeps ==
    ASSUME BucketInv, NEW tok, Refreshed(tok, sinceRefill'), Bucket!Take(tok),
           present', sinceAccess' = 0
    PROVE  BucketInv'
<1> DEFINE e == sinceRefill'
           len == Len(admitted)
<1>a. /\ tok \in 0 .. L /\ e \in 0 .. W
      /\ tok * W + e * L <= L * W /\ (tok = 0 => e * L <= W)
      /\ \A i \in Places : AtMost(len - i + 1 + tok, admitted[i], e)
  BY DEF Refreshed
<1>b. /\ len \in Nat /\ admitted \in Seq(0 .. W - 1)
      /\ \A i, j \in Places : i <= j => admitted[i] >= admitted[j]
  BY DEF BucketInv, Shape
<1>c. sinceAccess' \in 0 .. IdleMax + 1
  BY Constants
<1>0. /\ tok \in 0 .. L /\ e \in 0 .. W /\ len \in Nat /\ admitted \in Seq(0 .. W - 1)
      /\ (tok = 0 => e * L <= W) /\ sinceAccess' \in 0 .. IdleMax + 1
      /\ \A i \in Places : AtMost(len - i + 1 + tok, admitted[i], e)
      /\ \A i, j \in Places : i <= j => admitted[i] >= admitted[j]
  BY <1>a, <1>b, <1>c
<1>1. ASSUME NEW d \in 0 .. W, NEW k \in 0 .. len, \A i \in 1 .. k : admitted[i] >= d
      PROVE  AtLeast(d, len - k + tok, e)
  BY <1>1 DEF Refreshed
<1>2. CASE tok > 0 /\ tokens' = tok - 1 /\ answer' = "yes" /\ admitted' = Append(admitted, 0)
  <2>1. /\ admitted' \in Seq(0 .. W - 1) /\ Len(admitted') = len + 1 /\ admitted'[len + 1] = 0
        /\ \A i \in 1 .. len : admitted'[i] = admitted[i] /\ admitted[i] \in 0 .. W - 1
    BY <1>0, <1>2, Constants
  <2>2. \A i \in 1 .. len + 1 : i = len + 1 \/ i \in 1 .. len
    BY <1>0
  <2>3. Shape'
    <3>1. tokens' \in 0 .. L /\ tokens' <= L - 1
      BY <1>0, <1>2, Constants
    <3>2. \A i \in 1 .. len + 1 : admitted'[i] >= 0
      BY <2>1, <2>2, Constants
    <3>3. ASSUME NEW i \in 1 .. len + 1, NEW j \in 1 .. len + 1, i <= j
          PROVE  admitted'[i] >= admitted'[j]
      <4>1. CASE j = len + 1
        BY <2>1, <3>2, <4>1
      <4>2. CASE j \in 1 .. len
        <5>1. i \in 1 .. len
          BY <1>0, <3>3, <4>2
        <5> QED
          BY <1>0, <2>1, <3>3, <4>2, <5>1 DEF Places
      <4> QED
        BY <2>2, <4>1, <4>2
    <3> QED
      BY <1>0, <2>1, <3>1, <3>2, <3>3 DEF Shape, Places
  <2>4. ASSUME NEW i \in 1 .. len + 1
        PROVE  AtMost(len + 1 - i + 1 + (tok - 1), admitted'[i], e)
    <3>1. CASE i = len + 1
      <4>1. (len + 1 - i + 1 + (tok - 1)) = tok /\ admitted'[i] = 0
        BY <1>0, <2>1, <3>1
      <4>2. tok * W <= L * W + (0 - e) * L
        <5> HIDE DEF e
        <5> QED
          BY <1>a, Constants
      <4> QED
        BY <4>1, <4>2 DEF AtMost
    <3>2. CASE i \in 1 .. len
      <4>1. len + 1 - i + 1 + (tok - 1) = len - i + 1 + tok /\ admitted'[i] = admitted[i]
        BY <1>0, <2>1, <3>2
      <4> QED
        BY <1>0, <3>2, <4>1 DEF AtMost, Places
    <3> QED
      BY <2>2, <3>1, <3>2
  <2>5. ASSUME NEW d \in 0 .. W, NEW k \in 0 .. len + 1, \A i \in 1 .. k : admitted'[i] >= d
        PROVE  AtLeast(d, len + 1 - k + (tok - 1), e)
    <3>1. CASE k = len + 1
      <4>1. d = 0
        BY <1>0, <2>1, <2>5, <3>1
      <4>2. len + 1 - k + (tok - 1) = tok - 1
        BY <1>0, <3>1
      <4>3. tok - 1 \in Nat /\ e \in Nat /\ L \in Nat /\ W \in Nat
        BY <1>a, <1>2, Constants
      <4>4. L * (0 - e) <= 2 * ((tok - 1) * W)
        <5> DEFINE y == tok - 1
        <5> HIDE DEF e, y
        <5>1. 0 * W <= y * W /\ 0 * L <= e * L
          BY <4>3, Monotone DEF y
        <5>2. L * (0 - e) <= 2 * (y * W)
          BY <4>3, <5>1 DEF y
        <5> QED
          BY <5>2 DEF y
      <4> QED
        BY <4>1, <4>2, <4>4 DEF AtLeast
    <3>2. CASE k \in 0 .. len
      <4>1. \A i \in 1 .. k : admitted[i] >= d
        BY <1>0, <2>1, <2>5, <3>2
      <4>2. len + 1 - k + (tok - 1) = len - k + tok
        BY <1>0, <3>2
      <4> QED
        BY <1>1, <3>2, <4>1, <4>2 DEF AtLeast
    <3> QED
      BY <1>0, <3>1, <3>2
  <2>6. \A i \in Places' : AtMost(Len(admitted') - i + 1 + tokens', admitted'[i], e)
    BY <1>2, <2>1, <2>4 DEF Places
  <2>7. \A d \in 0 .. W : \A k \in 0 .. Len(admitted') :
           (\A i \in 1 .. k : admitted'[i] >= d) =>
               AtLeast(d, Len(admitted') - k + tokens', e)
    BY <1>2, <2>1, <2>5
  <2> QED
    BY Zenon, <1>2, <2>3, <2>6, <2>7 DEF BucketInv
<1>3. CASE tok = 0 /\ tokens' = 0 /\ answer' = "no" /\ admitted' = admitted
  <2>1. Shape'
    BY <1>0, <1>3, Constants DEF Shape, Places
  <2> QED
    BY <1>0, <1>1, <1>3, <2>1 DEF BucketInv, Places
<1> QED
  BY <1>2, <1>3 DEF Bucket!Take

LEMMA CallKeeps == BucketInv /\ Bucket!CheckRPM => BucketInv'
<1> SUFFICES ASSUME BucketInv, Bucket!CheckRPM PROVE BucketInv'
  OBVIOUS
<1>0. present' /\ sinceAccess' = 0
  BY DEF Bucket!CheckRPM
<1>1. CASE ~present /\ sinceRefill' = 0 /\ Bucket!Take(L)
  <2>1. admitted = <<>> /\ admitted \in Seq(0 .. W - 1) /\ Places = {}
    BY <1>1 DEF BucketInv, Shape, Places
  <2> QED
    BY <1>0, <1>1, <2>1, FullIsRefreshed, TakeKeeps
<1>2. ASSUME present, NEW n \in Bucket!Refills,
             sinceRefill' = IF Bucket!Restarts(n) THEN 0 ELSE sinceRefill,
             Bucket!Take(Bucket!Refilled(n))
      PROVE  BucketInv'
  BY <1>0, <1>2, RefillRefreshes, TakeKeeps
<1> QED
  BY <1>1, <1>2 DEF Bucket!CheckRPM, L

\* evictStale drops a bucket only when nothing that it admitted is in the window any more.
LEMMA EvictKeeps == BucketInv /\ Bucket!EvictStale => BucketInv'
<1> SUFFICES ASSUME BucketInv, Bucket!EvictStale PROVE BucketInv'
  OBVIOUS
<1>1. /\ ~present' /\ tokens' = L /\ sinceRefill' = 0 /\ sinceAccess' = 0 /\ answer' = "none"
      /\ admitted' = admitted /\ sinceAccess > IdleMax
  BY DEF Bucket!EvictStale, Bucket!Stale, L
<1>2. Len(admitted) = 0 /\ admitted = <<>>
  <2>1. /\ admitted \in Seq(0 .. W - 1) /\ Len(admitted) \in Nat /\ sinceAccess \in Nat
        /\ \A i \in 1 .. Len(admitted) : admitted[i] >= sinceAccess /\ admitted[i] \in 0 .. W - 1
    BY Constants DEF BucketInv, Shape, Places
  <2>2. Len(admitted) = 0
    <3> SUFFICES ASSUME Len(admitted) # 0 PROVE FALSE
      OBVIOUS
    <3>1. 1 \in 1 .. Len(admitted)
      BY <2>1
    <3> QED
      BY <1>1, <2>1, <3>1, Constants
  <2> QED
    BY <2>1, <2>2
<1>3. Shape'
  BY <1>1, <1>2, Constants DEF Shape, Places
<1>4. Refreshed(L, 0)
  <2>1. Places = {} /\ admitted \in Seq(0 .. W - 1)
    BY <1>2 DEF Places, BucketInv, Shape
  <2> QED
    BY <2>1, FullIsRefreshed
<1> QED
  BY <1>1, <1>2, <1>3, <1>4 DEF BucketInv, Refreshed, Places

LEMMA IsSequence ==
    ASSUME NEW S, NEW m \in Nat, NEW s \in [1 .. m -> S]
    PROVE  s \in Seq(S) /\ Len(s) = m
OBVIOUS

\* Sorted by age, the calls that leave the window are the first ones.
LEMMA Splits ==
    ASSUME NEW s \in Seq(Nat), NEW w \in Nat,
           \A i, j \in 1 .. Len(s) : i <= j => s[i] >= s[j]
    PROVE  \E n \in 0 .. Len(s) : \A i \in 1 .. Len(s) : s[i] + 1 < w <=> i > n
<1> DEFINE P(m, n) == \A i \in 1 .. m : s[i] + 1 < w <=> i > n
           I == {m \in Nat : m <= Len(s) => \E n \in 0 .. m : P(m, n)}
<1>1. 0 \in I
  OBVIOUS
<1>2. ASSUME NEW m \in Nat, m \in I PROVE m + 1 \in I
  <2> SUFFICES ASSUME m + 1 <= Len(s) PROVE \E n \in 0 .. m + 1 : P(m + 1, n)
    OBVIOUS
  <2>1. PICK n \in 0 .. m : P(m, n)
    BY <1>2
  <2>2. Len(s) \in Nat /\ m + 1 \in 1 .. Len(s) /\ \A i \in 1 .. Len(s) : s[i] \in Nat
    BY <1>2
  <2>3. \A i \in 1 .. m + 1 : i \in 1 .. m \/ i = m + 1
    OBVIOUS
  <2>4. CASE s[m + 1] + 1 < w
    <3>1. ASSUME NEW i \in 1 .. m + 1 PROVE s[i] + 1 < w <=> i > n
      BY <2>1, <2>3, <2>4, <3>1
    <3>2. P(m + 1, n) /\ n \in 0 .. m + 1
      BY <3>1
    <3> QED
      BY Zenon, <3>2
  <2>5. CASE ~(s[m + 1] + 1 < w)
    <3>1. ASSUME NEW i \in 1 .. m + 1 PROVE ~(s[i] + 1 < w) /\ ~(i > m + 1)
      <4>1. i \in 1 .. Len(s) /\ i <= m + 1
        BY <2>2
      <4>2. s[i] >= s[m + 1]
        BY <2>2, <4>1
      <4> QED
        BY <2>2, <2>5, <4>1, <4>2
    <3>2. P(m + 1, m + 1) /\ m + 1 \in 0 .. m + 1
      BY <3>1
    <3> QED
      BY Zenon, <3>2
  <2> QED
    BY <2>4, <2>5
<1> HIDE DEF I
<1>3. \A m \in Nat : m \in I
  BY Zenon, <1>1, <1>2, SetInduction
<1>4. Len(s) \in Nat /\ Len(s) <= Len(s)
  OBVIOUS
<1>5. Len(s) \in I
  BY <1>3, <1>4
<1> QED
  BY <1>4, <1>5 DEF I

\* A tick takes the calls of age W - 1 out of the window and makes the others older.
LEMMA Ages ==
    ASSUME Shape
    PROVE  \E g \in 0 .. Len(admitted) :
              /\ Bucket!Aged = [i \in 1 .. Len(admitted) - g |-> admitted[g + i] + 1]
              /\ \A i \in 1 .. Len(admitted) : admitted[i] + 1 < W <=> i > g
<1> DEFINE len == Len(admitted)
           older == [i \in 1 .. len |-> admitted[i] + 1]
           G(n) == \A i \in 1 .. len : older[i] < W <=> i > n
           g == CHOOSE n \in 0 .. len : G(n)
<1>1. admitted \in Seq(Nat) /\ len \in Nat /\ \A i, j \in 1 .. len : i <= j => admitted[i] >= admitted[j]
  BY Constants DEF Shape, Places
<1>2. \E n \in 0 .. len : G(n)
  BY Zenon, <1>1, Constants, Splits
<1>3. g \in 0 .. len /\ G(g)
  BY <1>2
<1>4. Bucket!Aged = [i \in 1 .. len - g |-> older[g + i]]
  BY DEF Bucket!Aged, W
<1> HIDE DEF g
<1>5. \A i \in 1 .. len - g : g + i \in 1 .. len
  BY <1>1, <1>3
<1>6. Bucket!Aged = [i \in 1 .. len - g |-> admitted[g + i] + 1]
  BY <1>4, <1>5
<1> QED
  BY <1>3, <1>6

LEMMA TickKeeps == BucketInv /\ Bucket!Tick => BucketInv'
<1> SUFFICES ASSUME BucketInv, Bucket!Tick PROVE BucketInv'
  OBVIOUS
<1> DEFINE len == Len(admitted)
           e == sinceRefill
           f == sinceRefill'
<1>1. /\ f = IF e + 1 > W THEN W ELSE e + 1
      /\ sinceAccess' = IF sinceAccess + 1 > IdleMax + 1 THEN IdleMax + 1 ELSE sinceAccess + 1
      /\ admitted' = Bucket!Aged /\ answer' = "none" /\ (present' <=> present) /\ tokens' = tokens
  BY DEF Bucket!Tick, Bucket!Capped, W
<1>2. PICK g \in 0 .. len :
         /\ Bucket!Aged = [i \in 1 .. len - g |-> admitted[g + i] + 1]
         /\ \A i \in 1 .. len : admitted[i] + 1 < W <=> i > g
  BY Ages DEF BucketInv
<1>3. /\ len \in Nat /\ tokens \in 0 .. L /\ e \in 0 .. W /\ sinceAccess \in 0 .. IdleMax + 1
      /\ \A i \in 1 .. len : admitted[i] \in 0 .. W - 1 /\ admitted[i] >= sinceAccess
      /\ \A i, j \in 1 .. len : i <= j => admitted[i] >= admitted[j]
  <2>1. /\ tokens \in 0 .. L /\ e \in 0 .. W /\ sinceAccess \in 0 .. IdleMax + 1
        /\ admitted \in Seq(0 .. W - 1)
        /\ \A i \in 1 .. len : admitted[i] >= sinceAccess
        /\ \A i, j \in 1 .. len : i <= j => admitted[i] >= admitted[j]
    BY DEF BucketInv, Shape, Places
  <2>2. len \in Nat /\ \A i \in 1 .. len : admitted[i] \in 0 .. W - 1
    <3>1. admitted \in Seq(0 .. W - 1)
      BY <2>1
    <3> QED
      BY <3>1, Constants
  <2> QED
    BY <2>1, <2>2
<1>4. f \in 0 .. W /\ f <= e + 1 /\ (f = e + 1 \/ f = W)
      /\ sinceAccess' \in 0 .. IdleMax + 1 /\ sinceAccess' <= sinceAccess + 1
  BY <1>1, <1>3, Constants
<1>5. /\ \A i \in 1 .. len - g : g + i \in 1 .. len /\ admitted'[i] = admitted[g + i] + 1
                                 /\ admitted'[i] \in 0 .. W - 1
      /\ admitted' \in Seq(0 .. W - 1) /\ Len(admitted') = len - g
  <2>1. len - g \in Nat /\ \A i \in 1 .. len - g : g + i \in 1 .. len /\ g + i > g
    BY <1>3
  <2>2. \A i \in 1 .. len - g : admitted[g + i] + 1 \in 0 .. W - 1
    BY <1>2, <1>3, <2>1, Constants
  <2>3. admitted' = [i \in 1 .. len - g |-> admitted[g + i] + 1]
    BY <1>1, <1>2
  <2>4. \A i \in 1 .. len - g : admitted'[i] = admitted[g + i] + 1
    BY <2>3
  <2> DEFINE m == len - g
  <2>5. admitted' \in [1 .. m -> 0 .. W - 1] /\ m \in Nat
    BY Zenon, <2>1, <2>2, <2>3
  <2> HIDE DEF m
  <2>6. admitted' \in Seq(0 .. W - 1) /\ Len(admitted') = m
    BY Zenon, <2>5, IsSequence
  <2> QED
    BY <2>1, <2>2, <2>4, <2>6 DEF m
<1>6. Shape'
  <2>1. ASSUME NEW i \in 1 .. len - g PROVE admitted'[i] >= sinceAccess'
    <3>1. /\ admitted'[i] = admitted[g + i] + 1 /\ admitted[g + i] \in 0 .. W - 1
          /\ admitted[g + i] >= sinceAccess
      BY <1>3, <1>5
    <3> QED
      BY <1>3, <1>4, <3>1, Constants
  <2>2. ASSUME NEW i \in 1 .. len - g, NEW j \in 1 .. len - g, i <= j
        PROVE  admitted'[i] >= admitted'[j]
    <3>1. g + i \in 1 .. len /\ g + j \in 1 .. len /\ g + i <= g + j
      BY <1>3, <1>5, <2>2
    <3>2. admitted[g + i] >= admitted[g + j]
      BY <1>3, <3>1
    <3> QED
      BY <1>3, <1>5, <3>1, <3>2, Constants
  <2>3. present => tokens <= L - 1
    BY DEF BucketInv, Shape
  <2>4. ~present => tokens = L /\ admitted' = <<>>
    <3> SUFFICES ASSUME ~present PROVE tokens = L /\ admitted' = <<>>
      OBVIOUS
    <3>1. tokens = L /\ len = 0
      BY DEF BucketInv, Shape
    <3>2. Len(admitted') = 0
      <4>1. g = 0
        BY <3>1
      <4> QED
        BY <1>5, <3>1, <4>1
    <3> QED
      BY <1>5, <3>1, <3>2
  <2> QED
    BY <1>1, <1>3, <1>4, <1>5, <2>1, <2>2, <2>3, <2>4 DEF Shape, Places
<1>7. ASSUME NEW i \in 1 .. len - g
      PROVE  AtMost(len - g - i + 1 + tokens, admitted'[i], f)
  <2> DEFINE b == admitted[g + i]
             c == len - (g + i) + 1 + tokens
  <2>1. AtMost(len - (g + i) + 1 + tokens, b, e)
    BY <1>5 DEF BucketInv, Places
  <2>2. c * W <= L * W + (b - e) * L
    BY <2>1 DEF AtMost
  <2>3. len - g - i + 1 + tokens = c /\ admitted'[i] = b + 1 /\ c \in Int /\ b \in Int
    BY <1>3, <1>5
  <2> HIDE DEF b, c, e, f
  <2>4. (b - e) * L <= (b + 1 - f) * L
    BY <1>3, <1>4, <2>3, Constants, Monotone
  <2>5. c * W <= L * W + (b + 1 - f) * L
    <3> DEFINE y == (b - e) * L
               z == (b + 1 - f) * L
               x == c * W
               v == L * W
    <3>1. x \in Int /\ y \in Int /\ z \in Int /\ v \in Int
      BY <1>3, <1>4, <2>3, Constants
    <3>2. x <= v + y /\ y <= z
      BY <2>2, <2>4
    <3> HIDE DEF x, y, z, v
    <3>3. x <= v + z
      BY <3>1, <3>2
    <3> QED
      BY <3>3 DEF x, z, v
  <2>6. AtMost(c, b + 1, f)
    BY <1>4, <2>3, <2>5, Constants DEF AtMost
  <2> QED
    BY <2>3, <2>6
<1>8. ASSUME NEW d \in 0 .. W, NEW k \in 0 .. len - g, \A i \in 1 .. k : admitted'[i] >= d
      PROVE  AtLeast(d, len - g - k + tokens, f)
  <2> DEFINE c == len - g - k + tokens
  <2>0. c \in Nat
    BY <1>3, Constants
  <2>1. CASE d = 0 \/ f = W
    <3>1. d - f \in Int /\ d - f <= 0
      <4> HIDE DEF f, e
      <4> QED
        BY <1>4, <2>1, Constants
    <3> DEFINE x == d - f
    <3> HIDE DEF c, x
    <3>2. x * L <= 0 * L /\ 0 * W <= c * W
      BY <2>0, <3>1, Constants, Monotone DEF x
    <3>3. L * x <= 2 * (c * W)
      BY <2>0, <3>1, <3>2, Constants DEF x
    <3> QED
      BY <3>3 DEF AtLeast, c, x
  <2>2. CASE d # 0 /\ f = e + 1
    <3>1. d - 1 \in 0 .. W /\ g + k \in 0 .. len
      BY <1>3, <2>2, Constants
    <3>2. ASSUME NEW i \in 1 .. g + k PROVE admitted[i] >= d - 1
      <4>1. i \in 1 .. len /\ admitted[i] \in 0 .. W - 1
        BY <1>3, <3>1
      <4>2. CASE i <= g
        <5>1. ~(admitted[i] + 1 < W)
          BY <1>2, <4>1, <4>2
        <5> QED
          BY <4>1, <5>1, Constants
      <4>3. CASE i > g
        <5>1. i - g \in 1 .. k /\ i - g \in 1 .. len - g /\ g + (i - g) = i
          BY <1>3, <4>1, <4>3
        <5>2. admitted'[i - g] >= d /\ admitted'[i - g] = admitted[i] + 1
          BY <1>5, <1>8, <5>1
        <5> QED
          BY <4>1, <5>2
      <4> QED
        BY <4>1, <4>2, <4>3
    <3>3. AtLeast(d - 1, len - (g + k) + tokens, e)
      BY <3>1, <3>2 DEF BucketInv
    <3>4. d - 1 - e = d - f /\ len - (g + k) + tokens = c
      BY <1>3, <2>2
    <3> QED
      BY <3>3, <3>4 DEF AtLeast
  <2> QED
    BY <1>4, <2>1, <2>2
<1> QED
  BY <1>1, <1>5, <1>6, <1>7, <1>8 DEF BucketInv, Places

LEMMA BucketInductive == BucketInv /\ [Bucket!Next]_bucketVars => BucketInv'
<1>1. ASSUME BucketInv, UNCHANGED bucketVars PROVE BucketInv'
  BY <1>1 DEF bucketVars, BucketInv, Shape, Places
<1> QED
  BY <1>1, CallKeeps, EvictKeeps, TickKeeps DEF Bucket!Next

\* Bucket.Allow and evictStale: for every limit and window, no more than a full bucket and
\* the refills of one window, less one, is admitted within a window.
THEOREM BurstTheorem == Bucket!Spec => []BurstIsBounded
<1>1. BucketInv => BurstIsBounded
  <2> SUFFICES ASSUME BucketInv PROVE Len(admitted) <= 2 * L - 1
    BY DEF BurstIsBounded, Bucket!BurstIsBounded, L
  <2> DEFINE len == Len(admitted)
  <2>1. admitted \in Seq(0 .. W - 1) /\ tokens \in 0 .. L /\ sinceRefill \in 0 .. W
    BY DEF BucketInv, Shape
  <2>2. len \in Nat /\ \A i \in 1 .. len : admitted[i] \in 0 .. W - 1
    BY <2>1, Constants
  <2>3. CASE len = 0
    BY <2>3, Constants
  <2>4. CASE len > 0
    <3> DEFINE y == admitted[1]
               t == len + tokens
               x == y - sinceRefill
    <3>1. 1 \in 1 .. len /\ len - 1 + 1 + tokens = t
      BY <2>1, <2>2, <2>4
    <3>2. AtMost(t, y, sinceRefill)
      BY <3>1 DEF BucketInv, Places
    <3>3. t \in Nat /\ len <= t /\ x \in Int /\ x <= W - 1
      BY <2>1, <2>2, <3>1, Constants
    <3>4. t * W <= L * W + x * L
      BY <3>2 DEF AtMost
    <3> HIDE DEF t, x
    <3>5. x * L <= (W - 1) * L
      BY <3>3, Constants, Monotone
    <3>6. t * W < 2 * L * W
      BY <3>3, <3>4, <3>5, Constants
    <3>7. ~(2 * L <= t)
      <4> SUFFICES ASSUME 2 * L <= t PROVE FALSE
        OBVIOUS
      <4>1. 2 * L * W <= t * W
        BY <3>3, Constants, Monotone
      <4> QED
        BY <3>3, <3>6, <4>1, Constants
    <3> QED
      BY <2>2, <3>3, <3>7, Constants
  <2> QED
    BY <2>2, <2>3, <2>4
<1> QED
  BY BucketInitially, BucketInductive, <1>1, PTL DEF Bucket!Spec, bucketVars, Bucket!vars

\* Bucket.Allow rounds every refill down, and the clock of the refill restarts with each
\* token: still a call is refused only if half the limit was admitted in the window before.
THEOREM RefusalIsEarnedTheorem == Bucket!Spec => []RefusalIsEarned
<1>1. BucketInv => RefusalIsEarned
  <2> SUFFICES ASSUME BucketInv, answer = "no" PROVE Len(admitted) >= L \div 2
    BY DEF RefusalIsEarned, Bucket!RefusalIsEarned, L
  <2> DEFINE len == Len(admitted)
             e == sinceRefill
  <2>1. len \in Nat /\ tokens = 0 /\ e \in 0 .. W /\ e * L <= W
    BY DEF BucketInv, Shape
  <2>2. W \in 0 .. W /\ 0 \in 0 .. len /\ len - 0 + tokens = len
    BY <2>1, Constants
  <2>3. AtLeast(W, len, e)
    BY <2>2 DEF BucketInv
  <2> HIDE DEF len, e
  <2>4. L * (W - e) <= 2 * (len * W)
    BY <2>3 DEF AtLeast
  <2>5. (L - 1) * W <= (2 * len) * W
    BY <2>1, <2>4, Constants
  <2>6. ~(2 * len + 1 <= L - 1)
    <3> SUFFICES ASSUME 2 * len + 1 <= L - 1 PROVE FALSE
      OBVIOUS
    <3>1. (2 * len + 1) * W <= (L - 1) * W
      BY <2>1, Constants, Monotone
    <3> QED
      BY <2>1, <2>5, <3>1, Constants
  <2>7. L - 1 <= 2 * len
    BY <2>1, <2>6, Constants
  <2>8. len >= L \div 2
    BY <2>1, <2>7, Constants
  <2> QED
    BY <2>8 DEF len
<1> QED
  BY BucketInitially, BucketInductive, <1>1, PTL DEF Bucket!Spec, bucketVars, Bucket!vars
=============================================================================
