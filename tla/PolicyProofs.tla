---------------------------- MODULE PolicyProofs ----------------------------
(***************************************************************************)
(* Where a request may go and what it may say, for every configuration.    *)
(* CircuitBreaker: a target is refused only while failures justify it.     *)
(* Routing: a plan keeps the healthy targets first and within the          *)
(* residency asked for, and routes are chosen by their weight.             *)
(* Guardrails: a request that is let through satisfies every stage of its  *)
(* pipeline.                                                               *)
(***************************************************************************)
EXTENDS CircuitBreaker, Policies, SubsequenceProofs, FiniteSetTheorems

-----------------------------------------------------------------------------
(* Circuit breaker *)

\* Saturating arithmetic stays in its range.
LEMMA AgeArithmetic ==
    /\ Old \in Nat \ {0}
    /\ Cooldown < Old /\ Window < Old
    /\ Unset \notin Age
    /\ \A a \in Age : Older(a) \in Age
    /\ \A n \in Nat : Saturated(n) \in Age
    /\ \A n \in 0 .. Threshold : More(n) \in 0 .. Threshold
BY ConstantsAssumption DEF Old, Age, Older, Saturated, More, Unset

\* The calls a caller may be given are calls.
LEMMA CallType ==
    ASSUME NEW n \in 1 .. Attempts, NEW at \in {"idle", "calling"}
    PROVE  Call(at, n) \in Calls
BY AgeArithmetic, ConstantsAssumption DEF Call, Calls, Age


\* TypeOK is inductive.
LEMMA TypeStep == TypeOK /\ [Next]_vars => TypeOK'
<1> SUFFICES ASSUME TypeOK, [Next]_vars PROVE TypeOK'
    OBVIOUS
<1> USE ConstantsAssumption, AgeArithmetic
<1>1. ASSUME NEW c \in Callers, NextAttempt(c)
      PROVE  call' \in [Callers -> Calls]
  <2>1. CASE call' = [call EXCEPT ![c] = Idle]
    BY <2>1, CallType DEF TypeOK, Idle
  <2>2. CASE /\ call[c].attempt < Attempts
             /\ call' = [call EXCEPT ![c] = Call("calling", call[c].attempt + 1)]
    <3>1. call[c].attempt + 1 \in 1 .. Attempts
      BY <2>2 DEF TypeOK, Calls
    <3> QED BY <2>2, <3>1, CallType DEF TypeOK
  <2> QED BY <1>1, <2>1, <2>2 DEF NextAttempt
<1>2. ASSUME NEW c \in Callers, Allow(c) PROVE TypeOK'
  <2>1. Call("calling", 1) \in Calls
    BY CallType
  <2>2. CASE LocalAllow(c)
    BY <2>1, <2>2 DEF LocalAllow, TypeOK, Breakers
  <2>3. CASE RedisAllow(c)
    BY <2>1, <2>3 DEF RedisAllow, TypeOK, Answered, Lost
  <2> QED BY <1>2, <2>2, <2>3 DEF Allow
<1>3. ASSUME NEW c \in Callers, RecordSuccess(c) PROVE TypeOK'
  <2>1. Idle \in Calls
    BY CallType DEF Idle
  <2>2. CASE LocalRecordSuccess(c)
    BY <2>1, <2>2 DEF LocalRecordSuccess, TypeOK, Breakers
  <2>3. CASE RedisRecordSuccess(c)
    BY <2>1, <2>3 DEF RedisRecordSuccess, TypeOK, Answered, Lost
  <2> QED BY <1>3, <2>2, <2>3 DEF RecordSuccess
<1>4. ASSUME NEW c \in Callers, RecordFailure(c) PROVE TypeOK'
  <2>1. CASE LocalRecordFailure(c)
    <3>1. LocalFailed(local[Home[c]]) \in Breakers
      BY DEF LocalFailed, TypeOK, Breakers, Age
    <3> QED BY <1>1, <2>1, <3>1 DEF LocalRecordFailure, TypeOK
  <2>2. CASE RedisReadClock(c)
    <3>0. Saturated(phase) \in Age
      BY DEF TypeOK
    <3>1. [call[c] EXCEPT !.pc = "incr", !.stamp = Saturated(phase)] \in Calls
      BY Zenon, <3>0 DEF TypeOK, Calls
    <3>2. call' = [call EXCEPT ![c] =
                     [call[c] EXCEPT !.pc = "incr", !.stamp = Saturated(phase)]]
      BY Zenon, <2>2 DEF RedisReadClock, TypeOK
    <3> QED BY <2>2, <3>1, <3>2 DEF RedisReadClock, TypeOK
  <2>3. CASE RedisHIncrBy(c)
    <3> DEFINE n == More(hash.failures)
    <3>1. n \in 0 .. Threshold
      BY Zenon DEF TypeOK
    <3>2. [call[c] EXCEPT !.pc = "mark", !.newCount = n] \in Calls
      BY Zenon, <3>1 DEF TypeOK, Calls
    <3>3. call' = [call EXCEPT ![c] =
                     [call[c] EXCEPT !.pc = "mark", !.newCount = n]]
      BY Zenon, <2>3 DEF RedisHIncrBy, TypeOK
    <3> QED BY <2>3, <3>1, <3>2, <3>3 DEF RedisHIncrBy, TypeOK
  <2>4. CASE RedisHIncrByFails(c)
    BY <1>1, <2>4 DEF RedisHIncrByFails, TypeOK, Lost
  <2>5. CASE RedisHSet(c)
    <3>1. Marked(hash, call[c]) \in [failures : 0 .. Threshold,
             sinceFail : Age \cup {Unset}, sinceOpened : Age \cup {Unset}]
      BY Zenon DEF Marked, TypeOK, Calls
    <3> QED BY <1>1, <2>5, <3>1 DEF RedisHSet, TypeOK, Answered, Lost
  <2> QED BY <1>4, <2>1, <2>2, <2>3, <2>4, <2>5 DEF RecordFailure
<1>5. ASSUME NEW i \in Instances, HealthCheck(i) PROVE TypeOK'
  BY Zenon, <1>5 DEF HealthCheck, TypeOK
<1>6. ASSUME NEW i \in Instances, Crash(i) PROVE TypeOK'
  <2>1. NewBreaker \in Breakers
    BY DEF NewBreaker, Breakers, Age
  <2>2. Idle \in Calls
    BY CallType DEF Idle
  <2> QED BY <1>6, <2>1, <2>2 DEF Crash, TypeOK, Lost
<1>7. CASE Tick
  <2>1. phase' \in 0 .. Second - 1
    <3>1. phase \in 0 .. Second - 1
      BY Zenon DEF TypeOK
    <3>2. phase' = IF phase + 1 < Second THEN phase + 1 ELSE 0
      BY ZenonT(40), <1>7 DEF Tick
    <3> QED BY <3>1, <3>2
  <2>2. local' \in [Instances -> Breakers]
    BY ZenonT(40), <1>7 DEF Tick, TypeOK, Breakers
  <2>3. hash' \in [failures : 0 .. Threshold, sinceFail : Age \cup {Unset},
                   sinceOpened : Age \cup {Unset}]
    BY ZenonT(40), <1>7 DEF Tick, TypeOK
  <2>4. call' \in [Callers -> Calls]
    <3>1. ASSUME NEW c \in Callers
          PROVE  [call[c] EXCEPT !.stamp = Older(@)] \in Calls
      BY DEF TypeOK, Calls
    <3> QED BY Zenon, <1>7, <3>1 DEF Tick, TypeOK
  <2> QED BY Zenon, <1>7, <2>1, <2>2, <2>3, <2>4 DEF Tick, TypeOK
<1>8. CASE UNCHANGED vars
  BY Zenon, <1>8 DEF TypeOK, vars
<1>9. ASSUME NEW c \in Callers, NoAttempt(c) PROVE TypeOK'
  <2>1. Idle \in Calls
    BY CallType DEF Idle
  <2> QED BY <1>9, <2>1 DEF NoAttempt, TypeOK
<1> QED BY <1>2, <1>3, <1>4, <1>5, <1>6, <1>7, <1>8, <1>9 DEF Next

\* Every state of the breaker, its hash and its callers is well typed.
THEOREM TypeCorrect == Spec => []TypeOK
<1>1. Init => TypeOK
  <2> SUFFICES ASSUME Init PROVE TypeOK
      OBVIOUS
  <2>1. NewBreaker \in Breakers
    BY ConstantsAssumption, AgeArithmetic DEF NewBreaker, Breakers, Age
  <2>2. Idle \in Calls
    BY ConstantsAssumption, CallType DEF Idle
  <2> QED BY <2>1, <2>2, ConstantsAssumption DEF Init, TypeOK
<1> QED BY <1>1, TypeStep, PTL DEF Spec

-----------------------------------------------------------------------------
(***************************************************************************)
(* The local breaker.  LocalRefusalIsRecent speaks of lastFail while       *)
(* localAllow looks at openedAt: it is inductive only together with the    *)
(* fact that the two coincide in an open breaker.                          *)
(***************************************************************************)
OpenedByLastFailure ==
    \A i \in Instances :
        local[i].failures >= Threshold => local[i].sinceOpened = local[i].sinceFail

LEMMA OpenedByLastFailureStep ==
    TypeOK /\ OpenedByLastFailure /\ [Next]_vars => OpenedByLastFailure'
<1> SUFFICES ASSUME TypeOK, OpenedByLastFailure, [Next]_vars
             PROVE  OpenedByLastFailure'
    OBVIOUS
<1> USE ConstantsAssumption, AgeArithmetic
<1>1. ASSUME UNCHANGED local PROVE OpenedByLastFailure'
  BY Zenon, <1>1 DEF OpenedByLastFailure
<1>2. ASSUME NEW c \in Callers, LocalAllow(c) PROVE OpenedByLastFailure'
  BY <1>2 DEF LocalAllow, OpenedByLastFailure, TypeOK, Breakers
<1>3. ASSUME NEW c \in Callers, LocalRecordSuccess(c)
      PROVE  OpenedByLastFailure'
  BY <1>3 DEF LocalRecordSuccess, OpenedByLastFailure, TypeOK, Breakers
<1>4. ASSUME NEW c \in Callers, LocalRecordFailure(c)
      PROVE  OpenedByLastFailure'
  <2>1. LET b == LocalFailed(local[Home[c]])
        IN  b.failures >= Threshold => b.sinceOpened = b.sinceFail
    BY Zenon DEF LocalFailed
  <2> QED BY <1>4, <2>1 DEF LocalRecordFailure, OpenedByLastFailure, TypeOK
<1>5. ASSUME NEW i \in Instances, Crash(i) PROVE OpenedByLastFailure'
  BY Zenon, <1>5 DEF Crash, NewBreaker, OpenedByLastFailure, TypeOK
<1>6. CASE Tick
  BY Zenon, <1>6 DEF Tick, OpenedByLastFailure, TypeOK, Breakers
<1> QED
  BY Zenon, <1>1, <1>2, <1>3, <1>4, <1>5, <1>6
     DEF Next, vars, Allow, RecordSuccess, RecordFailure, RedisAllow,
         RedisRecordSuccess, RedisReadClock, RedisHIncrBy, RedisHIncrByFails,
         RedisHSet, NoAttempt, HealthCheck

\* localAllow refuses only within Cooldown of a failure of its own instance,
\* for any interleaving of callers, health changes, faults and crashes.
THEOREM LocalRefusal == Spec => []LocalRefusalIsRecent
<1>1. Init => OpenedByLastFailure
  BY DEF Init, NewBreaker, OpenedByLastFailure
<1>2. TypeOK /\ OpenedByLastFailure => LocalRefusalIsRecent
  <2> SUFFICES ASSUME TypeOK, OpenedByLastFailure, NEW i \in Instances,
                      ~LocalAdmits(i)
               PROVE  local[i].sinceFail <= Cooldown
      BY Zenon DEF LocalRefusalIsRecent
  <2>1. /\ local[i].failures \in Int
        /\ local[i].sinceOpened \in Int
    BY ConstantsAssumption, AgeArithmetic DEF TypeOK, Breakers, Age
  <2>2. /\ local[i].failures >= Threshold
        /\ local[i].sinceOpened <= Cooldown
    BY <2>1, ConstantsAssumption DEF LocalAdmits
  <2> QED BY <2>2 DEF OpenedByLastFailure
<1> QED BY <1>1, <1>2, OpenedByLastFailureStep, TypeCorrect, PTL DEF Spec

\* A local breaker opens only on a failure within Window of the previous one.
THEOREM LocalWindow == Spec => LocalOpensInWindow
<1> DEFINE A ==
       \A i \in Instances :
          /\ Threshold > 1
          /\ local[i].failures < Threshold
          /\ local'[i].failures >= Threshold
          => local[i].sinceFail <= Window
<1>1. TypeOK /\ [Next]_vars => [A]_vars
  <2> SUFFICES ASSUME TypeOK, Next PROVE A
      OBVIOUS
  <2> USE ConstantsAssumption
  <2>0. ASSUME NEW i \in Instances
        PROVE  local[i] \in Breakers /\ local[i].failures \in Int
    BY DEF TypeOK, Breakers
  <2>1. ASSUME \A i \in Instances : \/ local'[i].failures = local[i].failures
                                   \/ local'[i].failures = 0
        PROVE  A
    BY <2>0, <2>1
  <2>2. ASSUME NEW c \in Callers, LocalAllow(c) PROVE A
    BY Zenon, <2>1, <2>2 DEF LocalAllow, TypeOK, Breakers
  <2>3. ASSUME NEW c \in Callers, LocalRecordSuccess(c) PROVE A
    BY Zenon, <2>1, <2>3 DEF LocalRecordSuccess, TypeOK, Breakers
  <2>4. ASSUME NEW c \in Callers, LocalRecordFailure(c) PROVE A
    <3> SUFFICES ASSUME NEW i \in Instances, Threshold > 1,
                        local[i].failures < Threshold,
                        local'[i].failures >= Threshold
                 PROVE  local[i].sinceFail <= Window
        OBVIOUS
    <3>1. i = Home[c] /\ local'[i] = LocalFailed(local[i])
      BY <2>0, <2>4 DEF LocalRecordFailure, TypeOK
    <3>2. local[i].sinceFail \in Int
      BY <2>0, AgeArithmetic DEF Breakers, Age
    <3> QED BY <3>1, <3>2 DEF LocalFailed
  <2>5. ASSUME NEW i \in Instances, Crash(i) PROVE A
    BY Zenon, <2>1, <2>5 DEF Crash, NewBreaker, TypeOK
  <2>6. CASE Tick
    BY Zenon, <2>1, <2>6 DEF Tick, TypeOK, Breakers
  <2> QED
    BY Zenon, <2>1, <2>2, <2>3, <2>4, <2>5, <2>6
       DEF Next, Allow, RecordSuccess, RecordFailure, RedisAllow,
           RedisRecordSuccess, RedisReadClock, RedisHIncrBy,
           RedisHIncrByFails, RedisHSet, NoAttempt, HealthCheck
<1> QED BY <1>1, TypeCorrect, PTL DEF Spec, LocalOpensInWindow

-----------------------------------------------------------------------------
(***************************************************************************)
(* The shared breaker, until a fault happens.  A counter at the threshold  *)
(* has its opened_at, or the call that took it there is still on its way   *)
(* to write it.                                                            *)
(***************************************************************************)
OpenIsMarked ==
    \/ faults < MaxFaults
    \/ hash.failures < Threshold
    \/ hash.sinceOpened # Unset
    \/ \E c \in Callers : call[c].pc = "mark" /\ call[c].newCount >= Threshold

LEMMA OpenIsMarkedStep ==
    TypeOK /\ OpenIsMarked /\ [Next]_vars => OpenIsMarked'
<1> SUFFICES ASSUME TypeOK, OpenIsMarked, [Next]_vars PROVE OpenIsMarked'
    OBVIOUS
<1> USE ConstantsAssumption, AgeArithmetic
<1>0. ASSUME Lost PROVE OpenIsMarked'
  <2>1. faults \in Int /\ faults <= MaxFaults /\ faults' = faults - 1
    BY <1>0 DEF TypeOK, Lost
  <2> QED BY <2>1 DEF OpenIsMarked
<1>1. ASSUME UNCHANGED <<hash, faults>>, NEW d \in Callers, call[d].pc # "mark",
             \A c \in Callers \ {d} : call'[c] = call[c]
      PROVE  OpenIsMarked'
  BY Zenon, <1>1 DEF OpenIsMarked
<1>2. ASSUME NEW c \in Callers, Allow(c) PROVE OpenIsMarked'
  BY Zenon, <1>0, <1>1, <1>2 DEF Allow, LocalAllow, RedisAllow, Answered, TypeOK
<1>3. ASSUME NEW c \in Callers, RecordSuccess(c) PROVE OpenIsMarked'
  <2>1. CASE LocalRecordSuccess(c)
    BY Zenon, <1>1, <2>1 DEF LocalRecordSuccess, TypeOK
  <2>2. CASE RedisRecordSuccess(c)
    BY <1>0, <2>2 DEF RedisRecordSuccess, Answered, OpenIsMarked, TypeOK
  <2> QED BY <1>3, <2>1, <2>2 DEF RecordSuccess
<1>4. ASSUME NEW c \in Callers, LocalRecordFailure(c) PROVE OpenIsMarked'
  BY Zenon, <1>1, <1>4 DEF LocalRecordFailure, NextAttempt, TypeOK
<1>5. ASSUME NEW c \in Callers, RedisReadClock(c) PROVE OpenIsMarked'
  BY Zenon, <1>1, <1>5 DEF RedisReadClock, TypeOK
<1>6. ASSUME NEW c \in Callers, RedisHIncrBy(c) PROVE OpenIsMarked'
  <2>1. /\ hash'.failures = More(hash.failures)
        /\ call'[c].pc = "mark"
        /\ call'[c].newCount = More(hash.failures)
        /\ hash.failures \in Int
    BY <1>6 DEF RedisHIncrBy, TypeOK, Calls
  <2>2. More(hash.failures) \in Int
    BY <2>1 DEF More
  <2> QED BY <2>1, <2>2 DEF OpenIsMarked
<1>7. ASSUME NEW c \in Callers, RedisHSet(c), ~Lost PROVE OpenIsMarked'
  <2>1. hash' = Marked(hash, call[c]) /\ faults' = faults
    BY Zenon, <1>7 DEF RedisHSet, Answered
  <2>2. CASE call[c].newCount >= Threshold
    <3>1. call[c].stamp \in Age
      BY Zenon DEF TypeOK, Calls
    <3>2. call[c].stamp # Unset
      BY Zenon, <3>1 DEF Age
    <3>3. hash'.sinceOpened = call[c].stamp
      BY <2>1, <2>2 DEF Marked, TypeOK
    <3> QED BY <3>2, <3>3 DEF OpenIsMarked
  <2>3. CASE ~(call[c].newCount >= Threshold)
    <3>1. \A d \in Callers \ {c} : call'[d] = call[d]
      BY Zenon, <1>7 DEF RedisHSet, NextAttempt, TypeOK
    <3>2. hash'.failures = hash.failures /\ hash'.sinceOpened = hash.sinceOpened
      BY Zenon, <2>1, <2>3 DEF Marked, TypeOK
    <3> QED BY <2>1, <2>3, <3>1, <3>2 DEF OpenIsMarked
  <2> QED BY <2>2, <2>3
<1>8. ASSUME NEW i \in Instances, HealthCheck(i) PROVE OpenIsMarked'
  BY Zenon, <1>8 DEF HealthCheck, OpenIsMarked
<1>9. CASE Tick
  <2>1. /\ hash'.failures = hash.failures
        /\ hash.sinceOpened # Unset => hash'.sinceOpened # Unset
    BY ZenonT(40), <1>9 DEF Tick, TypeOK
  <2>2. \A c \in Callers : /\ call'[c].pc = call[c].pc
                           /\ call'[c].newCount = call[c].newCount
    BY Zenon, <1>9 DEF Tick, TypeOK, Calls
  <2> QED BY ZenonT(40), <1>9, <2>1, <2>2 DEF Tick, OpenIsMarked
<1>10. CASE UNCHANGED vars
  BY Zenon, <1>10 DEF vars, OpenIsMarked
<1>11. ASSUME NEW c \in Callers, NoAttempt(c) PROVE OpenIsMarked'
  BY Zenon, <1>1, <1>11 DEF NoAttempt, TypeOK
<1> QED
  BY SMTT(30), <1>0, <1>2, <1>3, <1>4, <1>5, <1>6, <1>7, <1>8, <1>9, <1>10, <1>11
     DEF Next, RecordFailure, RedisHIncrByFails, Crash

\* Until a fault happens redisAllow refuses only within Cooldown of the failure
\* that set opened_at, or while the call that reached the threshold is still
\* between its HINCRBY and its HSET.
THEOREM SharedRefusal == Spec => []SharedRefusalIsRecent
<1>1. Init => OpenIsMarked
  BY ConstantsAssumption DEF Init, OpenIsMarked
<1>2. TypeOK /\ OpenIsMarked => SharedRefusalIsRecent
  BY ConstantsAssumption, AgeArithmetic
     DEF OpenIsMarked, SharedRefusalIsRecent, SharedAdmits, TypeOK, Age
<1> QED BY <1>1, <1>2, OpenIsMarkedStep, TypeCorrect, PTL DEF Spec

-----------------------------------------------------------------------------
(* Routing *)

\* Every target that the configuration of the job has.
AllTargets == UNION {Range(Route!expandRoute(p)) : p \in DOMAIN job.regions}

\* A target with a region is one that its provider has, tagged as New recorded it.
LEMMA TargetsListed ==
    ASSUME job \in Jobs, NEW t \in AllTargets, t.region # Route!NoRegion
    PROVE  /\ t.region \in Route!Names(job)
           /\ t.provider \in Route!Owners(job, t.region)
           /\ t.tag = res[t.region]
<1>1. PICK p \in DOMAIN job.regions : t \in Range(Route!expandRoute(p))
  BY Zenon DEF AllTargets
<1>2. job.regions[p] # <<>>
  <2> SUFFICES ASSUME job.regions[p] = <<>> PROVE FALSE
    OBVIOUS
  <2> DEFINE u == [provider |-> p, region |-> Route!NoRegion, tag |-> ""]
  <2>1. Route!expandRoute(p) = <<u>>
    BY Zenon DEF Route!expandRoute
  <2>2. u.region = Route!NoRegion
    OBVIOUS
  <2> HIDE DEF u
  <2>3. t = u
    BY <1>1, <2>1 DEF Range
  <2> QED
    BY <2>2, <2>3
<1> DEFINE at(i) == [provider |-> p, region |-> job.regions[p][i].name, tag |-> res[job.regions[p][i].name]]
<1>3. Route!expandRoute(p) = [i \in DOMAIN job.regions[p] |-> at(i)]
  BY Zenon, <1>2 DEF Route!expandRoute
<1>4. PICK i \in DOMAIN job.regions[p] : t = at(i)
  BY <1>1, <1>3 DEF Range
<1>5. t.provider = p /\ t.region = job.regions[p][i].name /\ t.tag = res[t.region]
  BY <1>4
<1> QED
  BY <1>5 DEF Route!Names, Route!Owners

LEMMA ExpandType ==
    ASSUME job \in Jobs, NEW p \in DOMAIN job.regions
    PROVE  Route!expandRoute(p) \in Seq(AllTargets) \ {<<>>}
<1> DEFINE e == Route!expandRoute(p)
<1>1. \A i \in DOMAIN e : e[i] \in AllTargets
  BY DEF AllTargets, Range
<1>2. CASE job.regions[p] = <<>>
  <2> DEFINE u == [provider |-> p, region |-> Route!NoRegion, tag |-> ""]
  <2>1. e = <<u>>
    BY Zenon, <1>2 DEF Route!expandRoute
  <2> HIDE DEF u, e
  <2>2. u \in AllTargets
    BY <1>1, <2>1
  <2>3. <<u>> \in Seq(AllTargets) \ {<<>>}
    BY <2>2
  <2> QED
    BY Zenon, <2>1, <2>3 DEF e
<1>3. CASE job.regions[p] # <<>>
  <2>1. job.regions[p] \in ProviderRegions
    BY JobsAssumption
  <2> DEFINE n == Len(job.regions[p])
  <2>2. n \in Nat \ {0} /\ DOMAIN job.regions[p] = 1 .. n
    BY <1>3, <2>1 DEF ProviderRegions
  <2>3. e \in [1 .. n -> AllTargets]
    BY Zenon, <1>1, <1>3, <2>2 DEF Route!expandRoute
  <2> QED
    BY <2>2, <2>3
<1> QED
  BY <1>2, <1>3

\* A route names a provider.
LEMMA RouteProvider ==
    ASSUME job \in Jobs, NEW routes \in {job.routes, job.fallbacks}, NEW c \in DOMAIN routes
    PROVE  routes[c].provider \in DOMAIN job.regions
<1>1. routes \in Routes(job)
  BY JobsAssumption
<1> DEFINE X == [provider : DOMAIN job.regions, weight : Int]
<1>2. routes \in Seq(X) /\ \A x \in X : x.provider \in DOMAIN job.regions
  BY Zenon, <1>1 DEF Routes
<1> HIDE DEF X
<1> QED
  BY <1>2

\* The fallbacks of a job, collected route by route.
LEMMA FallbacksType ==
    ASSUME job \in Jobs
    PROVE  Route!Fallbacks \in Seq(AllTargets)
<1> DEFINE N == Len(job.fallbacks)
           V == Seq(AllTargets)
           more(n) == Route!expandRoute(job.fallbacks[n].provider)
           step == [n \in 1 .. N |-> [v \in V |-> v \o more(n)]]
           Solution(f) == f = [n \in 0 .. N |-> IF n = 0 THEN <<>> ELSE f[n - 1] \o more(n)]
<1>1. N \in Nat /\ \A n \in 1 .. N : job.fallbacks[n].provider \in DOMAIN job.regions
  <2>1. job.fallbacks \in Routes(job)
    BY JobsAssumption
  <2>2. N \in Nat /\ DOMAIN job.fallbacks = 1 .. N
    BY <2>1 DEF Routes
  <2> QED
    BY <2>2, RouteProvider
<1>2. \A n \in 1 .. N : more(n) \in V
  BY <1>1, ExpandType
<1>3. <<>> \in V
  OBVIOUS
<1>4. \A n \in 1 .. N : \A v \in V : v \o more(n) \in V
  BY <1>2
<1>5. step \in [1 .. N -> [V -> V]]
  BY <1>4
<1>6. \A n \in 1 .. N : \A v \in V : step[n][v] = v \o more(n)
  OBVIOUS
<1>7. Route!Fallbacks = (CHOOSE f : Solution(f))[N]
  BY Zenon DEF Route!Fallbacks
<1> HIDE DEF V, step, N, more
<1>8. PICK g : Solves(g, N, V, <<>>, step)
  BY <1>1, <1>3, <1>5, Recursion
<1>9. \A n \in 1 .. N : g[n] = g[n - 1] \o more(n)
  <2> SUFFICES ASSUME NEW n \in 1 .. N PROVE g[n] = g[n - 1] \o more(n)
    OBVIOUS
  <2>1. g[n - 1] \in V
    BY <1>1, <1>8 DEF Solves
  <2> QED
    BY Zenon, <1>6, <1>8, <2>1 DEF Solves
<1>10. Solution(g)
  BY SMTT(30), <1>1, <1>8, <1>9 DEF Solves
<1> DEFINE f == CHOOSE f : Solution(f)
<1>11. Solution(f)
  BY Zenon, <1>10
<1> HIDE DEF f
<1>12. f[0] = g[0] /\ \A n \in 1 .. N : f[n - 1] = g[n - 1] => f[n] = g[n]
  <2>1. f[0] = <<>> /\ \A n \in 1 .. N : f[n] = f[n - 1] \o more(n)
    <3>1. N \in Nat
      BY <1>1
    <3>2. 0 \in 0 .. N /\ \A n \in 1 .. N : n \in 0 .. N /\ n # 0
      BY <3>1
    <3> QED
      BY Zenon, <1>11, <3>2
  <2> HIDE DEF Solution
  <2> QED
    BY Zenon, <1>8, <1>9, <2>1 DEF Solves
<1>13. f[N] = g[N]
  <2> HIDE DEF Solution
  <2>1. N \in 0 .. N
    BY <1>1
  <2> QED
    BY ZenonT(60), <1>1, <1>12, <2>1, RecursionUnique
<1> QED
  BY <1>1, <1>7, <1>8, <1>13 DEF f, V, Solves

-----------------------------------------------------------------------------
(* The plan *)

\* chooseWeighted stops at a route, whatever rand picks.
LEMMA RouteChosen ==
    ASSUME job \in Jobs, NEW pick
    PROVE  Route!chooseWeighted(job.routes, pick) \in DOMAIN job.routes
<1> DEFINE routes == job.routes
           c == Route!chooseWeighted(routes, pick)
<1>1. Len(routes) \in Nat \ {0} /\ DOMAIN routes = 1 .. Len(routes)
  <2>1. job.routes \in Routes(job) \ {<<>>}
    BY JobsAssumption
  <2> QED
    BY <2>1 DEF Routes
<1> DEFINE left == CHOOSE f : f = [i \in DOMAIN routes |->
                      IF i = 1 THEN pick ELSE f[i - 1] - Route!Weight(routes[i - 1])]
           S == {i \in DOMAIN routes : Route!Taken(left[i], Route!Weight(routes[i]))}
<1>2. c = IF Len(routes) = 1 \/ S = {} THEN 1 ELSE CHOOSE i \in S : \A k \in S : i <= k
  BY Zenon DEF Route!chooseWeighted
<1>3. S \subseteq DOMAIN routes
  OBVIOUS
<1> SUFFICES c \in DOMAIN routes
  OBVIOUS
<1> HIDE DEF routes, c, S
<1>4. CASE S = {} \/ Len(routes) = 1
  BY <1>1, <1>2, <1>4
<1>5. CASE S # {} /\ Len(routes) # 1
  <2>1. S \in SUBSET Nat
    BY <1>1, <1>3
  <2>2. \E i \in S : \A k \in S : i <= k
    BY <1>5, <2>1, Least
  <2>3. c \in S
    BY <1>2, <1>5, <2>2
  <2> QED
    BY <1>3, <2>3
<1> QED
  BY <1>4, <1>5

\* The weights add up.
LEMMA WeightsAdd ==
    ASSUME NEW P, NEW routes \in Seq([provider : P, weight : Int])
    PROVE  LET U == Route!WeightUpTo(routes)
           IN  /\ U \in [0 .. Len(routes) -> Nat] /\ U[0] = 0
               /\ \A n \in 1 .. Len(routes) :
                     U[n] = U[n - 1] + Route!Weight(routes[n]) /\ Route!Weight(routes[n]) \in Nat \ {0}
<1> DEFINE N == Len(routes)
           Step(f) == f = [n \in 0 .. N |-> IF n = 0 THEN 0 ELSE f[n - 1] + Route!Weight(routes[n])]
           step == [n \in 1 .. N |-> [v \in Nat |-> v + Route!Weight(routes[n])]]
           U == Route!WeightUpTo(routes)
<1>1. N \in Nat /\ \A n \in 1 .. N : Route!Weight(routes[n]) \in Nat \ {0}
  <2>1. \A n \in 1 .. N : routes[n].weight \in Int
    <3> DEFINE R == [provider : P, weight : Int]
    <3>1. routes \in Seq(R)
      OBVIOUS
    <3> HIDE DEF R
    <3>2. \A n \in 1 .. N : routes[n] \in R
      BY <3>1
    <3> QED
      BY Zenon, <3>2 DEF R
  <2>2. \A n \in 1 .. N : Route!Weight(routes[n]) \in Nat \ {0}
    BY <2>1 DEF Route!Weight
  <2> QED
    BY <2>2
<1>2. U = CHOOSE f : Step(f)
  BY Zenon DEF Route!WeightUpTo
<1>3. step \in [1 .. N -> [Nat -> Nat]]
  BY <1>1
<1> SUFFICES /\ U \in [0 .. N -> Nat] /\ U[0] = 0
             /\ \A n \in 1 .. N :
                   U[n] = U[n - 1] + Route!Weight(routes[n]) /\ Route!Weight(routes[n]) \in Nat \ {0}
  OBVIOUS
<1> HIDE DEF U, N
<1>4. \E f : Solves(f, N, Nat, 0, step)
  <2> HIDE DEF step
  <2> QED
    BY Zenon, <1>1, <1>3, Recursion
<1>5. PICK f : Solves(f, N, Nat, 0, step)
  BY Zenon, <1>4
<1>6. /\ f \in [0 .. N -> Nat] /\ f[0] = 0
      /\ \A n \in 1 .. N : f[n] = step[n][f[n - 1]]
  BY Zenon, <1>5 DEF Solves
<1>7. \A n \in 1 .. N : n - 1 \in 0 .. N /\ f[n - 1] \in Nat
  BY <1>1, <1>6
<1>8. \A n \in 1 .. N : f[n] = f[n - 1] + Route!Weight(routes[n])
  BY Zenon, <1>6, <1>7
<1>9. Step(f)
  <2> SUFFICES ASSUME NEW n \in 0 .. N
               PROVE  f[n] = IF n = 0 THEN 0 ELSE f[n - 1] + Route!Weight(routes[n])
    BY <1>6
  <2>1. n = 0 \/ n \in 1 .. N
    BY <1>1
  <2> QED
    BY <1>6, <1>8, <2>1
<1>10. Step(U)
  <2> HIDE DEF Step
  <2> QED
    BY <1>2, <1>9
<1>11. U[0] = 0 /\ \A n \in 1 .. N : U[n] = U[n - 1] + Route!Weight(routes[n])
  BY <1>1, <1>10
<1>12. DOMAIN U = 0 .. N /\ U = [n \in 0 .. N |-> U[n]]
  <2> DEFINE e(n) == IF n = 0 THEN 0 ELSE U[n - 1] + Route!Weight(routes[n])
  <2>1. U = [n \in 0 .. N |-> e(n)]
    BY Zenon, <1>10
  <2> HIDE DEF e
  <2> QED
    BY <2>1
<1> HIDE DEF Step
<1>13. \A n \in 0 .. N : U[n] = f[n]
  <2>1. ASSUME NEW n \in 1 .. N, U[n - 1] = f[n - 1] PROVE U[n] = f[n]
    BY <1>8, <1>11, <2>1
  <2>2. U[0] = f[0] /\ N \in Nat
    BY <1>1, <1>6, <1>11
  <2> QED
    BY ZenonT(60), <2>1, <2>2, RecursionUnique
<1>14. U \in [0 .. N -> Nat]
  BY <1>6, <1>12, <1>13
<1> QED
  BY <1>1, <1>11, <1>14

\* chooseWeighted gives each route as many of the numbers that rand may pick as it has
\* weight: those from the sum of the weights before it on.
THEOREM ShareOfPicks ==
    ASSUME NEW P, NEW routes \in Seq([provider : P, weight : Int]), routes # <<>>,
           NEW pick \in 0 .. Route!Total(routes) - 1
    PROVE  LET c == Route!chooseWeighted(routes, pick)
               before == Route!WeightUpTo(routes)[c - 1]
           IN  c \in DOMAIN routes /\ before <= pick /\ pick < before + Route!Weight(routes[c])
<1> DEFINE N == Len(routes)
           W(i) == Route!Weight(routes[i])
           U == Route!WeightUpTo(routes)
           c == Route!chooseWeighted(routes, pick)
           Left(f) == f = [i \in DOMAIN routes |-> IF i = 1 THEN pick ELSE f[i - 1] - Route!Weight(routes[i - 1])]
           left == CHOOSE f : Left(f)
           S == {i \in DOMAIN routes : Route!Taken(left[i], Route!Weight(routes[i]))}
           g == [i \in DOMAIN routes |-> pick - U[i - 1]]
<1>1. N \in Nat \ {0} /\ DOMAIN routes = 1 .. N
  OBVIOUS
<1>2. /\ U \in [0 .. N -> Nat] /\ U[0] = 0
      /\ \A n \in 1 .. N : U[n] = U[n - 1] + W(n) /\ W(n) \in Nat \ {0}
  BY Zenon, WeightsAdd
<1>3. c = IF N = 1 \/ S = {} THEN 1 ELSE CHOOSE i \in S : \A k \in S : i <= k
  BY Zenon DEF Route!chooseWeighted
<1>4. pick \in Nat /\ pick < U[N]
  <2>1. U[N] \in Nat /\ pick \in 0 .. U[N] - 1
    BY <1>1, <1>2 DEF Route!Total
  <2> HIDE DEF U, N
  <2> QED
    BY <2>1
<1> SUFFICES c \in DOMAIN routes /\ U[c - 1] <= pick /\ pick < U[c - 1] + W(c)
  OBVIOUS
<1> HIDE DEF N, U, c
<1>5. Left(g)
  <2> SUFFICES ASSUME NEW i \in 1 .. N
               PROVE  g[i] = IF i = 1 THEN pick ELSE g[i - 1] - W(i - 1)
    BY Zenon, <1>1
  <2>1. g[i] = pick - U[i - 1]
    BY <1>1
  <2>2. CASE i = 1
    BY <1>2, <1>4, <2>1, <2>2
  <2>3. CASE i # 1
    <3>1. i - 1 \in 1 .. N /\ (i - 1) - 1 \in 0 .. N
      BY <1>1, <2>3
    <3>2. g[i - 1] = pick - U[(i - 1) - 1] /\ U[i - 1] = U[(i - 1) - 1] + W(i - 1)
      BY <1>1, <1>2, <3>1
    <3>3. U[(i - 1) - 1] \in Nat /\ W(i - 1) \in Nat
      BY Zenon, <1>2, <3>1
    <3> HIDE DEF W, g
    <3> QED
      BY <1>4, <2>1, <2>3, <3>2, <3>3
  <2> QED
    BY <2>2, <2>3
<1>6. Left(left)
  <2> HIDE DEF Left
  <2> QED
    BY <1>5
<1> HIDE DEF left
<1>7. ASSUME NEW h, Left(h)
      PROVE  h[1] = pick /\ \A i \in 2 .. N : h[i] = h[i - 1] - W(i - 1)
  <2> DEFINE e(i) == IF i = 1 THEN pick ELSE h[i - 1] - Route!Weight(routes[i - 1])
  <2>1. h = [i \in 1 .. N |-> e(i)]
    BY <1>1, <1>7, Zenon
  <2> HIDE DEF e
  <2>2. \A i \in 1 .. N : h[i] = e(i)
    BY <2>1
  <2>3. 1 \in 1 .. N /\ \A i \in 2 .. N : i \in 1 .. N /\ i # 1
    BY <1>1
  <2> QED
    BY Zenon, <2>2, <2>3 DEF e
<1> HIDE DEF Left
<1>8. left[1] = pick /\ \A i \in 2 .. N : left[i] = left[i - 1] - W(i - 1)
  BY <1>6, <1>7
<1>9. g[1] = pick /\ \A i \in 2 .. N : g[i] = g[i - 1] - W(i - 1)
  <2> HIDE DEF g
  <2> QED
    BY <1>5, <1>7
<1>10. \A i \in 1 .. N : left[i] = g[i]
  <2> DEFINE F == [n \in 0 .. N - 1 |-> left[n + 1]]
             G == [n \in 0 .. N - 1 |-> g[n + 1]]
  <2> HIDE DEF g, W
  <2>1. F[0] = G[0]
    BY <1>1, <1>8, <1>9
  <2>2. ASSUME NEW n \in 1 .. N - 1, F[n - 1] = G[n - 1] PROVE F[n] = G[n]
    <3>1. n + 1 \in 2 .. N /\ (n + 1) - 1 = n /\ (n - 1) + 1 = n /\ n - 1 \in 0 .. N - 1 /\ n \in 0 .. N - 1
      BY <1>1
    <3>2. left[n] = g[n]
      BY <2>2, <3>1
    <3>3. left[n + 1] = left[n] - W(n) /\ g[n + 1] = g[n] - W(n)
      BY <1>8, <1>9, <3>1
    <3> QED
      BY <3>1, <3>2, <3>3
  <2> DEFINE last == N - 1
  <2> HIDE DEF F, G
  <2>3. last \in Nat /\ \A n \in 1 .. last : F[n - 1] = G[n - 1] => F[n] = G[n]
    BY <1>1, <2>2
  <2> HIDE DEF last
  <2>4. \A n \in 0 .. last : F[n] = G[n]
    BY ZenonT(60), <2>1, <2>3, RecursionUnique
  <2> SUFFICES ASSUME NEW i \in 1 .. N PROVE left[i] = g[i]
    OBVIOUS
  <2>5. i - 1 \in 0 .. N - 1 /\ (i - 1) + 1 = i
    BY <1>1
  <2> QED
    BY Zenon, <2>4, <2>5 DEF F, G, last
<1>11. \A i \in 1 .. N : left[i] = pick - U[i - 1] /\ i - 1 \in 0 .. N
  BY <1>1, <1>10
<1>12. \A i \in 1 .. N : i \in S <=> pick < U[i]
  <2> SUFFICES ASSUME NEW i \in 1 .. N PROVE left[i] < W(i) <=> pick < U[i]
    BY Zenon, <1>1 DEF Route!Taken
  <2>1. left[i] = pick - U[i - 1] /\ U[i - 1] \in Nat /\ U[i] = U[i - 1] + W(i) /\ W(i) \in Nat
    BY Zenon, <1>2, <1>11
  <2> HIDE DEF W
  <2> QED
    BY <1>4, <2>1
<1>13. S \subseteq 1 .. N
  BY <1>1
<1> HIDE DEF S, W
<1>14. N \in S
  BY <1>1, <1>4, <1>12
<1>15. c \in 1 .. N /\ pick < U[c] /\ \A k \in 1 .. N : k < c => ~(pick < U[k])
  <2>1. CASE N = 1
    BY <1>1, <1>3, <1>4, <2>1
  <2>2. CASE N # 1
    <3>1. S \in SUBSET Nat /\ S # {}
      BY <1>1, <1>13, <1>14
    <3>2. \E i \in S : \A k \in S : i <= k
      BY <3>1, Least
    <3>3. c \in S /\ \A k \in S : c <= k
      BY Zenon, <1>3, <2>2, <3>1, <3>2
    <3> QED
      BY <1>1, <1>12, <1>13, <3>3
  <2> QED
    BY <2>1, <2>2
<1>16. U[c] = U[c - 1] + W(c) /\ U[c - 1] \in Nat
  BY <1>1, <1>2, <1>15
<1>17. U[c - 1] <= pick
  <2>1. CASE c = 1
    BY <1>2, <1>4, <2>1
  <2>2. CASE c # 1
    <3>1. c - 1 \in 1 .. N /\ c - 1 < c
      BY <1>1, <1>15, <2>2
    <3>2. ~(pick < U[c - 1])
      BY <1>15, <3>1
    <3> QED
      BY <1>4, <1>16, <3>2
  <2> QED
    BY <2>1, <2>2
<1> QED
  BY Zenon, <1>1, <1>15, <1>16, <1>17 DEF W

\* selectBest takes one of the targets that it is given.
LEMMA BestIsTarget ==
    ASSUME NEW X, NEW seq \in Seq(X) \ {<<>>}, NEW best \in Route!selectBest(seq)
    PROVE  best \in Range(seq)
<1>1. ASSUME NEW T, NEW t \in Route!selectByPriority(T) PROVE t \in T
  <2>1. \A S : S \subseteq T => Route!LocalFirst(S) \subseteq T
    BY Zenon DEF Route!LocalFirst
  <2>2. \E S : S \subseteq T /\ t \in Route!LocalFirst(S)
    BY Zenon DEF Route!selectByPriority
  <2> QED
    BY <2>1, <2>2
<1>2. Route!Range(seq) = Range(seq)
  BY Zenon DEF Range, Route!Range
<1>3. ASSUME NEW t \in Route!selectByLatency(seq) PROVE t \in Range(seq)
  <2>1. CASE Route!Known(Range(seq)) = {}
    BY Zenon, <1>1, <1>2, <1>3, <2>1 DEF Route!selectByLatency
  <2>2. CASE Route!Known(Range(seq)) # {}
    BY Zenon, <1>2, <1>3, <2>2 DEF Route!selectByLatency, Range
  <2> QED
    BY <2>1, <2>2
<1>4. Len(seq) = 1 => seq[1] \in Range(seq)
  BY DEF Range
<1> QED
  BY <1>1, <1>2, <1>3, <1>4 DEF Route!selectBest

\* A sequence rearranged has as many of each element.
LEMMA RearrangedCount ==
    ASSUME NEW X, NEW s \in Seq(X), NEW q \in Seq(X), NEW f, Rearranges(f, q, s), NEW u
    PROVE  Route!Count(q, u) = Route!Count(s, u)
<1> DEFINE A == {k \in DOMAIN q : q[k] = u}
           B == {i \in DOMAIN s : s[i] = u}
           g == [k \in A |-> f[k]]
<1>1. IsFiniteSet(A)
  <2>1. A \in SUBSET (1 .. Len(q)) /\ Len(q) \in Nat
    OBVIOUS
  <2>2. IsFiniteSet(1 .. Len(q))
    BY <2>1, FS_Interval
  <2> QED
    BY <2>1, <2>2, FS_Subset, Zenon
<1>2. g \in [A -> B]
  BY Zenon DEF Rearranges
<1>3. \A j, k \in A : g[j] = g[k] => j = k
  BY Zenon DEF Rearranges
<1>4. \A i \in B : \E k \in A : g[k] = i
  BY DEF Rearranges
<1> HIDE DEF A, B, g
<1>5. g \in Bijection(A, B)
  BY Zenon, <1>2, <1>3, <1>4 DEF Bijection, Injection, Surjection, IsInjective
<1>6. ExistsBijection(A, B)
  BY Zenon, <1>5 DEF ExistsBijection
<1>7. Cardinality(B) = Cardinality(A)
  BY <1>1, <1>6, FS_Bijection
<1> QED
  BY Zenon, <1>7 DEF Route!Count, Route!Cardinality, Cardinality, Route!IsFiniteSet, IsFiniteSet, A, B

\* reorderByHealth keeps the targets and puts the healthy first.
LEMMA ReorderKeeps ==
    ASSUME NEW X, NEW s \in Seq(X)
    PROVE  /\ Route!reorderByHealth(s) \in Seq(X)
           /\ \A u : Route!Count(Route!reorderByHealth(s), u) = Route!Count(s, u)
           /\ \A i, k \in DOMAIN Route!reorderByHealth(s) :
                 i < k /\ Route!Fit(Route!reorderByHealth(s)[k]) => Route!Fit(Route!reorderByHealth(s)[i])
<1> DEFINE q == Route!reorderByHealth(s)
           H == {i \in DOMAIN s : Route!Fit(s[i])}
           a == Picked(s, H)
           b == Picked(s, DOMAIN s \ H)
<1>1. CASE H = {}
  <2>1. q = s
    BY Zenon, <1>1 DEF Route!reorderByHealth
  <2>2. \A i \in DOMAIN s : ~Route!Fit(s[i])
    BY <1>1
  <2> HIDE DEF q, H
  <2> QED
    BY Zenon, <2>1, <2>2 DEF q
<1>2. CASE H # {}
  <2>1. q = a \o b
    BY Zenon, <1>2 DEF Route!reorderByHealth, Route!Picked, Picked, Route!Places, Places
  <2>2. \E f : Rearranges(f, a \o b, s)
    BY Zenon, PickedApart
  <2>3. /\ a \in Seq(X) /\ b \in Seq(X)
        /\ \A k \in 1 .. Len(a) : \E i \in H : a[k] = s[i]
        /\ \A k \in 1 .. Len(b) : \E i \in DOMAIN s \ H : b[k] = s[i]
    <3> HIDE DEF H
    <3>1. /\ a \in Seq(X)
          /\ \A k \in 1 .. Len(a) : Places(H, Len(s))[k] \in H /\ a[k] = s[Places(H, Len(s))[k]]
      BY PickedElements
    <3> DEFINE R == DOMAIN s \ H
    <3> HIDE DEF R
    <3>2. /\ Picked(s, R) \in Seq(X)
          /\ \A k \in 1 .. Len(Picked(s, R)) :
                Places(R, Len(s))[k] \in R /\ Picked(s, R)[k] = s[Places(R, Len(s))[k]]
      BY PickedElements
    <3> HIDE DEF a
    <3> QED
      BY Zenon, <3>1, <3>2 DEF R
  <2>4. \A k \in 1 .. Len(a) : Route!Fit(a[k])
    BY <2>3
  <2>5. \A k \in 1 .. Len(b) : ~Route!Fit(b[k])
    BY <2>3
  <2> HIDE DEF q, H, a, b
  <2>6. q \in Seq(X)
    BY <2>1, <2>3
  <2>7. \A u : Route!Count(q, u) = Route!Count(s, u)
    BY Zenon, <2>1, <2>2, <2>6, RearrangedCount
  <2>8. /\ DOMAIN q = 1 .. Len(a) + Len(b) /\ Len(a) \in Nat /\ Len(b) \in Nat
        /\ \A k \in 1 .. Len(a) : q[k] = a[k]
        /\ \A k \in 1 .. Len(b) : q[Len(a) + k] = b[k]
    <3>1. a \in Seq(X) /\ b \in Seq(X)
      BY <2>3
    <3> QED
      BY <2>1, <3>1
  <2>9. ASSUME NEW k \in DOMAIN q, Route!Fit(q[k]) PROVE k <= Len(a)
    <3> SUFFICES ASSUME k > Len(a) PROVE FALSE
      BY <2>8
    <3>1. k - Len(a) \in 1 .. Len(b) /\ Len(a) + (k - Len(a)) = k
      BY <2>8
    <3>2. q[k] = b[k - Len(a)]
      BY <2>8, <3>1
    <3> QED
      BY <2>5, <2>9, <3>1, <3>2
  <2>10. ASSUME NEW i \in DOMAIN q, NEW k \in DOMAIN q, i < k, Route!Fit(q[k]) PROVE Route!Fit(q[i])
    <3>1. i \in 1 .. Len(a)
      BY <2>8, <2>9, <2>10
    <3> QED
      BY <2>4, <2>8, <3>1
  <2> QED
    BY Zenon, <2>6, <2>7, <2>10 DEF q
<1> QED
  BY <1>1, <1>2

\* A plan is what reorderByHealth makes of one target of the chosen route and of the
\* fallbacks, under the tags that New recorded.
RouteInv ==
    /\ job \in Jobs
    /\ res \in Route!RegionDataRes(job)
    /\ plan # <<>> =>
          /\ primary \in DOMAIN job.routes
          /\ \E t \in Range(Route!expandRoute(job.routes[primary].provider)) :
                plan = Route!reorderByHealth(<<t>> \o Route!Fallbacks)

\* What a plan is made of follows from the job and the tags, which never change.
LEMMA JobFixed ==
    ASSUME job' = job, res' = res
    PROVE  /\ \A p : Route!expandRoute(p)' = Route!expandRoute(p)
           /\ \A s : Route!reorderByHealth(s)' = Route!reorderByHealth(s)
           /\ Route!Fallbacks' = Route!Fallbacks
<1>1. \A p : Route!expandRoute(p)' = Route!expandRoute(p)
  BY Zenon DEF Route!expandRoute
<1>2. \A s : Route!reorderByHealth(s)' = Route!reorderByHealth(s)
  BY Zenon DEF Route!reorderByHealth, Route!Fit
<1>3. Route!Fallbacks' = Route!Fallbacks
  BY Zenon, <1>1 DEF Route!Fallbacks
<1> QED
  BY <1>1, <1>2, <1>3

LEMMA RouteInvHolds == Route!Spec => []RouteInv
<1>1. Route!Init => RouteInv
  BY Zenon DEF Route!Init, RouteInv
<1>2. ASSUME RouteInv, [Route!Plan]_Route!vars PROVE RouteInv'
  <2>1. job \in Jobs /\ res \in Route!RegionDataRes(job) /\ job' = job /\ res' = res
    BY Zenon, <1>2 DEF RouteInv, Route!Plan, Route!vars
  <2>2. /\ \A p : Route!expandRoute(p)' = Route!expandRoute(p)
        /\ \A s : Route!reorderByHealth(s)' = Route!reorderByHealth(s)
        /\ Route!Fallbacks' = Route!Fallbacks
    BY <2>1, JobFixed
  <2> SUFFICES ASSUME plan' # <<>>
               PROVE  \E c \in DOMAIN job.routes :
                         /\ primary' = c
                         /\ \E t \in Range(Route!expandRoute(job.routes[c].provider)) :
                               plan' = Route!reorderByHealth(<<t>> \o Route!Fallbacks)
    BY Zenon, <2>1, <2>2 DEF RouteInv
  <2>3. CASE UNCHANGED Route!vars
    BY Zenon, <1>2, <2>3 DEF Route!vars, RouteInv
  <2>4. CASE Route!Plan
    <3>1. PICK pick : primary' = Route!chooseWeighted(job.routes, pick)
      BY Zenon, <2>4 DEF Route!Plan
    <3> DEFINE c == Route!chooseWeighted(job.routes, pick)
               p == job.routes[c].provider
    <3>2. c \in DOMAIN job.routes
      BY <2>1, RouteChosen
    <3>3. PICK t \in Route!selectBest(Route!expandRoute(p)) :
             plan' = Route!reorderByHealth(<<t>> \o Route!Fallbacks)
      BY Zenon, <2>4, <3>1 DEF Route!Plan
    <3> HIDE DEF c
    <3>4. p \in DOMAIN job.regions
      BY <2>1, <3>2, RouteProvider
    <3>5. t \in Range(Route!expandRoute(p))
      <4> HIDE DEF p
      <4> QED
        BY <2>1, <3>4, ExpandType, BestIsTarget
    <3> QED
      BY <3>1, <3>2, <3>3, <3>5 DEF c
  <2> QED
    BY <1>2, <2>3, <2>4
<1> QED
  BY <1>1, <1>2, PTL DEF Route!Spec

\* What a plan is made of
LEMMA PlanTargets ==
    ASSUME RouteInv, plan # <<>>,
           NEW t \in Range(Route!expandRoute(job.routes[primary].provider))
    PROVE  <<t>> \o Route!Fallbacks \in Seq(AllTargets)
<1>1. job.routes[primary].provider \in DOMAIN job.regions
  BY Zenon, RouteProvider DEF RouteInv
<1>2. t \in AllTargets
  BY Zenon, <1>1 DEF AllTargets
<1>3. Route!Fallbacks \in Seq(AllTargets)
  BY Zenon, FallbacksType DEF RouteInv
<1> QED
  BY <1>2, <1>3

\* Reordering by health loses and repeats no target, and no unhealthy target comes
\* before a healthy one: Plan, for every configuration and every state of the
\* tracker and of the latency cache.
THEOREM HealthOrdersPlanHolds == Route!Spec => []HealthOrdersPlan
<1>1. ASSUME RouteInv PROVE HealthOrdersPlan
  <2>1. CASE plan = <<>>
    BY <2>1 DEF HealthOrdersPlan, Route!HealthOrdersPlan, Route!Planned
  <2>2. CASE plan # <<>>
    <3>1. PICK t \in Range(Route!expandRoute(job.routes[primary].provider)) :
             plan = Route!reorderByHealth(<<t>> \o Route!Fallbacks)
      BY Zenon, <1>1, <2>2 DEF RouteInv
    <3> DEFINE s == <<t>> \o Route!Fallbacks
    <3>2. s \in Seq(AllTargets)
      BY <1>1, <2>2, PlanTargets
    <3> HIDE DEF s
    <3>3. /\ \A u : Route!Count(plan, u) = Route!Count(s, u)
          /\ \A i, k \in DOMAIN plan : i < k /\ Route!Fit(plan[k]) => Route!Fit(plan[i])
      BY Zenon, <3>1, <3>2, ReorderKeeps DEF s
    <3>4. t \in Route!Range(Route!expandRoute(job.routes[primary].provider))
      BY Zenon DEF Range, Route!Range
    <3> QED
      BY <3>3, <3>4 DEF HealthOrdersPlan, Route!HealthOrdersPlan, s
  <2> QED
    BY <2>1, <2>2
<1> QED
  BY <1>1, RouteInvHolds, PTL

\* A target that FilterByResidency lets through is tagged by its own provider with
\* the residency asked for, when providers tag a region they share alike.
THEOREM ResidencyTagsHolds == Route!Spec => []ResidencyTags
<1>1. ASSUME RouteInv,
             \A n \in Route!Names(job) : \A p, q \in Route!Owners(job, n) :
                Route!Tag(Route!Region(job, p, n)) = Route!Tag(Route!Region(job, q, n)),
             NEW need \in Residencies,
             NEW i \in DOMAIN Route!FilterByResidency(plan, need)
      PROVE  LET kept == Route!FilterByResidency(plan, need)
             IN  Route!Tag(Route!Region(job, kept[i].provider, kept[i].region)) = need
  <2> DEFINE S == {k \in DOMAIN plan : Route!matchesResidency(plan[k], need)}
             kept == Picked(plan, S)
  <2>1. Route!FilterByResidency(plan, need) = kept
    BY Zenon, ResidenciesAssumption DEF Route!FilterByResidency, Route!Picked, Picked, Route!Places, Places
  <2>2. plan \in Seq(AllTargets)
    <3>1. CASE plan = <<>>
      BY <3>1
    <3>2. CASE plan # <<>>
      <4>1. PICK t \in Range(Route!expandRoute(job.routes[primary].provider)) :
             plan = Route!reorderByHealth(<<t>> \o Route!Fallbacks)
        BY Zenon, <1>1, <3>2 DEF RouteInv
      <4> QED
        BY Zenon, <1>1, <3>2, <4>1, PlanTargets, ReorderKeeps
    <3> QED
      BY <3>1, <3>2
  <2>3. PICK k \in S : kept[i] = plan[k]
    <3> HIDE DEF S
    <3> QED
      BY SMTT(30), <1>1, <2>1, <2>2, PickedElements
  <2> DEFINE t == plan[k]
  <2>4. t \in AllTargets /\ t.region # Route!NoRegion /\ t.tag = need
    BY SMTT(30), <2>2, <2>3 DEF Route!matchesResidency
  <2> HIDE DEF t
  <2>5. t.region \in Route!Names(job) /\ t.provider \in Route!Owners(job, t.region) /\ need = res[t.region]
    BY Zenon, <1>1, <2>4, TargetsListed DEF RouteInv
  <2>6. PICK p \in Route!Owners(job, t.region) : res[t.region] = Route!Tag(Route!Region(job, p, t.region))
    BY Zenon, <1>1, <2>5 DEF RouteInv, Route!RegionDataRes
  <2>7. Route!Tag(Route!Region(job, t.provider, t.region)) = need
    BY <1>1, <2>5, <2>6
  <2> QED
    BY <2>1, <2>3, <2>7 DEF t
<1>2. RouteInv => ResidencyTags
  BY Zenon, <1>1 DEF ResidencyTags, Route!ResidencyTags
<1> QED
  BY <1>2, RouteInvHolds, PTL

-----------------------------------------------------------------------------
(* Guardrails *)

Words == STRING \cup {Guard!Mark}
Texts == Seq(Seq(Words))

\* ns has no token that ms has not, but for the text of redactions.
Fewer(ns, ms) ==
    /\ ns \in Texts /\ DOMAIN ns = DOMAIN ms
    /\ \A x : Guard!Has(ns, x) => Guard!Has(ms, x) \/ x = Guard!Mark

LEMMA ReplaceFewer ==
    ASSUME NEW ms \in Texts, NEW T
    PROVE  /\ Fewer(Guard!Replace(ms, T), ms)
           /\ \A x : Guard!Has(Guard!Replace(ms, T), x) => x = Guard!Mark \/ x \notin T
<1> DEFINE ns == Guard!Replace(ms, T)
           word(i, j) == IF ms[i][j] \in T THEN Guard!Mark ELSE ms[i][j]
<1>1. DOMAIN ms = 1 .. Len(ms) /\ Len(ms) \in Nat /\ \A i \in DOMAIN ms : ms[i] \in Seq(Words)
  BY SMTT(30) DEF Texts
<1>2. \A i \in DOMAIN ms : DOMAIN ms[i] = 1 .. Len(ms[i]) /\ Len(ms[i]) \in Nat
                           /\ \A j \in DOMAIN ms[i] : ms[i][j] \in Words
  BY <1>1
<1>3. ns = [i \in DOMAIN ms |-> [j \in DOMAIN ms[i] |-> word(i, j)]]
  BY Zenon DEF Guard!Replace
<1>4. ASSUME NEW i \in DOMAIN ms PROVE ns[i] \in Seq(Words) /\ DOMAIN ns[i] = DOMAIN ms[i]
  <2>1. ns[i] = [j \in 1 .. Len(ms[i]) |-> word(i, j)]
    BY <1>2, <1>3
  <2>2. ns[i] \in [1 .. Len(ms[i]) -> Words]
    <3>1. \A j \in 1 .. Len(ms[i]) : word(i, j) \in Words
      <4>1. Guard!Mark \in Words
        BY Zenon DEF Words
      <4> QED
        BY <1>2, <4>1
    <3> HIDE DEF word, ns
    <3> QED
      BY <2>1, <3>1
  <2> HIDE DEF ns
  <2> QED
    BY <1>2, <2>2
<1>5. ns \in [1 .. Len(ms) -> Seq(Words)]
  BY <1>1, <1>3, <1>4
<1> HIDE DEF ns
<1>6. ns \in Texts /\ DOMAIN ns = DOMAIN ms
  <2>1. \A X : \A n \in Nat : [1 .. n -> X] \subseteq Seq(X)
    OBVIOUS
  <2> QED
    BY Zenon, <1>1, <1>5, <2>1 DEF Texts
<1>7. ASSUME NEW x, Guard!Has(ns, x) PROVE (Guard!Has(ms, x) /\ x \notin T) \/ x = Guard!Mark
  <2>1. PICK i \in DOMAIN ms : \E j \in DOMAIN ns[i] : ns[i][j] = x
    BY Zenon, <1>6, <1>7 DEF Guard!Has
  <2>2. PICK j \in DOMAIN ms[i] : ns[i][j] = x
    BY <1>4, <2>1
  <2>3. x = word(i, j)
    BY <1>3, <2>2
  <2> QED
    BY Zenon, <2>3 DEF Guard!Has
<1> QED
  BY Zenon, <1>6, <1>7 DEF Fewer, ns

LEMMA ReplaceMark ==
    ASSUME NEW ms \in Texts
    PROVE  Guard!Replace(ms, {Guard!Mark}) = ms
<1>1. \A i \in DOMAIN ms : [j \in DOMAIN ms[i] |-> ms[i][j]] = ms[i]
  BY DEF Texts
<1>2. ms = [i \in DOMAIN ms |-> ms[i]]
  BY DEF Texts
<1>3. Guard!Replace(ms, {Guard!Mark}) = [i \in DOMAIN ms |-> [j \in DOMAIN ms[i] |-> ms[i][j]]]
  BY Zenon DEF Guard!Replace
<1> QED
  BY <1>1, <1>2, <1>3

\* Stage s finds in ms nothing to remove or to refuse.
QuietRule(rule, ms) ==
    Guard!Has(ms, rule.token) =>
        rule.action # "block" /\ (rule.action = "redact" => rule.token = Guard!Mark)
Quiet(s, ms) ==
    /\ s.kind = "pii" => \A t \in Guard!Patterns(s.types) : ~Guard!Has(ms, t)
    /\ s.kind = "regex" => \A i \in DOMAIN s.rules : QuietRule(s.rules[i], ms)
    /\ s.kind = "keyword" => s.action = "log" \/ ~Guard!Has(ms, s.token)
    /\ s.kind = "json_schema" => direction # "output" \/ ~s.strict \/ ~Guard!Has(ms, "invalid")

LEMMA QuietStays ==
    ASSUME NEW s \in Stages, ~Guard!RefusesMark(s), NEW ms, NEW ns, Fewer(ns, ms), Quiet(s, ms)
    PROVE  Quiet(s, ns)
<1>1. \A x : x # Guard!Mark /\ Guard!Has(ns, x) => Guard!Has(ms, x)
  BY Zenon DEF Fewer
<1>2. CASE s.kind = "pii"
  <2>1. \A t \in Guard!Patterns(s.types) : t # Guard!Mark
    BY Zenon DEF Guard!Patterns, Guard!PIITypes, Guard!Mark
  <2> QED
    BY <1>1, <1>2, <2>1 DEF Quiet
<1>3. CASE s.kind = "regex"
  <2> SUFFICES ASSUME NEW i \in DOMAIN s.rules PROVE QuietRule(s.rules[i], ns)
    BY Zenon, <1>3 DEF Quiet
  <2>1. QuietRule(s.rules[i], ms)
    BY Zenon, <1>3 DEF Quiet
  <2>2. s.rules[i] \in Rules /\ s.rules[i] # [token |-> Guard!Mark, action |-> "block"]
    BY <1>3 DEF Stages, Guard!RefusesMark
  <2>3. ~(s.rules[i].token = Guard!Mark /\ s.rules[i].action = "block")
    BY Zenon, <2>2 DEF Rules
  <2> QED
    BY <1>1, <2>1, <2>3 DEF QuietRule
<1>4. CASE s.kind = "keyword"
  BY Zenon, <1>1, <1>4 DEF Quiet, Guard!RefusesMark
<1>5. CASE s.kind = "json_schema"
  BY Zenon, <1>1, <1>5 DEF Quiet, Guard!Mark
<1> QED
  BY <1>2, <1>3, <1>4, <1>5 DEF Quiet

\* What the regex stage holds after each of its rules.
RegexTurns(g, s, ms) ==
    /\ g[0] = [action |-> "pass", messages |-> ms]
    /\ \A n \in 1 .. Len(s.rules) : g[n] = Guard!Apply(s.rules[n], g[n - 1])

LEMMA ApplyType ==
    ASSUME NEW rule \in Rules, NEW acc \in [action : {"pass", "redact", "block"}, messages : Texts]
    PROVE  Guard!Apply(rule, acc) \in [action : {"pass", "redact", "block"}, messages : Texts]
<1>1. Guard!Replace(acc.messages, {rule.token}) \in Texts
  BY Zenon, ReplaceFewer DEF Fewer
<1>2. [acc EXCEPT !.action = "block"] = [action |-> "block", messages |-> acc.messages]
  OBVIOUS
<1> QED
  BY Zenon, <1>1, <1>2 DEF Guard!Apply, Guard!Redact

LEMMA RegexDefined ==
    ASSUME NEW s \in Stages, s.kind = "regex", NEW ms \in Texts
    PROVE  \E g : RegexTurns(g, s, ms) /\ Guard!RegexStage(s, ms) = g[Len(s.rules)]
<1> DEFINE N == Len(s.rules)
           V == [action : {"pass", "redact", "block"}, messages : Texts]
           base == [action |-> "pass", messages |-> ms]
           apply(n, v) == Guard!Apply(s.rules[n], v)
           step == [n \in 1 .. N |-> [v \in V |-> apply(n, v)]]
           Solution(f) == f = [n \in 0 .. N |-> IF n = 0 THEN base ELSE apply(n, f[n - 1])]
<1>1. N \in Nat /\ \A n \in 1 .. N : s.rules[n] \in Rules
  <2>1. s.rules \in Seq(Rules)
    BY Zenon DEF Stages
  <2> QED
    BY <2>1
<1>2. \A n \in 1 .. N : \A v \in V : apply(n, v) \in V
  BY <1>1, ApplyType
<1>3. base \in V
  OBVIOUS
<1>4. Guard!RegexStage(s, ms) = (CHOOSE f : Solution(f))[N]
  BY Zenon DEF Guard!RegexStage
<1> HIDE DEF V, base, apply
<1>5. step \in [1 .. N -> [V -> V]]
  BY <1>2
<1>6. \A n \in 1 .. N : \A v \in V : step[n][v] = apply(n, v)
  OBVIOUS
<1> HIDE DEF step, N
<1>7. PICK g : Solves(g, N, V, base, step)
  BY <1>1, <1>3, <1>5, Recursion
<1>8. \A n \in 1 .. N : g[n] = apply(n, g[n - 1])
  <2> SUFFICES ASSUME NEW n \in 1 .. N PROVE g[n] = apply(n, g[n - 1])
    OBVIOUS
  <2>1. g[n - 1] \in V
    BY <1>1, <1>7 DEF Solves
  <2> QED
    BY <1>6, <1>7, <2>1 DEF Solves
<1>9. Solution(g)
  BY <1>1, <1>7, <1>8 DEF Solves
<1> DEFINE f == CHOOSE f : Solution(f)
<1>10. Solution(f)
  BY Zenon, <1>9
<1> HIDE DEF f
<1>11. f[0] = base /\ \A n \in 1 .. N : f[n] = apply(n, f[n - 1])
  <2>1. N \in Nat
    BY <1>1
  <2>2. 0 \in 0 .. N /\ \A n \in 1 .. N : n \in 0 .. N /\ n # 0
    BY SMTT(30), <2>1
  <2> QED
    BY Zenon, <1>10, <2>2
<1> HIDE DEF Solution
<1>12. RegexTurns(f, s, ms)
  BY Zenon, <1>11 DEF RegexTurns, N, base, apply
<1> QED
  BY Zenon, <1>4, <1>12 DEF f, N

\* What the regex stage lets through has nothing that it would act on again.
LEMMA RegexQuiet ==
    ASSUME NEW s \in Stages, s.kind = "regex", NEW ms \in Texts,
           Guard!RegexStage(s, ms).action # "block"
    PROVE  /\ Guard!RegexStage(s, ms).action \in {"pass", "redact"}
           /\ Guard!RegexStage(s, ms).action = "pass" => Guard!RegexStage(s, ms).messages = ms
           /\ Fewer(Guard!RegexStage(s, ms).messages, ms)
           /\ ~Guard!RefusesMark(s) => Quiet(s, Guard!RegexStage(s, ms).messages)
<1> DEFINE N == Len(s.rules)
<1>1. N \in Nat /\ DOMAIN s.rules = 1 .. N /\ \A n \in 1 .. N : s.rules[n] \in Rules
  <2>1. s.rules \in Seq(Rules)
    BY Zenon DEF Stages
  <2> QED
    BY <2>1
<1>2. ~Guard!RefusesMark(s) => \A n \in 1 .. N : ~(s.rules[n].token = Guard!Mark /\ s.rules[n].action = "block")
  <2>1. \A r \in Rules : r.token = Guard!Mark /\ r.action = "block" =>
                            r = [token |-> Guard!Mark, action |-> "block"]
    BY DEF Rules
  <2> QED
    BY Zenon, <1>1, <2>1 DEF Guard!RefusesMark
<1>3. PICK g : RegexTurns(g, s, ms) /\ Guard!RegexStage(s, ms) = g[N]
  BY Zenon, RegexDefined
<1> DEFINE Good(n) ==
              /\ g[n].action \in {"pass", "redact", "block"}
              /\ g[n] = [action |-> g[n].action, messages |-> g[n].messages]
              /\ g[n].action # "block" =>
                    /\ g[n].action = "pass" => g[n].messages = ms
                    /\ Fewer(g[n].messages, ms)
                    /\ ~Guard!RefusesMark(s) => \A k \in 1 .. n : QuietRule(s.rules[k], g[n].messages)
           I == {n \in Nat : n <= N => Good(n)}
<1>4. 0 \in I
  <2>1. Fewer(ms, ms)
    BY Zenon DEF Fewer
  <2> QED
    BY <1>3, <2>1 DEF RegexTurns
<1>5. ASSUME NEW n \in Nat, n \in I PROVE n + 1 \in I
  <2> HIDE DEF Good
  <2> SUFFICES ASSUME n + 1 <= N PROVE Good(n + 1)
    OBVIOUS
  <2> DEFINE rule == s.rules[n + 1]
             acc == g[n]
             out == g[n + 1]
  <2>1. Good(n)
    BY <1>1, <1>5
  <2> USE DEF Good
  <2>2. out = Guard!Apply(rule, acc) /\ n + 1 \in 1 .. N
    BY <1>1, <1>3 DEF RegexTurns
  <2>3. rule \in Rules /\ (~Guard!RefusesMark(s) => ~(rule.token = Guard!Mark /\ rule.action = "block"))
    BY <1>1, <1>2, <2>2
  <2>4. \A k \in 1 .. n + 1 : k = n + 1 \/ k \in 1 .. n
    BY SMTT(30)
  <2>5. CASE acc.action = "block" \/ ~Guard!Has(acc.messages, rule.token)
    <3>1. out = acc
      BY Zenon, <2>2, <2>5 DEF Guard!Apply
    <3>2. acc.action # "block" => QuietRule(rule, acc.messages)
      BY Zenon, <2>5 DEF QuietRule
    <3> QED
      BY Zenon, <2>1, <2>4, <3>1, <3>2
  <2>6. CASE acc.action # "block" /\ Guard!Has(acc.messages, rule.token) /\ rule.action = "block"
    <3>1. out = [action |-> "block", messages |-> acc.messages]
      BY Zenon, <2>1, <2>2, <2>6 DEF Guard!Apply
    <3> QED
      BY <3>1
  <2>7. CASE acc.action # "block" /\ Guard!Has(acc.messages, rule.token) /\ rule.action # "block"
    <3> DEFINE ns == IF rule.action = "redact" THEN Guard!Replace(acc.messages, {rule.token})
                     ELSE acc.messages
    <3>1. out = [action |-> "redact", messages |-> ns]
      BY Zenon, <2>2, <2>7 DEF Guard!Apply, Guard!Redact
    <3>2. acc.messages \in Texts
      BY Zenon, <2>1, <2>7 DEF Fewer
    <3>3. /\ Fewer(ns, acc.messages)
          /\ rule.action = "redact" => \A x : Guard!Has(ns, x) => x = Guard!Mark \/ x # rule.token
      BY SMTT(30), <3>2, ReplaceFewer DEF Fewer
    <3> HIDE DEF ns
    <3>4. Fewer(ns, ms)
      BY Zenon, <2>1, <2>7, <3>3 DEF Fewer
    <3>5. ~Guard!RefusesMark(s) => QuietRule(rule, ns)
      BY Zenon, <2>3, <2>7, <3>3 DEF QuietRule
    <3>6. ASSUME ~Guard!RefusesMark(s), NEW k \in 1 .. n PROVE QuietRule(s.rules[k], ns)
      <4>1. QuietRule(s.rules[k], acc.messages) /\ k \in 1 .. N
        <5>1. k \in 1 .. N
          BY <1>1
        <5>2. QuietRule(s.rules[k], acc.messages)
          BY Zenon, <2>1, <2>7, <3>6
        <5> QED
          BY <5>1, <5>2
      <4>2. ~(s.rules[k].token = Guard!Mark /\ s.rules[k].action = "block")
        BY Zenon, <1>2, <3>6, <4>1
      <4>3. \A x : Guard!Has(ns, x) => Guard!Has(acc.messages, x) \/ x = Guard!Mark
        BY Zenon, <3>3 DEF Fewer
      <4> QED
        BY Zenon, <4>1, <4>2, <4>3 DEF QuietRule
    <3> QED
      BY SMTT(30), <2>4, <3>1, <3>4, <3>5, <3>6
  <2> HIDE DEF Good, acc, rule
  <2> QED
    BY Zenon, <2>5, <2>6, <2>7
<1> HIDE DEF I
<1>6. N \in I
  BY Zenon, <1>1, <1>4, <1>5, SetInduction
<1>7. Good(N)
  <2> HIDE DEF Good
  <2> QED
    BY <1>1, <1>6 DEF I
<1> QED
  BY Zenon, <1>1, <1>3, <1>7 DEF Quiet

\* A stage that finds nothing leaves the text as it is when it is asked.
LEMMA QuietAccepts ==
    ASSUME NEW s \in Stages, NEW ms \in Texts, Quiet(s, ms)
    PROVE  ~Guard!Objects(s, ms)
<1> DEFINE r == Guard!Check(s, ms, "pass")
<1> SUFFICES ASSUME s.kind # "length"
             PROVE  r.action # "block" /\ (r.action = "redact" => r.messages = ms)
  BY Zenon DEF Guard!Objects
<1>1. CASE s.kind = "regex"
  <2>1. r = Guard!RegexStage(s, ms)
    BY Zenon, <1>1 DEF Guard!Check
  <2> DEFINE N == Len(s.rules)
  <2>2. N \in Nat /\ DOMAIN s.rules = 1 .. N
    <3>1. s.rules \in Seq(Rules)
      BY Zenon, <1>1 DEF Stages
    <3> QED
      BY <3>1
  <2>3. PICK g : RegexTurns(g, s, ms) /\ r = g[N]
    BY Zenon, <1>1, <2>1, RegexDefined
  <2> DEFINE I == {n \in Nat : n <= N => g[n].action # "block" /\ g[n].messages = ms}
  <2>4. 0 \in I
    BY <2>3 DEF RegexTurns
  <2>5. ASSUME NEW n \in Nat, n \in I PROVE n + 1 \in I
    <3> SUFFICES ASSUME n + 1 <= N PROVE g[n + 1].action # "block" /\ g[n + 1].messages = ms
      OBVIOUS
    <3>1. g[n].action # "block" /\ g[n].messages = ms /\ n + 1 \in 1 .. N
      BY SMTT(30), <2>2, <2>5
    <3> DEFINE rule == s.rules[n + 1]
    <3>2. g[n + 1] = Guard!Apply(rule, g[n])
      BY SMTT(30), <2>3, <3>1 DEF RegexTurns
    <3>3. QuietRule(rule, ms)
      BY Zenon, <1>1, <2>2, <3>1 DEF Quiet
    <3>4. Guard!Has(ms, rule.token) /\ rule.action = "redact" => Guard!Replace(ms, {rule.token}) = ms
      BY Zenon, <3>3, ReplaceMark DEF QuietRule
    <3> QED
      BY <3>1, <3>2, <3>3, <3>4 DEF Guard!Apply, Guard!Redact, QuietRule
  <2> HIDE DEF I
  <2>6. N \in I
    BY <2>2, <2>4, <2>5, SetInduction
  <2> QED
    BY <2>2, <2>3, <2>6 DEF I
<1>2. CASE s.kind # "regex"
  <2>1. s.kind \in {"pii", "keyword", "json_schema", "webhook", "plugin"}
    BY Zenon, <1>2 DEF Stages
  <2> QED
    BY <1>2, <2>1 DEF Guard!Check, Guard!PIIStage, Guard!KeywordStage, Guard!JSONSchemaStage,
       Guard!WebhookStage, Guard!PluginStage, Guard!Pass, Guard!Block, Guard!Redact, Quiet
<1> QED
  BY <1>1, <1>2

\* What a stage passes on: nothing new but the text of redactions, and nothing that it
\* would act on again.
LEMMA CheckQuiet ==
    ASSUME NEW s \in Stages, NEW ms \in Texts, NEW answer,
           ~(s.kind = "webhook" /\ answer = "redact"),
           Guard!Check(s, ms, answer).action # "block"
    PROVE  LET r == Guard!Check(s, ms, answer)
               ns == IF r.action = "redact" THEN r.messages ELSE ms
           IN  Fewer(ns, ms) /\ (~Guard!RefusesMark(s) => Quiet(s, ns))
<1> DEFINE r == Guard!Check(s, ms, answer)
           ns == IF r.action = "redact" THEN r.messages ELSE ms
<1>1. Fewer(ms, ms)
  BY Zenon DEF Fewer
<1>2. CASE s.kind = "regex"
  <2>1. r = Guard!RegexStage(s, ms)
    BY Zenon, <1>2 DEF Guard!Check
  <2> QED
    BY <1>1, <1>2, <2>1, RegexQuiet
<1>3. CASE s.kind = "pii"
  <2>1. r = Guard!PIIStage(s, ms)
    BY Zenon, <1>3 DEF Guard!Check
  <2>2. CASE ~\E t \in Guard!Patterns(s.types) : Guard!Has(ms, t)
    <3>1. r = Guard!Pass
      BY Zenon, <2>1, <2>2 DEF Guard!PIIStage
    <3>2. ns = ms
      <4> HIDE DEF r
      <4> QED
        BY Zenon, <3>1 DEF Guard!Pass
    <3>3. Quiet(s, ms)
      BY Zenon, <1>3, <2>2 DEF Quiet
    <3> HIDE DEF ns
    <3> QED
      BY Zenon, <1>1, <3>2, <3>3 DEF ns
  <2>3. CASE \E t \in Guard!Patterns(s.types) : Guard!Has(ms, t)
    <3> DEFINE T == Guard!Patterns(s.types)
    <3>1. ns = Guard!Replace(ms, T)
      BY <2>1, <2>3 DEF Guard!PIIStage, Guard!Redact, Guard!Block
    <3>2. Guard!Mark \notin T
      BY Zenon DEF Guard!Patterns, Guard!PIITypes, Guard!Mark
    <3> HIDE DEF ns, T
    <3>3. Fewer(ns, ms) /\ \A t \in T : ~Guard!Has(ns, t)
      BY <3>1, <3>2, ReplaceFewer
    <3>4. Quiet(s, ns)
      BY Zenon, <1>3, <3>3 DEF Quiet, T
    <3> QED
      BY Zenon, <3>3, <3>4 DEF ns
  <2> QED
    BY <2>2, <2>3
<1>4. CASE s.kind = "keyword"
  BY Zenon, <1>1, <1>4 DEF Guard!Check, Guard!KeywordStage, Guard!Pass, Guard!Block, Quiet
<1>5. CASE s.kind = "json_schema"
  BY Zenon, <1>1, <1>5 DEF Guard!Check, Guard!JSONSchemaStage, Guard!Pass, Guard!Block, Quiet
<1>6. CASE s.kind \in {"length", "webhook", "plugin"}
  <2>1. r.action = "pass"
    BY Zenon, <1>6 DEF Guard!Check, Guard!LengthStage, Guard!WebhookStage, Guard!PluginStage, Guard!Pass,
       Guard!Block
  <2>2. Quiet(s, ms)
    BY Zenon, <1>6 DEF Quiet
  <2> HIDE DEF r
  <2> QED
    BY <1>1, <2>1, <2>2 DEF r
<1>7. s.kind \in {"pii", "regex", "keyword", "length", "json_schema", "webhook", "plugin"}
  BY Zenon DEF Stages
<1> QED
  BY Zenon, <1>2, <1>3, <1>4, <1>5, <1>6, <1>7

\* As long as no webhook has rewritten the text, every stage that has run finds nothing
\* in what the next one is given.
GuardInv ==
    /\ stages \in Seq(Stages) /\ given \in Texts
    /\ done \in 0 .. Len(stages)
    /\ verdict \in {"running", "block", "pass", "redact"}
    /\ verdict \in {"pass", "redact"} => done = Len(stages)
    /\ verdict # "block" /\ hook # "redact" =>
          /\ current \in Texts /\ DOMAIN current = DOMAIN given
          /\ \A i \in 1 .. done : Guard!RefusesMark(stages[i]) \/ Quiet(stages[i], current)
          /\ verdict = "pass" => current = given

LEMMA GuardInvInit == Guard!Init => GuardInv
<1> SUFFICES ASSUME Guard!Init PROVE GuardInv
  OBVIOUS
<1>1. stages \in Seq(Stages) /\ Len(stages) \in Nat
  BY PipelinesAssumption DEF Guard!Init
<1>2. given \in Texts
  <2>1. given \in Seq(Seq(STRING))
    BY Zenon, ContentsAssumption DEF Guard!Init
  <2>2. Seq(STRING) \subseteq Seq(Words)
    BY DEF Words
  <2> DEFINE A == Seq(STRING)
             B == Seq(Words)
  <2> HIDE DEF A, B
  <2>3. \A x \in Seq(A) : A \subseteq B => x \in Seq(B)
    OBVIOUS
  <2> QED
    BY <2>1, <2>2, <2>3 DEF Texts, A, B
<1> QED
  BY <1>1, <1>2 DEF Guard!Init, GuardInv

LEMMA GuardInvStage == GuardInv /\ Guard!Stage => GuardInv'
<1> SUFFICES ASSUME GuardInv, Guard!Stage PROVE GuardInv'
  OBVIOUS
<1> DEFINE s == stages[done + 1]
<1>1. /\ verdict = "running" /\ done < Len(stages) /\ done' = done + 1
      /\ stages' = stages /\ given' = given /\ direction' = direction
  BY Zenon DEF Guard!Stage
<1>2. stages \in Seq(Stages) /\ done \in Nat /\ done + 1 \in 1 .. Len(stages)
  BY <1>1 DEF GuardInv
<1>3. s \in Stages
  BY SMTT(30), <1>2
<1>4. PICK answer :
         LET r == Guard!Check(s, current, answer)
         IN  /\ current' = Guard!NextSees(r)
             /\ verdict' = IF r.action = "block" THEN "block" ELSE "running"
             /\ hook' = IF s.kind = "webhook" /\ hook # "redact" THEN answer ELSE hook
  BY Zenon DEF Guard!Stage
<1> DEFINE r == Guard!Check(s, current, answer)
<1>5. verdict' \in {"running", "block"} /\ (verdict' # "block" => r.action # "block")
  BY <1>4
<1>6. ASSUME verdict' # "block", hook' # "redact"
      PROVE  /\ current' \in Texts /\ DOMAIN current' = DOMAIN given
             /\ \A i \in 1 .. done' : Guard!RefusesMark(stages[i]) \/ Quiet(stages[i], current')
  <2>1. hook # "redact" /\ ~(s.kind = "webhook" /\ answer = "redact")
    BY <1>4, <1>6
  <2>2. /\ current \in Texts /\ DOMAIN current = DOMAIN given
        /\ \A i \in 1 .. done : Guard!RefusesMark(stages[i]) \/ Quiet(stages[i], current)
    BY <1>1, <2>1 DEF GuardInv
  <2> DEFINE ns == IF r.action = "redact" THEN r.messages ELSE current
  <2>3. current' = ns
    BY Zenon, <1>4 DEF Guard!NextSees
  <2>4. Fewer(ns, current) /\ (~Guard!RefusesMark(s) => Quiet(s, ns))
    <3> HIDE DEF s
    <3> QED
      BY Zenon, <1>3, <1>5, <1>6, <2>1, <2>2, CheckQuiet
  <2> HIDE DEF ns, r
  <2>5. ns \in Texts /\ DOMAIN ns = DOMAIN given
    BY Zenon, <2>2, <2>4 DEF Fewer
  <2>6. ASSUME NEW i \in 1 .. done + 1, ~Guard!RefusesMark(stages[i]) PROVE Quiet(stages[i], ns)
    <3>1. CASE i = done + 1
      BY <2>4, <2>6, <3>1
    <3>2. CASE i \in 1 .. done
      <4>1. stages[i] \in Stages /\ Quiet(stages[i], current)
        BY SMTT(30), <1>2, <2>2, <2>6, <3>2
      <4> QED
        BY Zenon, <2>4, <2>6, <4>1, QuietStays
    <3> QED
      BY <1>2, <3>1, <3>2
  <2> QED
    BY Zenon, <1>1, <2>3, <2>5, <2>6
<1> HIDE DEF s, r
<1>7. ASSUME verdict' # "block", hook' # "redact", NEW i \in 1 .. done'
      PROVE  (Guard!RefusesMark(stages[i]) \/ Quiet(stages[i], current))'
  <2>1. Guard!RefusesMark(stages[i]) \/ Quiet(stages[i], current')
    BY Zenon, <1>6, <1>7
  <2> QED
    BY Zenon, <1>1, <2>1 DEF Quiet
<1> QED
  BY <1>1, <1>2, <1>5, <1>6, <1>7 DEF GuardInv

LEMMA GuardInvConclude == GuardInv /\ Guard!Conclude => GuardInv'
<1> SUFFICES ASSUME GuardInv, Guard!Conclude PROVE GuardInv'
  OBVIOUS
<1>1. /\ verdict = "running" /\ done = Len(stages) /\ done' = done /\ stages' = stages
      /\ given' = given /\ direction' = direction /\ current' = current /\ hook' = hook
  BY Zenon DEF Guard!Conclude
<1>2. verdict' = IF current # <<>> /\ current # given THEN "redact" ELSE "pass"
  BY Zenon DEF Guard!Conclude
<1>3. ASSUME hook # "redact", verdict' = "pass" PROVE current = given
  <2>1. current \in Texts /\ given \in Texts /\ DOMAIN current = DOMAIN given
    BY Zenon, <1>1, <1>3 DEF GuardInv
  <2>2. current = <<>> => given = <<>>
    BY <2>1 DEF Texts
  <2> QED
    BY <1>2, <1>3, <2>2
<1> QED
  BY <1>1, <1>2, <1>3 DEF GuardInv, Quiet

\* CheckInput and CheckOutput: what leaves the pipeline is acceptable to every stage,
\* the ones before a redaction included, for every pipeline and every request.
THEOREM EveryStageSatisfiedHolds == Guard!Spec => []EveryStageSatisfied
<1>1. GuardInv /\ [Guard!Next]_Guard!vars => GuardInv'
  <2>1. GuardInv /\ UNCHANGED Guard!vars => GuardInv'
    BY Zenon DEF GuardInv, Guard!vars, Quiet
  <2> QED
    BY Zenon, <2>1, GuardInvStage, GuardInvConclude DEF Guard!Next
<1>2. GuardInv => EveryStageSatisfied
  <2> SUFFICES ASSUME GuardInv, verdict \in {"pass", "redact"}, hook # "redact",
                      NEW i \in DOMAIN stages, ~Guard!RefusesMark(stages[i])
               PROVE  ~Guard!Objects(stages[i], Guard!Delivered)
    BY Zenon DEF EveryStageSatisfied, Guard!EveryStageSatisfied
  <2>1. current \in Texts /\ Guard!Delivered = current
    BY Zenon DEF GuardInv, Guard!Delivered
  <2>2. stages[i] \in Stages /\ i \in 1 .. done
    BY DEF GuardInv
  <2>3. Quiet(stages[i], current)
    BY Zenon, <2>2 DEF GuardInv
  <2> QED
    BY <2>1, <2>2, <2>3, QuietAccepts
<1> QED
  BY <1>1, <1>2, GuardInvInit, PTL DEF Guard!Spec
=============================================================================
