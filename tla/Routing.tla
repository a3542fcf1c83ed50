------------------------------ MODULE Routing -------------------------------
(***************************************************************************)
(* internal/routing/router.go and residency.go: from a configuration to    *)
(* the targets of one request.  A job is one configuration with what the   *)
(* latency cache and the health tracker say when the request is planned.   *)
(* Maps are visited in any order; rand is any choice.  The strategies cost *)
(* and smart are refused by config.Validate and left out.                  *)
(***************************************************************************)
EXTENDS Integers, FiniteSets, Sequences, Functions, Subsequences

CONSTANTS
    Jobs,       \* records: regions (provider -> sequence of [name, priority, tag]),
                \* local, strategy, latency (region -> time, partial), sick (targets),
                \* routes and fallbacks (sequences of [provider, weight])
    Residencies \* what a request may require of the region

VARIABLES job, res, primary, plan
vars == <<job, res, primary, plan>>

\* A region name is the sequence of its parts between dashes.
regionPrefix(name) == name[1]
Tag(region) == IF region.tag = "" THEN regionPrefix(region.name) ELSE region.tag

Owners(j, name) == {p \in DOMAIN j.regions : \E i \in DOMAIN j.regions[p] : j.regions[p][i].name = name}
Region(j, p, name) == j.regions[p][CHOOSE i \in DOMAIN j.regions[p] : j.regions[p][i].name = name]
Names(j) == UNION {{j.regions[p][i].name : i \in DOMAIN j.regions[p]} : p \in DOMAIN j.regions}

\* New: regionDataRes has one tag per region name: that of the last provider
\* visited that has a region of the name.
RegionDataRes(j) ==
    {[n \in Names(j) |-> Tag(Region(j, last[n], n))] :
        last \in {f \in [Names(j) -> DOMAIN j.regions] : \A n \in Names(j) : f[n] \in Owners(j, n)}}

Init ==
    /\ job \in Jobs
    /\ res \in RegionDataRes(job)
    /\ primary = 0
    /\ plan = <<>>

-----------------------------------------------------------------------------
(* One route, as targets *)

NoRegion == <<>>
expandRoute(p) ==
    IF job.regions[p] = <<>> THEN <<[provider |-> p, region |-> NoRegion, tag |-> ""]>>
    ELSE [i \in DOMAIN job.regions[p] |->
            [provider |-> p, region |-> job.regions[p][i].name, tag |-> res[job.regions[p][i].name]]]

Priority(region) == IF region.priority <= 0 THEN 1 ELSE region.priority

\* regionPriority searches all providers for the name; the first one found wins.
regionPriority(name) == {Priority(Region(job, p, name)) : p \in Owners(job, name)}

IsLocal(t) == job.local # NoRegion /\ t.region = job.local

\* The local region wins a tie.
LocalFirst(best) == IF \E t \in best : IsLocal(t) THEN {t \in best : IsLocal(t)} ELSE best

\* selectByPriority: what rand can choose, for the priorities that were found
selectByPriority(targets) ==
    LET found == UNION {regionPriority(t.region) : t \in targets}
    IN  UNION {LocalFirst({t \in targets : \A u \in targets : prio[t] <= prio[u]}) :
                 prio \in {f \in [targets -> found] : \A t \in targets : f[t] \in regionPriority(t.region)}}

Known(targets) == {t \in targets : t.region \in DOMAIN job.latency}

\* selectByLatency: the sort is stable, the first of the fastest is taken.
selectByLatency(seq) ==
    LET known == Known(Range(seq))
        fastest == {i \in DOMAIN seq : seq[i] \in known /\
                      \A t \in known : job.latency[seq[i].region] <= job.latency[t.region]}
    IN  IF known = {} THEN selectByPriority(Range(seq))
        ELSE {seq[i] : i \in {i \in fastest : \A k \in fastest : i <= k}}

selectBest(seq) ==
    IF Len(seq) = 1 THEN {seq[1]}
    ELSE IF job.strategy = "latency" THEN selectByLatency(seq)
    ELSE selectByPriority(Range(seq))

-----------------------------------------------------------------------------
(* The plan *)

Weight(route) == IF route.weight <= 0 THEN 1 ELSE route.weight

Taken(pick, weight) == pick < weight

\* chooseWeighted, for the number that rand picked: the route it stops at
chooseWeighted(routes, pick) ==
    LET left[i \in DOMAIN routes] ==
            IF i = 1 THEN pick ELSE left[i - 1] - Weight(routes[i - 1])
        stops == {i \in DOMAIN routes : Taken(left[i], Weight(routes[i]))}
    IN  IF Len(routes) = 1 \/ stops = {} THEN 1
        ELSE CHOOSE i \in stops : \A k \in stops : i <= k

\* The weights of the first n routes together, for every n
WeightUpTo(routes) ==
    LET upTo[n \in 0 .. Len(routes)] == IF n = 0 THEN 0 ELSE upTo[n - 1] + Weight(routes[n])
    IN  upTo
Total(routes) == WeightUpTo(routes)[Len(routes)]

\* IsHealthy, as the tracker answers now
Fit(t) == <<t.provider, t.region>> \notin job.sick

\* (variant: health is ignored)
KeepOrder(targets) == targets
reorderByHealth(targets) ==
    LET healthy == {i \in DOMAIN targets : Fit(targets[i])}
    IN  IF healthy = {} THEN targets
        ELSE Picked(targets, healthy) \o Picked(targets, DOMAIN targets \ healthy)

Fallbacks ==
    LET upTo[n \in 0 .. Len(job.fallbacks)] ==
            IF n = 0 THEN <<>> ELSE upTo[n - 1] \o expandRoute(job.fallbacks[n].provider)
    IN  upTo[Len(job.fallbacks)]

Plan ==
    /\ plan = <<>>
    /\ \E pick \in 0 .. Total(job.routes) - 1 :
          primary' = chooseWeighted(job.routes, pick)
    /\ \E best \in selectBest(expandRoute(job.routes[primary'].provider)) :
          plan' = reorderByHealth(<<best>> \o Fallbacks)
    /\ UNCHANGED <<job, res>>

\* (variant: the tag is ignored)
matchesPrefix(t, need) == t.region # NoRegion /\ regionPrefix(t.region) = need
matchesResidency(t, need) == t.region # NoRegion /\ t.tag = need
FilterByResidency(targets, need) ==
    IF need = "" THEN targets
    ELSE Picked(targets, {i \in DOMAIN targets : matchesResidency(targets[i], need)})

Spec == Init /\ [][Plan]_vars

-----------------------------------------------------------------------------
(* Properties *)

Planned == plan # <<>>
Count(seq, t) == Cardinality({i \in DOMAIN seq : seq[i] = t})

\* Reordering by health loses and repeats no target, the plan being one region of the
\* chosen route and every region of every fallback; and in a plan no unhealthy target
\* comes before a healthy one.
HealthOrdersPlan ==
    /\ Planned => \E t \in Range(expandRoute(job.routes[primary].provider)) :
          \A u \in Range(plan) \cup Range(<<t>> \o Fallbacks) :
              Count(plan, u) = Count(<<t>> \o Fallbacks, u)
    /\ \A i, k \in DOMAIN plan : i < k /\ Fit(plan[k]) => Fit(plan[i])

\* A target let through by FilterByResidency has a region that its own provider
\* tags with the residency asked for, when providers that share a region name
\* tag it alike.
ResidencyTags ==
    (\A n \in Names(job) : \A p, q \in Owners(job, n) : Tag(Region(job, p, n)) = Tag(Region(job, q, n))) =>
        \A need \in Residencies :
            LET kept == FilterByResidency(plan, need)
            IN  \A i \in DOMAIN kept : Tag(Region(job, kept[i].provider, kept[i].region)) = need
=============================================================================
