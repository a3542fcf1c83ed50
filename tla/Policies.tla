------------------------------ MODULE Policies -------------------------------
(***************************************************************************)
(* What the configuration says of a request that was let in: where it may  *)
(* go (Routing) and what it may say (Guardrails).  The two share no state. *)
(***************************************************************************)
EXTENDS Integers, Sequences

CONSTANTS
    Jobs, Residencies,      \* Routing
    Pipelines, Contents     \* Guardrails

VARIABLES
    job, res, primary, plan,
    direction, stages, given, current, done, saw, hook, verdict

routeVars == <<job, res, primary, plan>>
guardVars == <<direction, stages, given, current, done, saw, hook, verdict>>

Route == INSTANCE Routing

Guard == INSTANCE Guardrails

-----------------------------------------------------------------------------
(* What config.Validate and the factories of the stages let through *)

\* Every region has a name, every route names a provider, a model has a route.
ProviderRegions == Seq([name : Seq(STRING) \ {<<>>}, priority : Int, tag : STRING])
Routes(j) == Seq([provider : DOMAIN j.regions, weight : Int])

ASSUME JobsAssumption ==
    \A j \in Jobs :
        /\ \A p \in DOMAIN j.regions : j.regions[p] \in ProviderRegions
        /\ j.routes \in Routes(j) \ {<<>>}
        /\ j.fallbacks \in Routes(j)

\* The empty string requires nothing.
ASSUME ResidenciesAssumption == "" \notin Residencies

Rules == [token : STRING, action : {"block", "redact", "log"}]
Stages ==
    [kind : {"pii"}, types : SUBSET STRING, action : {"block", "redact"}]
    \cup [kind : {"regex"}, rules : Seq(Rules)]
    \cup [kind : {"keyword"}, token : STRING, action : {"block", "log"}]
    \cup [kind : {"length"}, min : Int, max : Int]
    \cup [kind : {"json_schema"}, strict : BOOLEAN]
    \cup [kind : {"webhook"}, onError : BOOLEAN, onTimeout : BOOLEAN]
    \cup [kind : {"plugin"}]

ASSUME PipelinesAssumption == \A p \in Pipelines : p \in Seq(Stages)

ASSUME ContentsAssumption == \A ms \in Contents : ms \in Seq(Seq(STRING))

-----------------------------------------------------------------------------
(* Properties, explained in the modules that state them *)

\* Plan, reorderByHealth: no target is lost or repeated, and the healthy come first.
HealthOrdersPlan == Route!HealthOrdersPlan
\* FilterByResidency: what is left is tagged with the residency asked for.
ResidencyTags == Route!ResidencyTags
\* CheckInput, CheckOutput: what leaves the pipeline is acceptable to every stage.
EveryStageSatisfied == Guard!EveryStageSatisfied

\* The comment of CheckInput, "If any stage redacts, subsequent stages see the redacted
\* version.": no stage is asked about an empty request in place of the caller's.
LaterStagesSee == Guard!LaterStagesSee
=============================================================================
