------------------------------ MODULE Planner ------------------------------
(***************************************************************************)
(* The planner (internal/planner) and the plan schema (pkg/schema/plan.go):*)
(* an IntentPlan is built offline from the scenario candidates and fixes   *)
(* the largest scope a run may have; a ResolvedRunPlan decides every       *)
(* candidate from the capability facts observed for that very intent.      *)
(*                                                                         *)
(* A digest is modelled by the value it is the digest of, so two digests   *)
(* are equal exactly when their documents are.  Operators that may fail    *)
(* return a set: {} is the error.                                          *)
(*                                                                         *)
(* The machine below is a caller that resolves one intent again each time  *)
(* a further capability observation arrives.                               *)
(***************************************************************************)
EXTENDS Integers, FiniteSets, Sequences, Functions

CONSTANTS
    CandidateLists,     \* sequences of [id, capabilities, dependsOn]
    Capabilities,       \* the capability names an observation may speak of
    MaxObservations     \* bound: observations that arrive for one intent

ASSUME PlannerConstants ==
    \A candidates \in CandidateLists : \A i \in DOMAIN candidates :
        candidates[i].capabilities \in Seq(Range(candidates[i].capabilities))

VARIABLE resolution     \* [candidates, intent, observations, plan]; {} is no plan

HardValid(hard) == \A limit \in DOMAIN hard : hard[limit] > 0

BudgetValid(budget) ==
    /\ HardValid(budget.hard)
    /\ \A kind \in DOMAIN budget.reservation : budget.reservation[kind] >= 0
    /\ HardValid(budget.cleanup)

(* The envelope of a document: its content digest and its reference. *)
SealMeta(kind, id, projection) ==
    [kind |-> kind, instance |-> id, content |-> projection,
     ref |-> [kind |-> kind, instance |-> id, content |-> projection]]

TargetIntentValid(target) ==
    /\ target.logicalRef # "" /\ target.protocolFamily # ""
    /\ target.origin.scheme \in {"http", "https"} /\ target.origin.host # ""

validateIntentBranches(branches) ==
    \A capability \in DOMAIN branches : branches[capability] # {}

IntentValid(plan) ==
    /\ plan.meta.kind = "IntentPlan" /\ plan.body.id = plan.meta.instance
    /\ TargetIntentValid(plan.body.target)
    /\ BudgetValid(plan.body.budget)
    /\ plan.body.author # "" /\ plan.body.selectors # {}
    /\ validateIntentBranches(plan.body.branches)

(* Scenario IDs are unique and a dependency stands earlier in the list. *)
validateScenarioDAG(decisions) ==
    /\ \A i, j \in DOMAIN decisions : decisions[i].id = decisions[j].id => (i = j)
    /\ \A i \in DOMAIN decisions : decisions[i].dependsOn \subseteq
          {decisions[j].id : j \in 1..(i - 1)}

ResolvedValid(plan) ==
    /\ plan.meta.kind = "ResolvedRunPlan" /\ plan.body.id = plan.meta.instance
    /\ BudgetValid(plan.body.budget)
    /\ plan.body.runtime.concurrency > 0 /\ plan.body.runtime.retries >= 0
    /\ plan.body.scenarios # <<>> /\ plan.body.artifacts # {}
    /\ validateScenarioDAG(plan.body.scenarios)

Identifiers(candidates) == {candidates[i].id : i \in DOMAIN candidates}

(* request: [id, target, config, selectors, support, budget, author]. *)
BuildIntent(request, candidates) ==
    LET named == UNION {Range(candidates[i].capabilities) : i \in DOMAIN candidates}
        branches == [c \in named |->
                       {candidates[i].id : i \in {j \in DOMAIN candidates :
                          c \in Range(candidates[j].capabilities)}}]
        body == [id |-> request.id, config |-> request.config,
                 target |-> request.target, selectors |-> request.selectors,
                 support |-> request.support, budget |-> request.budget,
                 author |-> request.author, branches |-> branches,
                 denominator |-> Identifiers(candidates)]
        plan == [meta |-> SealMeta("IntentPlan", request.id, body), body |-> body]
    IN  IF /\ candidates # <<>>
           /\ \A i \in DOMAIN candidates : candidates[i].id # ""
           /\ Cardinality(Identifiers(candidates)) = Len(candidates)
           /\ IntentValid(plan)
        THEN {plan} ELSE {}

allowedBranches(intent, capability, id) ==
    /\ capability \in DOMAIN intent.body.branches
    /\ id \in intent.body.branches[capability]

(* Faulty variant: a later fact replaces an earlier one in silence. *)
collectLatestFacts(intent, observations) ==
    IF \E i \in DOMAIN observations : observations[i].intent # intent.meta.ref
    THEN {}
    ELSE LET facts == UNION {Range(observations[i].facts) : i \in DOMAIN observations}
             speaks(c) == {i \in DOMAIN observations :
                             \E f \in Range(observations[i].facts) : f.capability = c}
             last(c) == CHOOSE i \in speaks(c) : \A j \in speaks(c) : j <= i
         IN  {[c \in {f.capability : f \in facts} |->
                 (CHOOSE f \in Range(observations[last(c)].facts) : f.capability = c).status]}

collectFacts(intent, observations) ==
    LET facts == UNION {Range(observations[i].facts) : i \in DOMAIN observations}
    IN  IF \/ \E i \in DOMAIN observations : observations[i].intent # intent.meta.ref
           \/ \E f, g \in facts : f.capability = g.capability /\ f.status # g.status
        THEN {}
        ELSE {[c \in {f.capability : f \in facts} |->
                 (CHOOSE f \in facts : f.capability = c).status]}

(* The loop over one candidate's capabilities. *)
DecideCapability(facts, disposition, capability) ==
    LET status == IF capability \in DOMAIN facts THEN facts[capability] ELSE "unknown"
    IN  CASE status = "unsupported" -> "not_applicable"
          [] status = "unknown" /\ disposition = "execute" -> "skip"
          [] OTHER -> disposition

Decide(facts, candidate) ==
    LET disposition[n \in 0..Len(candidate.capabilities)] ==
            IF n = 0 THEN "execute"
            ELSE DecideCapability(facts, disposition[n - 1], candidate.capabilities[n])
    IN  [id |-> candidate.id, dependsOn |-> candidate.dependsOn,
         disposition |-> disposition[Len(candidate.capabilities)]]

(* request: [id, resolver, support, artifacts, target, runtime]. *)
ResolveWith(intent, request, candidates, facts) ==
    LET decisions == [i \in DOMAIN candidates |-> Decide(facts, candidates[i])]
        body == [id |-> request.id, intent |-> intent.meta.ref,
                 resolver |-> request.resolver, support |-> request.support,
                 artifacts |-> request.artifacts, target |-> request.target,
                 runtime |-> request.runtime, budget |-> intent.body.budget,
                 scenarios |-> decisions,
                 denominator |-> {decisions[i].id : i \in {j \in DOMAIN decisions :
                                    decisions[j].disposition # "not_applicable"}}]
    IN  [meta |-> SealMeta("ResolvedRunPlan", request.id, body), body |-> body]

ResolvePlan(intent, request, candidates, observations) ==
    IF /\ IntentValid(intent)
       /\ \A i \in DOMAIN candidates : \A c \in Range(candidates[i].capabilities) :
            allowedBranches(intent, c, candidates[i].id)
    THEN {plan \in {ResolveWith(intent, request, candidates, facts) :
                      facts \in collectFacts(intent, observations)} : ResolvedValid(plan)}
    ELSE {}

-----------------------------------------------------------------------------
(* A caller that probes one target and resolves after every observation. *)
UnitHard == [requests |-> 1, requestBytes |-> 1, responseBytes |-> 1,
             artifactBytes |-> 1, processes |-> 1, seconds |-> 1]

ProbeIntent(candidates) ==
    BuildIntent([id |-> "intent", config |-> "config", selectors |-> {"pack"},
                 target |-> [logicalRef |-> "main", protocolFamily |-> "chat",
                             origin |-> [scheme |-> "https", host |-> "host"]],
                 support |-> "support", author |-> "local-user",
                 budget |-> [hard |-> UnitHard, cleanup |-> UnitHard,
                             reservation |-> [input |-> 0, output |-> 0]]],
                candidates)

ResolveProbe(intent, candidates, observations) ==
    ResolvePlan(intent,
            [id |-> "resolved", resolver |-> "resolver", support |-> "support",
             artifacts |-> {"pack"}, target |-> "target",
             runtime |-> [concurrency |-> 1, retries |-> 0]],
            candidates, observations)

PlannerInit == resolution = [candidates |-> <<>>, intent |-> {}, observations |-> <<>>,
                             plan |-> {}]

Intend ==
    /\ resolution.intent = {}
    /\ \E candidates \in CandidateLists : \E intent \in ProbeIntent(candidates) :
         resolution' = [candidates |-> candidates, intent |-> {intent},
                        observations |-> <<>>,
                        plan |-> ResolveProbe(intent, candidates, <<>>)]

CapabilityFacts == [capability : Capabilities, status : {"supported", "unsupported", "unknown"}]

(* An observation bound to the intent, or to another one. *)
ObserveCapability ==
    /\ Len(resolution.observations) < MaxObservations
    /\ \E intent \in resolution.intent, fact \in CapabilityFacts :
       \E ref \in {intent.meta.ref, [intent.meta.ref EXCEPT !.instance = "another"]} :
         LET observations == Append(resolution.observations,
                                    [intent |-> ref, facts |-> <<fact>>])
         IN  resolution' = [resolution EXCEPT
                 !.observations = observations,
                 !.plan = ResolveProbe(intent, resolution.candidates, observations)]

PlannerNext == Intend \/ ObserveCapability

PlannerSpec == PlannerInit /\ [][PlannerNext]_resolution

(***************************************************************************)
(* Evidence only refines a plan.  However many observations arrive and in  *)
(* whatever order, a scenario decided "execute" or "not_applicable" keeps  *)
(* its decision in every later plan of the same intent, and the            *)
(* denominator only loses the scenarios that were decided not applicable:  *)
(* contradictory facts refuse the plan (planner.go:246) instead of letting *)
(* the later one win.                                                      *)
(***************************************************************************)
DecisionsAreFinal ==
    [][\A before \in resolution.plan, after \in resolution'.plan :
         /\ \A i \in DOMAIN before.body.scenarios :
              before.body.scenarios[i].disposition # "skip" =>
                after.body.scenarios[i] = before.body.scenarios[i]
         /\ before.body.denominator \ after.body.denominator \subseteq
              {before.body.scenarios[i].id : i \in {j \in DOMAIN before.body.scenarios :
                 before.body.scenarios[j].disposition = "skip"}}]_resolution
=============================================================================
