------------------------------ MODULE Planning ------------------------------
(***************************************************************************)
(* The product's plan (internal/productrun plan.go, persisted_plan.go,     *)
(* definitions.go, path.go; internal/config): Build derives both plans of  *)
(* a run from a configured target, the caller holds the result and may     *)
(* change it, and Execute checks, detaches, checks again and persists it   *)
(* before any request leaves.                                              *)
(*                                                                         *)
(* A base URL is its scheme, host and path segments; the rest of it that   *)
(* the code refuses (user, query, fragment, escapes) is one flag each.     *)
(* Model names, hosts and headers are opaque.  Operators that may fail     *)
(* return a set: {} is the error.                                          *)
(***************************************************************************)
EXTENDS Planner

CONSTANTS
    PlanRequests,       \* [name, target, budget, ids] as a caller passes them to Build
    OtherModel,         \* what the caller's edits put in place of
    OtherRef,           \*   the model and the secret reference
    NotTokens,          \* header names with a character HTTP does not allow
    MaxEdits            \* bound: changes the caller makes to one plan

(* What the proofs need to know of a request: its target is a record. *)
ASSUME PlanningConstants ==
    \A request \in PlanRequests :
        LET t == request.target
        IN  t = [scheme |-> t.scheme, host |-> t.host, plain |-> t.plain, path |-> t.path,
                 escaped |-> t.escaped, protocol |-> t.protocol, model |-> t.model,
                 auth |-> t.auth, metadata |-> t.metadata]

VARIABLE planned        \* [stage, request, caller, frozen, snapshot, sends, edits]

ParseSecretReference(ref) ==
    /\ ref.scheme \in {"env", "keyring", "file", "exec"}
    /\ ref.value \notin {"", "control"}
    /\ ref.scheme = "env" => ref.value # "path"

AuthValid(auth) ==
    /\ auth.type \in {"bearer", "header"}
    /\ auth.type = "header" => auth.header # ""
    /\ ParseSecretReference(auth.ref)

(* auth is {} (none configured) or a singleton. *)
TargetValid(target) ==
    /\ target.scheme \in {"http", "https"} /\ target.host # "" /\ target.plain
    /\ target.protocol # "" /\ target.model # ""
    /\ \A auth \in target.auth : AuthValid(auth)

authHeaderName(auth) ==
    LET name == IF auth.type = "header" THEN auth.header ELSE "authorization"
    IN  {name} \ (NotTokens \union
          {"", "host", "content-length", "transfer-encoding", "connection",
           "proxy-connection", "upgrade", "content-type", "accept", "anthropic-version"})

validateAuthConfig(target) == \A auth \in target.auth : authHeaderName(auth) # {}

(* One trailing slash is dropped; dot segments, empty ones and escapes are *)
(* refused.                                                                *)
canonicalBasePath(target) ==
    IF target.escaped \/ Range(target.path) \intersect {"", ".", ".."} # {}
    THEN {} ELSE {target.path}

Suffix(protocol) ==
    CASE protocol = "openai-chat" -> {<<"chat", "completions">>}
      [] protocol = "openai-responses" -> {<<"responses">>}
      [] protocol = "anthropic-messages" -> {<<"messages">>}
      [] OTHER -> {}

Origin(target) == [scheme |-> target.scheme, host |-> target.host]

routeTarget(target) ==
    IF ~TargetValid(target) THEN {}
    ELSE UNION {{[origin |-> Origin(target),
                  endpoint |-> (IF base = <<>> THEN <<"v1">> ELSE base) \o suffix] :
                    suffix \in Suffix(target.protocol)} : base \in canonicalBasePath(target)}

-----------------------------------------------------------------------------
(* definitions.go: the built-in scenarios and what is derived from them. *)
StructuralTokenCap == 64
TerminalTokenCap == 512

Descriptor(id, streaming, check, tokens) ==
    [id |-> id, streaming |-> streaming, check |-> check, tokens |-> tokens]

ChatScenarios ==
    <<Descriptor("chat-002", FALSE, "finish_reason", TerminalTokenCap),
      Descriptor("chat-015", TRUE, "no_post_terminal", StructuralTokenCap),
      Descriptor("chat-024", TRUE, "stream_media_type", StructuralTokenCap),
      Descriptor("chat-030", FALSE, "required_envelope", StructuralTokenCap)>>

ResponsesScenarios ==
    <<Descriptor("responses-008", TRUE, "stream_media_type", StructuralTokenCap),
      Descriptor("responses-014", FALSE, "required_envelope", StructuralTokenCap),
      Descriptor("responses-030", TRUE, "terminal_event", StructuralTokenCap),
      Descriptor("responses-039", FALSE, "finish_reason", TerminalTokenCap)>>

MessagesScenarios ==
    <<Descriptor("messages-008", TRUE, "no_post_terminal", StructuralTokenCap),
      Descriptor("messages-017", TRUE, "stream_media_type", StructuralTokenCap),
      Descriptor("messages-023", FALSE, "required_envelope", StructuralTokenCap),
      Descriptor("messages-039", TRUE, "terminal_event", StructuralTokenCap)>>

BuiltinScenarios(protocol) ==
    CASE protocol = "openai-chat" -> {ChatScenarios}
      [] protocol = "openai-responses" -> {ResponsesScenarios}
      [] protocol = "anthropic-messages" -> {MessagesScenarios}
      [] OTHER -> {}

requestBody(protocol, model, streaming, tokens) ==
    [limit |-> CASE protocol = "openai-chat" -> "max_completion_tokens"
                 [] protocol = "openai-responses" -> "max_output_tokens"
                 [] OTHER -> "max_tokens",
     model |-> model, streaming |-> streaming, tokens |-> tokens]

Material(protocol, model, endpoint, d) ==
    [descriptor |-> d, path |-> endpoint,
     accept |-> IF d.streaming THEN "text/event-stream" ELSE "application/json",
     version |-> protocol = "anthropic-messages",
     body |-> requestBody(protocol, model, d.streaming, d.tokens)]

deriveArtifacts(protocol, model, endpoint) ==
    {[driver |-> "builtin-raw-http", support |-> "candidate-unresolved",
      pack |-> [protocol |-> protocol,
                materials |-> [i \in DOMAIN entries |->
                                 Material(protocol, model, endpoint, entries[i])]]] :
       entries \in BuiltinScenarios(protocol)}

DefaultBudget(count) ==
    [hard |-> [requests |-> count, requestBytes |-> count * 65536,
               responseBytes |-> count * 524288, artifactBytes |-> count * 9437184,
               processes |-> 1, seconds |-> 60],
     reservation |-> [input |-> 0, output |-> count * TerminalTokenCap],
     cleanup |-> UnitHard]

AddUp(values) ==
    LET sum[n \in 0..Len(values)] == IF n = 0 THEN 0 ELSE sum[n - 1] + values[n]
    IN  sum[Len(values)]

SumTokens(materials) == AddUp([i \in DOMAIN materials |-> materials[i].descriptor.tokens])

defaultBudgetFor(materials) ==
    [DefaultBudget(Len(materials)) EXCEPT !.reservation.output = SumTokens(materials)]

-----------------------------------------------------------------------------
(* plan.go and persisted_plan.go. *)
persistedTarget(target) ==
    [scheme |-> target.scheme, host |-> target.host, plain |-> target.plain,
     path |-> target.path, escaped |-> target.escaped,
     protocol |-> target.protocol, model |-> target.model,
     auth |-> {[type |-> auth.type, header |-> auth.header] : auth \in target.auth}]

persistedConfigDigest(name, public) == [name |-> name, target |-> public]

IntentOf(name, target, budget, author, id, derived, route) ==
    BuildIntent(
        [id |-> id, config |-> persistedConfigDigest(name, persistedTarget(target)),
         target |-> [logicalRef |-> name, protocolFamily |-> target.protocol,
                     origin |-> route.origin],
         selectors |-> {derived.pack}, support |-> derived.support,
         budget |-> budget, author |-> author],
        [i \in DOMAIN derived.pack.materials |->
           [id |-> derived.pack.materials[i].descriptor.id,
            capabilities |-> <<>>, dependsOn |-> {}]])

ResolvedOf(name, target, id, derived, intent) ==
    LET config == persistedConfigDigest(name, persistedTarget(target))
    IN  ResolvePlan(intent,
            [id |-> id, resolver |-> derived.driver, support |-> derived.support,
             artifacts |-> {derived.pack},
             target |-> [fingerprint |-> config, configuration |-> config,
                         model |-> target.model],
             runtime |-> [concurrency |-> 1, retries |-> 0,
                          timeout |-> intent.body.budget.hard.seconds]],
            [i \in DOMAIN derived.pack.materials |->
               [id |-> derived.pack.materials[i].descriptor.id,
                capabilities |-> <<>>, dependsOn |-> {}]],
            <<>>)

(* The route of a target with the artifacts derived for it. *)
Derived(target) ==
    IF ~validateAuthConfig(target) THEN {}
    ELSE UNION {{[route |-> route, artifacts |-> artifacts] :
                   artifacts \in deriveArtifacts(target.protocol, target.model,
                                                 route.endpoint)} :
                route \in routeTarget(target)}

PlannedRun(name, target, intent, resolved) ==
    [name |-> name, target |-> target,
     execution |-> [name |-> name, target |-> target],
     intent |-> intent, resolved |-> resolved]

buildExact(name, target, budget, author, ids) ==
    UNION {UNION {
      {PlannedRun(name, target, intent, resolved) :
         resolved \in ResolvedOf(name, target, ids[2], d.artifacts, intent)} :
      intent \in IntentOf(name, target, budget, author, ids[1], d.artifacts, d.route)} :
      d \in Derived(target)}

(* request.budget is {} (the zero policy) or a singleton. *)
Build(request) ==
    LET name == IF request.name = "" THEN "default" ELSE request.name
        budgets == IF request.budget # {} THEN request.budget
                   ELSE {defaultBudgetFor(d.artifacts.pack.materials) :
                           d \in Derived(request.target)}
    IN  IF request.ids[1] = request.ids[2] THEN {}
        ELSE UNION {buildExact(name, request.target, budget, "local-user", request.ids) :
                      budget \in {b \in budgets : BudgetValid(b)}}

(* Faulty variant: the digest of the whole configuration is not compared. *)
validateEnvelopes(input) ==
    /\ IntentValid(input.intent) /\ ResolvedValid(input.resolved)
    /\ input.resolved.body.intent = input.intent.meta.ref
    /\ \E expected \in buildExact(input.name, input.target, input.intent.body.budget,
                                  input.intent.body.author,
                                  <<input.intent.body.id, input.resolved.body.id>>) :
         /\ input.intent = expected.intent
         /\ input.resolved = expected.resolved

validatePlanned(input) ==
    /\ IntentValid(input.intent) /\ ResolvedValid(input.resolved)
    /\ input.resolved.body.intent = input.intent.meta.ref
    /\ \E expected \in buildExact(input.name, input.target, input.intent.body.budget,
                                  input.intent.body.author,
                                  <<input.intent.body.id, input.resolved.body.id>>) :
         /\ input.execution = expected.execution
         /\ input.intent = expected.intent
         /\ input.resolved = expected.resolved

newPersistedPlan(input) ==
    [name |-> input.name, target |-> persistedTarget(input.target),
     intent |-> input.intent, resolved |-> input.resolved]

verifyIntentEnvelope(plan) == IntentValid(plan) /\ plan.meta.content = plan.body

verifyResolvedEnvelope(plan) == ResolvedValid(plan) /\ plan.meta.content = plan.body

PersistedValid(plan) ==
    /\ plan.name \notin {"", "latest"}
    /\ TargetValid([plan.target EXCEPT !.auth =
           {[type |-> a.type, header |-> a.header,
             ref |-> [scheme |-> "env", value |-> "name"]] : a \in plan.target.auth}])
    /\ validateAuthConfig(plan.target)
    /\ verifyIntentEnvelope(plan.intent)
    /\ verifyResolvedEnvelope(plan.resolved)
    /\ plan.resolved.body.intent = plan.intent.meta.ref
    /\ plan.intent.body.target.logicalRef = plan.name
    /\ plan.intent.body.target.protocolFamily = plan.target.protocol
    /\ plan.intent.body.target.origin = Origin(plan.target)
    /\ plan.resolved.body.target.model = plan.target.model
    /\ plan.resolved.body.target.fingerprint = plan.intent.body.config
    /\ plan.resolved.body.target.configuration = plan.intent.body.config
    /\ plan.intent.body.config = persistedConfigDigest(plan.name, plan.target)
    /\ plan.intent.body.support = plan.resolved.body.support

(* The snapshot is canonical JSON: the record itself. *)
PlanJSON(input) ==
    IF validatePlanned(input) /\ PersistedValid(newPersistedPlan(input))
    THEN {newPersistedPlan(input)} ELSE {}

DecodePlanJSON(snapshot) == PersistedValid(snapshot)

(* Resolving the reference is the resolver's; the outcomes it may have. *)
resolveAuth(target, credential) ==
    IF target.auth = {} THEN {{}}
    ELSE IF credential # "good" THEN {}
    ELSE {UNION {{[header |-> name, ref |-> auth.ref] : name \in authHeaderName(auth)} :
                   auth \in target.auth}}

materializeScenarios(derived, digest, headers) ==
    {[plan |-> digest, material |-> derived.pack.materials[i], headers |-> headers] :
       i \in DOMAIN derived.pack.materials}

-----------------------------------------------------------------------------
(* One run: the caller builds a plan, may change what it holds, and calls  *)
(* Execute.                                                                *)
Absent == [name |-> "absent"]

PlanningInit ==
    planned = [stage |-> "start", request |-> Absent, caller |-> Absent,
               frozen |-> Absent, snapshot |-> Absent, sends |-> {}, edits |-> 0]

BuildPlan ==
    /\ planned.stage = "start"
    /\ \E request \in PlanRequests :
         \/ \E plan \in Build(request) :
              planned' = [planned EXCEPT !.stage = "built", !.request = request,
                                         !.caller = plan]
         \/ /\ Build(request) = {}
            /\ planned' = [planned EXCEPT !.stage = "unbuildable", !.request = request]

(* What other goroutines still reach once Execute has its own copy of the  *)
(* struct: the memory behind pointers, maps and slices.                    *)
SharedEdits(plan) ==
    {[plan EXCEPT !.target.auth = {[auth EXCEPT !.ref = OtherRef] : auth \in @}],
     [plan EXCEPT !.target.metadata = "edited"],
     [plan EXCEPT !.resolved.body.scenarios[1].disposition = "skip"]}

(* Before the call any field may be changed. *)
OwnEdits(plan) == SharedEdits(plan) \union
    {[plan EXCEPT !.target.model = OtherModel],
     [plan EXCEPT !.name = "renamed"],
     [plan EXCEPT !.intent.body.budget.hard.requests = @ + 1],
     [plan EXCEPT !.resolved.body.scenarios = SubSeq(@, 1, Len(@) - 1)],
     [plan EXCEPT !.execution.target.model = OtherModel]}

EditPlan ==
    /\ planned.edits < MaxEdits
    /\ \E plan \in CASE planned.stage = "built" -> OwnEdits(planned.caller)
                       [] planned.stage = "checked" -> SharedEdits(planned.caller)
                       [] OTHER -> {} :
         planned' = [planned EXCEPT !.caller = plan, !.edits = @ + 1]

(* frozenPlanJSON validates what the caller holds ... *)
CheckPlan ==
    /\ planned.stage = "built"
    /\ planned' = [planned EXCEPT !.stage =
                     IF validatePlanned(planned.caller) THEN "checked" ELSE "refused"]

(* ... and marshals it: from here on Execute has its own copy. *)
FreezePlan ==
    /\ planned.stage = "checked"
    /\ planned' = [planned EXCEPT !.stage = "frozen", !.frozen = planned.caller]

(* The rest of Execute up to the first request. *)
AdmitPlan ==
    /\ planned.stage = "frozen"
    /\ \E credential \in {"none", "empty", "short", "good"} :
         LET plan == planned.frozen
             headers == resolveAuth(plan.target, credential)
         IN  planned' =
               IF ~validatePlanned(plan) \/ PlanJSON(plan) = {}
               THEN [planned EXCEPT !.stage = "refused"]
               ELSE IF headers = {}
               THEN [planned EXCEPT !.stage = "no credential"]
               ELSE [planned EXCEPT !.stage = "admitted",
                       !.snapshot = CHOOSE snapshot \in PlanJSON(plan) : TRUE,
                       !.sends = UNION {UNION {materializeScenarios(d.artifacts,
                                                   plan.resolved.meta.content, h) :
                                          h \in headers} : d \in Derived(plan.target)}]

PlanningNext == BuildPlan \/ EditPlan \/ CheckPlan \/ FreezePlan \/ AdmitPlan

PlanningSpec == PlanningInit /\ [][PlanningNext]_planned

-----------------------------------------------------------------------------
(* What the raw driver reserves for one request (rawdriver estimateFor);   *)
(* its body is at most the 64 KiB a scenario may send.                     *)
Estimated(material) ==
    [requests |-> 1, requestBytes |-> 65536, responseBytes |-> 524288,
     artifactBytes |-> 65536 + 16 * 524288 + 65536, output |-> material.body.tokens]

SumOf(materials, field) == AddUp([i \in DOMAIN materials |-> Estimated(materials[i])[field]])

(***************************************************************************)
(* A run sends what was planned and keeps a record of it that can be read  *)
(* back.  Whatever the caller or another goroutine changes in the plan     *)
(* between Build and the copy that Execute takes (execute.go:64-80):       *)
(*  - the requests go to the target, with the model and the credential     *)
(*    reference, that Build was given, one per scenario of both plans;     *)
(*  - the persisted snapshot decodes again and names that target;          *)
(*  - under the default budget no request can be starved by the others;    *)
(* and a plan nobody changed is refused only for the name "latest", which  *)
(* Build and the configuration accept (persisted_plan.go:106).             *)
(***************************************************************************)
SendsWhatWasPlanned ==
    LET request == planned.request
        plan == planned.frozen
    IN  /\ planned.stage = "admitted" =>
             /\ plan.target = request.target
             /\ \A send \in planned.sends :
                  /\ send.plan = plan.resolved.body
                  /\ send.material.body.model = request.target.model
                  /\ {h.ref : h \in send.headers} = {a.ref : a \in request.target.auth}
             /\ {send.material.descriptor.id : send \in planned.sends} =
                  plan.intent.body.denominator
             /\ plan.intent.body.denominator = plan.resolved.body.denominator
             /\ DecodePlanJSON(planned.snapshot)
             /\ planned.snapshot.target = persistedTarget(request.target)
             /\ \A pack \in plan.intent.body.selectors :
                  request.budget = {} =>
                    /\ \A f \in {"requests", "requestBytes", "responseBytes", "artifactBytes"} :
                         SumOf(pack.materials, f) <= plan.resolved.body.budget.hard[f]
                    /\ SumOf(pack.materials, "output") <=
                         plan.resolved.body.budget.reservation.output
        /\ planned.stage = "refused" => planned.edits > 0 \/ request.name = "latest"
=============================================================================
