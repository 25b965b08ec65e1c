----------------------------- MODULE MCMachines -----------------------------
(* The components that share no state, side by side: one of them is in     *)
(* focus and moves, the others stay where they began, so that one run      *)
(* covers the sum of their state spaces and not the product.               *)
EXTENDS RateLimiter, Catalogue, Moderation, Purge, Evidence, Lifecycle, SSE,
        RawDriver, DriverProtocol, Minimizer, Planning, Workspace, TLC

VARIABLE focus

lifecycleVars == life
planningVars == <<resolution, planned>>

MCSubject == 1 :> "a" @@ 2 :> "b" @@ 3 :> "a" @@ 4 :> "a"

(* Every check that applies to every kind of exchange, each with the       *)
(* reference server and each of its mutations; and one scenario with the   *)
(* odd registrations and without an output limit.                          *)
AllScenarios ==
    [protocol : Protocols, scenario : {"text", "tool"}, streaming : BOOLEAN, check : Checks,
     limit : {TRUE}, mutation : DOMAIN Catalog \union {"none"},
     registered : {{[plan |-> "p", driver |-> "d"]}}]

MCScenarios ==
    {s \in AllScenarios : validateAssertionApplicability(s)}
    \union [protocol : {"chat"}, scenario : {"text"}, streaming : {FALSE},
            check : {"finish_reason"}, limit : BOOLEAN, mutation : {"none"},
            registered : Registrations]

MCJob == [protocol |-> "chat", scenario |-> "text", streaming |-> FALSE,
          check |-> "finish_reason", limit |-> TRUE, mutation |-> "none",
          registered |-> {[plan |-> "p", driver |-> "d"]}]

MCMinimizerInputs == {<<>>, <<1>>, <<1, 2, 3, 4>>}
MCMinimizerOptions == {[attempts |-> 0, required |-> 0, limit |-> 0],
                       [attempts |-> 3, required |-> 2, limit |-> 6],
                       [attempts |-> 1, required |-> 2, limit |-> 6]}

Candidate(id, capabilities, dependsOn) ==
    [id |-> id, capabilities |-> capabilities, dependsOn |-> dependsOn]
MCCandidateLists ==
    {<<Candidate("s1", <<"a", "b">>, {}), Candidate("s2", <<"b">>, {"s1"})>>,
     <<Candidate("s1", <<"b", "a">>, {}), Candidate("s2", <<>>, {"s1"})>>,
     <<Candidate("s1", <<"b", "a">>, {"s2"}), Candidate("s2", <<>>, {"s1"})>>,
     <<Candidate("s1", <<>>, {}), Candidate("s1", <<>>, {})>>}

SecretRef(scheme, value) == [scheme |-> scheme, value |-> value]
MCOtherRef == SecretRef("file", "path")

(* A request that Build accepts, and others that differ from it in one     *)
(* thing, most of which Build refuses.                                     *)
MCRequest ==
    [name |-> "main", budget |-> {}, ids |-> <<1, 2>>,
     target |-> [scheme |-> "https", host |-> "h", plain |-> TRUE, path |-> <<>>,
                 escaped |-> FALSE, protocol |-> "openai-chat", model |-> "m1",
                 auth |-> {[type |-> "bearer", header |-> "",
                            ref |-> SecretRef("env", "name")]},
                 metadata |-> "none"]]
MCBudget(requests) ==
    [hard |-> [UnitHard EXCEPT !.requests = requests], cleanup |-> UnitHard,
     reservation |-> [input |-> 0, output |-> 0]]
MCPlanRequests ==
    {[MCRequest EXCEPT !.name = name] : name \in {"main", "", "latest"}}
    \union {[MCRequest EXCEPT !.ids = <<1, 1>>]}
    \union {[MCRequest EXCEPT !.budget = {MCBudget(n)}] : n \in {0, 1}}
    \union {[MCRequest EXCEPT !.target.protocol = protocol] :
              protocol \in {"openai-responses", "anthropic-messages", "other"}}
    \union {[MCRequest EXCEPT !.target.path = path] : path \in {<<"api", "v3">>, <<"..">>}}
    \union {[MCRequest EXCEPT !.target.scheme = "ftp"],
            [MCRequest EXCEPT !.target.escaped = TRUE],
            [MCRequest EXCEPT !.target.auth = {}]}
    \union {[MCRequest EXCEPT !.target.auth =
               {[type |-> "header", header |-> header, ref |-> SecretRef("env", value)]}] :
              header \in {"", "x-api-key", "accept", "bad name"}, value \in {"name", "path"}}

CaseState(disposition, execution, verdict) ==
    [disposition |-> disposition, execution |-> execution, verdict |-> verdict]
MCBundle(identity, packs, cases) ==
    [identity |-> identity, packs |-> packs, cases |-> cases]
MCRunBundles ==
    LET passed == CaseState("EXECUTE", "COMPLETED", "PASS")
        failed == CaseState("EXECUTE", "COMPLETED", "FAIL")
        errored == CaseState("EXECUTE", "ERRORED", "")
        skipped == CaseState("SKIP", "SKIPPED", "")
    IN  {MCBundle(1, 1, "a" :> passed @@ "b" :> failed),
         MCBundle(1, 1, "a" :> failed @@ "b" :> errored),
         MCBundle(1, 1, "a" :> skipped),
         MCBundle(2, 1, "a" :> passed),
         MCBundle(1, 2, "a" :> passed)}
MCOldBaselines ==
    {[version |-> version, name |-> "main", identity |-> 1,
      cases |-> "b" :> CaseState("EXECUTE", "COMPLETED", "FAIL")] : version \in {"", "v2"}}

(* Three envelopes, for a chain of relations past the depth limit, only    *)
(* when one recorder makes them all and the other has nothing under way.   *)
EvidenceBound ==
    Len(sealed) > 2 => /\ \A i \in DOMAIN sealed : sealed[i].by = sealed[1].by
                       /\ \A r \in Recorders \ {sealed[1].by} : rec[r].pc = "idle"

(* Three ownerships, for a second successor of the first, only before      *)
(* there is a dispute.                                                     *)
ModerationBound == dispute.status # "none" => Len(ownership) <= 2

Machines == {"limiter", "catalogue", "moderation", "purge", "evidence", "lifecycle",
             "sse", "raw driver", "driver", "minimizer", "planner", "planning",
             "workspace"}

(* A machine that may begin in several states does so when it is in focus. *)
MachinesInit ==
    /\ focus \in Machines
    /\ LimiterInit /\ CatalogueInit /\ ModerationInit /\ PurgeInit /\ EvidenceInit
    /\ LifecycleInit /\ SSEInit /\ DriverInit
    /\ RawInit /\ (focus # "raw driver" => job = MCJob)
    /\ MinimizerInit /\ (focus # "minimizer" => ddmin.input = <<>> /\ options.attempts = 1)
    /\ PlannerInit /\ PlanningInit
    /\ WorkspaceInit /\ (focus # "workspace" => files["main"] = NoFile)

MachinesNext ==
    /\ \/ focus = "limiter" /\ LimiterNext
       \/ focus # "limiter" /\ UNCHANGED limiterVars
    /\ \/ focus = "catalogue" /\ CatalogueNext
       \/ focus # "catalogue" /\ UNCHANGED catalogueVars
    /\ \/ focus = "moderation" /\ ModerationNext
       \/ focus # "moderation" /\ UNCHANGED moderationVars
    /\ \/ focus = "purge" /\ PurgeNext
       \/ focus # "purge" /\ UNCHANGED purgeVars
    /\ \/ focus = "evidence" /\ EvidenceNext
       \/ focus # "evidence" /\ UNCHANGED evidenceVars
    /\ \/ focus = "lifecycle" /\ LifecycleNext
       \/ focus # "lifecycle" /\ UNCHANGED lifecycleVars
    /\ \/ focus = "sse" /\ SSENext
       \/ focus # "sse" /\ UNCHANGED sseVars
    /\ \/ focus = "raw driver" /\ RawNext
       \/ focus # "raw driver" /\ UNCHANGED rawVars
    /\ \/ focus = "driver" /\ DriverNext
       \/ focus # "driver" /\ UNCHANGED driverVars
    /\ \/ focus = "minimizer" /\ MinimizerNext
       \/ focus # "minimizer" /\ UNCHANGED minimizerVars
    /\ \/ focus = "planner" /\ PlannerNext /\ UNCHANGED planned
       \/ focus = "planning" /\ PlanningNext /\ UNCHANGED resolution
       \/ focus \notin {"planner", "planning"} /\ UNCHANGED planningVars
    /\ \/ focus = "workspace" /\ WorkspaceNext
       \/ focus # "workspace" /\ UNCHANGED workspaceVars
    /\ UNCHANGED focus

MachinesSpec ==
    MachinesInit /\ [][MachinesNext]_<<focus, limiterVars, catalogueVars, moderationVars,
                        purgeVars, evidenceVars, lifecycleVars, sseVars, rawVars,
                        driverVars, minimizerVars, planningVars,
                        workspaceVars>>
=============================================================================
