------------------------------ MODULE Executor ------------------------------
(***************************************************************************)
(* The run executor of internal/executor/executor.go on top of the budget  *)
(* ledger.  Scenarios run one at a time in plan order; around them the     *)
(* caller's context may be cancelled, or its deadline may pass, at any     *)
(* moment.  The executor consults the context at three places of a failed  *)
(* attempt, so each of those reads is a step of its own; everything        *)
(* between two reads that nobody else can observe is one step.             *)
(*                                                                         *)
(* Scenario IDs are positions in the plan: validateScenarioDAG             *)
(* (pkg/schema/plan.go) makes them unique and lets a scenario depend only  *)
(* on earlier ones.  Evidence references are members of a small set.       *)
(***************************************************************************)
EXTENDS Budget, Sequences

CONSTANTS N,          \* number of scenarios of the plan
          Retries,    \* RuntimePolicy.Retries
          Leases,     \* number of finalizers of the plan
          Plans,      \* the resolved plans considered
          Estimates,  \* what Runner.Estimate may return
          Evidence,   \* evidence references a runner may commit
          Replies     \* what Runner.Run may return

Scenarios    == 1..N
Dispositions == {"execute", "skip", "not_applicable"}
Verdicts     == {"pass", "fail", "warn", "inconclusive"}
Classes      == {"transient", "authentication", "permission", "driver", "harness"}
Statuses     == {"completed", "errored", "cancelled", "skipped"}
Reasons      == {"outcome", "planned", "budget_exhausted", "cancelled_by_user",
                 "transient_error", "authentication_failed",
                 "permission_denied", "driver_error", "harness_error"}

\* validateScenarioDAG: a dependency appears earlier in the plan.
ValidPlan(p) == /\ p.disposition \in [Scenarios -> Dispositions]
                /\ p.dependsOn \in [Scenarios -> SUBSET Scenarios]
                /\ \A s \in Scenarios : \A d \in p.dependsOn[s] : d < s

\* A completed target observation, a malformed one, or an error.  An error is
\* a *RunError with a class or any other error ("untyped"); it may wrap a
\* context error of its own, and its evidence or usage may be malformed.
OutcomeReply == [kind: {"outcome"}, verdict: Verdicts,
                 evidence: (SUBSET Evidence) \ {{}}, usage: Usage,
                 unknown: SUBSET TokenFields]
InvalidReply == [kind: {"invalid"}, evidence: SUBSET Evidence]
ErrorReply   == [kind: {"error"}, class: Classes \union {"untyped"},
                 cause: {"none", "canceled", "deadline"},
                 evidence: SUBSET Evidence, usageKnown: BOOLEAN, usage: Usage,
                 unknown: SUBSET TokenFields,
                 malformed: {"nothing", "unknown", "evidence"}]
NoReply      == [kind |-> "none"]

ASSUME ExecutorConstants ==
    /\ N \in Nat /\ Retries \in Nat /\ Leases \in Nat
    /\ \A p \in Plans : ValidPlan(p)
    /\ Estimates \subseteq Usage
    /\ Replies \subseteq OutcomeReply \union InvalidReply \union ErrorReply

VARIABLES plan,         \* the frozen plan of this run
          ctx,          \* ctx.Err(): "live", "canceled" or "deadline"
          pc,           \* where the executor is
          current,      \* the scenario being decided
          number,       \* the attempt number within it
          reply,        \* what Runner.Run returned
          failure,      \* reasonForError's answer for that reply
          attempts,     \* Result.Attempts, by scenario
          cases,        \* Result.Cases, by scenario
          refs,         \* caseEvidenceRefs of the current scenario
          executionErr, \* the error Execute will return
          lease,        \* the finalizer to run next
          finalized,    \* leases whose Finalize returned nil
          residual      \* Result.ResidualLeases

execVars == <<plan, ctx, pc, current, number, reply, failure, attempts, cases,
              refs, executionErr, lease, finalized, residual>>

NoCase    == [status |-> "none"]
NoFailure == [reason |-> "none"]

-----------------------------------------------------------------------------
(* Pure helpers.                                                           *)

ContextReason(err) ==
    IF err = "deadline" THEN "budget_exhausted" ELSE "cancelled_by_user"

ClassReason(class) ==
    CASE class = "authentication" -> "authentication_failed"
      [] class = "permission"     -> "permission_denied"
      [] class = "transient"      -> "transient_error"
      [] class = "driver"         -> "driver_error"
      [] OTHER                    -> "harness_error"

\* The class an error has once runScenario has replaced a malformed one.
ErrorClass(r) == IF r.class # "untyped" /\ r.malformed # "nothing"
                 THEN "harness" ELSE r.class

ErrorCause(r) == IF r.class # "untyped" /\ r.malformed # "nothing"
                 THEN "none" ELSE r.cause

ReasonForError(err, r) ==
    CASE err # "live"              -> [reason |-> ContextReason(err),
                                       class  |-> "harness"]
      [] ErrorCause(r) # "none"    -> [reason |-> ContextReason(ErrorCause(r)),
                                       class  |-> "harness"]
      [] ErrorClass(r) = "untyped" -> [reason |-> "harness_error",
                                       class  |-> "harness"]
      [] OTHER                     -> [reason |-> ClassReason(ErrorClass(r)),
                                       class  |-> ErrorClass(r)]

\* The evidence runScenario keeps from a failed attempt.
KeptEvidence(r) ==
    IF r.class = "untyped" \/ r.malformed = "evidence" THEN {} ELSE r.evidence

UsageKnown(r) == r.class # "untyped" /\ r.usageKnown

UnknownUsage(r) == IF UsageKnown(r) /\ r.malformed # "unknown"
                   THEN r.unknown ELSE TokenFields

\* A token count the provider did not report is charged as estimated.
AccountedUsage(observed, estimate, unknown) ==
    [f \in Fields |-> IF f \in unknown THEN estimate[f] ELSE observed[f]]

Attempt(status, reason, evidence, unknown) ==
    [status |-> status, reason |-> reason, evidence |-> evidence,
     unknown |-> unknown]

CaseForAttempts(ids, status, verdict, reason, evidence) ==
    [disposition |-> "execute", ids |-> ids, status |-> status,
     verdict |-> verdict, reason |-> reason, evidence |-> evidence,
     applicable |-> TRUE, executed |-> status = "completed"]

\* Faulty variant: a skipped scenario leaves the applicable set.
PlannedOnlyCaseInapplicable(s) ==
    [disposition |-> plan.disposition[s], ids |-> 0, status |-> "skipped",
     verdict |-> "none", reason |-> "planned", evidence |-> {},
     applicable |-> FALSE, executed |-> FALSE]

PlannedOnlyCase(s) ==
    [disposition |-> plan.disposition[s], ids |-> 0, status |-> "skipped",
     verdict |-> "none", reason |-> "planned", evidence |-> {},
     applicable |-> plan.disposition[s] = "skip", executed |-> FALSE]

\* Faulty variant: a dependency is judged by its status alone.
FailedDependencyByStatus(s) ==
    \E d \in plan.dependsOn[s] : cases[d].status # "completed"

\* A dependency that did not complete with pass or warn.
FailedDependency(s) ==
    \E d \in plan.dependsOn[s] : \/ cases[d].status # "completed"
                                 \/ cases[d].verdict \in {"fail", "inconclusive"}

AggregateUnknownUsage ==
    UNION {UNION {attempts[s][n].unknown : n \in 1..Len(attempts[s])} : s \in Scenarios}

-----------------------------------------------------------------------------
ExecInit ==
    /\ BudgetInit
    /\ plan \in Plans
    /\ ctx = "live"
    /\ pc = "start"
    /\ current = 1
    /\ number = 0
    /\ reply = NoReply
    /\ failure = NoFailure
    /\ attempts = [s \in Scenarios |-> <<>>]
    /\ cases = [s \in Scenarios |-> NoCase]
    /\ refs = {}
    /\ executionErr = "none"
    /\ lease = Leases
    /\ finalized = {}
    /\ residual = {}

\* The checks before the loop: the plan and its approved digest, the resolver,
\* the run ID and the ledger.  One that fails ends the run with no result.
Begin ==
    /\ pc = "start"
    /\ pc' \in {"schedule", "failed"}
    /\ UNCHANGED <<plan, ctx, current, number, reply, failure, attempts, cases,
                   refs, executionErr, lease, finalized, residual>>
    /\ UNCHANGED budgetVars

\* The case of the current scenario is decided; the loop moves on.
Decide(case) == /\ cases' = [cases EXCEPT ![current] = case]
                /\ current' = current + 1
                /\ pc' = "schedule"
                /\ number' = 0
                /\ refs' = {}

Record(attempt) ==
    attempts' = [attempts EXCEPT ![current] = Append(@, attempt)]

\* nonRunAttempt: one attempt that made no request.
NonRun(status, reason) ==
    /\ Record(Attempt(status, reason, {}, {}))
    /\ Decide(CaseForAttempts(1, status, "none", reason, {}))

PlannedOnly == /\ Decide(PlannedOnlyCase(current))
               /\ UNCHANGED attempts

\* The top of the scenario loop.
AtLoop == pc = "schedule" /\ current <= N

CancelRemaining ==
    /\ AtLoop
    /\ ctx # "live"
    /\ executionErr' = ctx
    /\ IF plan.disposition[current] = "execute"
       THEN NonRun("cancelled", ContextReason(ctx))
       ELSE PlannedOnly
    /\ UNCHANGED <<plan, ctx, reply, failure, lease, finalized, residual>>
    /\ UNCHANGED budgetVars

NotExecuted ==
    /\ AtLoop
    /\ ctx = "live"
    /\ plan.disposition[current] # "execute"
    /\ PlannedOnly
    /\ UNCHANGED <<plan, ctx, reply, failure, executionErr, lease, finalized,
                   residual>>
    /\ UNCHANGED budgetVars

SkipDependent ==
    /\ AtLoop
    /\ ctx = "live"
    /\ plan.disposition[current] = "execute"
    /\ FailedDependency(current)
    /\ NonRun("skipped", "harness_error")
    /\ UNCHANGED <<plan, ctx, reply, failure, executionErr, lease, finalized,
                   residual>>
    /\ UNCHANGED budgetVars

Runnable == /\ AtLoop
            /\ ctx = "live"
            /\ plan.disposition[current] = "execute"
            /\ ~FailedDependency(current)

\* Resolve finds no runner for the pinned driver, or the invocation gets no ID.
CannotStart ==
    /\ Runnable
    /\ \/ NonRun("errored", "driver_error")
       \/ NonRun("errored", "harness_error")
    /\ UNCHANGED <<plan, ctx, reply, failure, executionErr, lease, finalized,
                   residual>>
    /\ UNCHANGED budgetVars

Start ==
    /\ Runnable
    /\ pc' = "attempt"
    /\ number' = 1
    /\ UNCHANGED <<plan, ctx, current, reply, failure, attempts, cases, refs,
                   executionErr, lease, finalized, residual>>
    /\ UNCHANGED budgetVars

\* NewID fails: the retry loop is left with the attempts made so far.
AttemptWithoutID ==
    /\ pc = "attempt"
    /\ Decide(CaseForAttempts(Len(attempts[current]), "errored", "none",
                              "harness_error", {}))
    /\ UNCHANGED <<plan, ctx, reply, failure, attempts, executionErr, lease,
                   finalized, residual>>
    /\ UNCHANGED budgetVars

EstimateFails ==
    /\ pc = "attempt"
    /\ Record(Attempt("errored", "harness_error", {}, {}))
    /\ Decide(CaseForAttempts(number, "errored", "none", "harness_error", {}))
    /\ UNCHANGED <<plan, ctx, reply, failure, executionErr, lease, finalized,
                   residual>>
    /\ UNCHANGED budgetVars

\* Reserve fails: the estimate covers no work, or the ledger refuses it.
ReserveFails ==
    /\ pc = "attempt"
    /\ \E estimate \in Estimates : \/ Refuse(estimate)
                                   \/ ~CoversWork(estimate) /\ UNCHANGED budgetVars
    /\ Record(Attempt("skipped", "budget_exhausted", {}, {}))
    /\ Decide(CaseForAttempts(number, "skipped", "none", "budget_exhausted", {}))
    /\ UNCHANGED <<plan, ctx, reply, failure, executionErr, lease, finalized,
                   residual>>

Reserve ==
    /\ pc = "attempt"
    /\ \E estimate \in Estimates : Grant(estimate)
    /\ pc' = "running"
    /\ UNCHANGED <<plan, ctx, current, number, reply, failure, attempts, cases,
                   refs, executionErr, lease, finalized, residual>>

RunReturns(r) ==
    /\ pc = "running"
    /\ pc' = "returned"
    /\ reply' = r
    /\ UNCHANGED <<plan, ctx, current, number, failure, attempts, cases, refs,
                   executionErr, lease, finalized, residual>>
    /\ UNCHANGED budgetVars

\* The estimate the current attempt has reserved.
Estimated == planned[nextID]

\* Faulty variant: charging beyond the budget discards the verdict.
SettleOutcomeWithinBudget ==
    /\ pc = "returned"
    /\ reply.kind = "outcome"
    /\ LET actual == AccountedUsage(reply.usage, Estimated, reply.unknown)
           commitErr == Exceeds(Add(consumed, actual)) \/ TimeIsUp
       IN  /\ Commit(nextID, actual)
           /\ Record(Attempt("completed", "outcome", reply.evidence, reply.unknown))
           /\ Decide(IF commitErr
                     THEN CaseForAttempts(number, "skipped", "none",
                                          "budget_exhausted", refs)
                     ELSE CaseForAttempts(number, "completed", reply.verdict,
                                          "outcome", refs \union reply.evidence))
    /\ reply' = NoReply
    /\ UNCHANGED <<plan, ctx, failure, executionErr, lease, finalized, residual>>

\* A valid outcome is a verdict even when charging it exhausts the budget.
SettleOutcome ==
    /\ pc = "returned"
    /\ reply.kind = "outcome"
    /\ LET actual == AccountedUsage(reply.usage, Estimated, reply.unknown)
           commitErr == Exceeds(Add(consumed, actual)) \/ TimeIsUp
       IN  /\ Commit(nextID, actual)
           /\ Record(Attempt("completed", "outcome", reply.evidence, reply.unknown))
           /\ Decide(CaseForAttempts(number, "completed", reply.verdict,
                        IF commitErr THEN "budget_exhausted" ELSE "outcome",
                        refs \union reply.evidence))
    /\ reply' = NoReply
    /\ UNCHANGED <<plan, ctx, failure, executionErr, lease, finalized, residual>>

\* Faulty variant: a malformed outcome returns before the reservation is closed.
SettleInvalidUncharged ==
    /\ pc = "returned"
    /\ reply.kind = "invalid"
    /\ Record(Attempt("errored", "harness_error", reply.evidence, TokenFields))
    /\ Decide(CaseForAttempts(number, "errored", "none", "harness_error",
                              refs \union reply.evidence))
    /\ reply' = NoReply
    /\ UNCHANGED <<plan, ctx, failure, executionErr, lease, finalized, residual>>
    /\ UNCHANGED budgetVars

SettleInvalid ==
    /\ pc = "returned"
    /\ reply.kind = "invalid"
    /\ Commit(nextID, Estimated)
    /\ Record(Attempt("errored", "harness_error", reply.evidence, TokenFields))
    /\ Decide(CaseForAttempts(number, "errored", "none", "harness_error",
                              refs \union reply.evidence))
    /\ reply' = NoReply
    /\ UNCHANGED <<plan, ctx, failure, executionErr, lease, finalized, residual>>

\* The error path up to reasonForError, which reads the context.
SettleError ==
    /\ pc = "returned"
    /\ reply.kind = "error"
    /\ Commit(nextID, IF UsageKnown(reply)
                      THEN AccountedUsage(reply.usage, Estimated, UnknownUsage(reply))
                      ELSE Estimated)
    /\ refs' = refs \union KeptEvidence(reply)
    /\ failure' = ReasonForError(ctx, reply)
    /\ pc' = "settled"
    /\ UNCHANGED <<plan, ctx, current, number, reply, attempts, cases,
                   executionErr, lease, finalized, residual>>

\* The second read of the context decides the attempt's status.
FailedStatus == IF ctx = "live" THEN "errored" ELSE "cancelled"

MayRetry == failure.class = "transient" /\ number < Retries + 1

RecordFailure ==
    /\ pc = "settled"
    /\ Record(Attempt(FailedStatus, failure.reason, KeptEvidence(reply),
                      UnknownUsage(reply)))
    /\ reply' = NoReply
    /\ failure' = NoFailure

Retry ==
    /\ RecordFailure
    /\ MayRetry
    /\ number' = number + 1
    /\ pc' = "attempt"
    /\ UNCHANGED <<plan, ctx, current, cases, refs, executionErr, lease,
                   finalized, residual>>
    /\ UNCHANGED budgetVars

\* Faulty variant: the error of a run cancelled in its last scenario is lost.
GiveUpQuietly ==
    /\ RecordFailure
    /\ ~MayRetry
    /\ Decide(CaseForAttempts(number, FailedStatus, "none", failure.reason, refs))
    /\ UNCHANGED <<plan, ctx, executionErr, lease, finalized, residual>>
    /\ UNCHANGED budgetVars

GiveUp ==
    /\ RecordFailure
    /\ ~MayRetry
    /\ Decide(CaseForAttempts(number, FailedStatus, "none", failure.reason, refs))
    /\ executionErr' = IF FailedStatus = "cancelled" THEN ctx ELSE executionErr
    /\ UNCHANGED <<plan, ctx, lease, finalized, residual>>
    /\ UNCHANGED budgetVars

\* finalize: leases are released in reverse order, under a context of their
\* own and on the cleanup ledger.
StartFinalizing ==
    /\ pc = "schedule"
    /\ current > N
    /\ pc' = "finalize"
    /\ UNCHANGED <<plan, ctx, current, number, reply, failure, attempts, cases,
                   refs, executionErr, lease, finalized, residual>>
    /\ UNCHANGED budgetVars

\* Faulty variant: a lease that could not be released is forgotten.
FinalizeFailsSilently ==
    /\ pc = "finalize"
    /\ lease > 0
    /\ lease' = lease - 1
    /\ UNCHANGED <<plan, ctx, pc, current, number, reply, failure, attempts,
                   cases, refs, executionErr, finalized, residual>>
    /\ UNCHANGED budgetVars

FinalizeFails ==
    /\ pc = "finalize"
    /\ lease > 0
    /\ lease' = lease - 1
    /\ residual' = residual \union {lease}
    /\ UNCHANGED <<plan, ctx, pc, current, number, reply, failure, attempts,
                   cases, refs, executionErr, finalized>>
    /\ UNCHANGED budgetVars

\* Faulty variant: an exhausted run has no cleanup budget either.
FinalizeUnlessExhausted ==
    /\ pc = "finalize"
    /\ lease > 0
    /\ lease' = lease - 1
    /\ finalized' = finalized \union {lease}
    /\ \E usage \in Cleanups :
          \/ ~exhausted /\ ConsumeCleanup(usage) /\ UNCHANGED residual
          \/ /\ exhausted \/ ExceedsCleanup(Add(cleanupConsumed, usage))
             /\ residual' = residual \union {lease}
             /\ UNCHANGED budgetVars
    /\ UNCHANGED <<plan, ctx, pc, current, number, reply, failure, attempts,
                   cases, refs, executionErr>>

FinalizeReturns ==
    /\ pc = "finalize"
    /\ lease > 0
    /\ lease' = lease - 1
    /\ finalized' = finalized \union {lease}
    /\ \E usage \in Cleanups :
          \/ ConsumeCleanup(usage) /\ UNCHANGED residual
          \/ /\ ExceedsCleanup(Add(cleanupConsumed, usage))
             /\ residual' = residual \union {lease}
             /\ UNCHANGED budgetVars
    /\ UNCHANGED <<plan, ctx, pc, current, number, reply, failure, attempts,
                   cases, refs, executionErr>>

Finish ==
    /\ pc = "finalize"
    /\ lease = 0
    /\ Snapshot
    /\ pc' = "finished"
    /\ UNCHANGED <<plan, ctx, current, number, reply, failure, attempts, cases,
                   refs, executionErr, lease, finalized, residual>>

Ended == pc \in {"finished", "failed"}

\* The caller cancels, or the run's timeout passes; the first one stays.
ContextDone ==
    /\ ctx = "live"
    /\ ~Ended
    /\ ctx' \in {"canceled", "deadline"}
    /\ UNCHANGED <<plan, pc, current, number, reply, failure, attempts, cases,
                   refs, executionErr, lease, finalized, residual>>
    /\ UNCHANGED budgetVars

TimePasses == ~Ended /\ Tick /\ UNCHANGED execVars

\* Everything the executor does itself, apart from waiting for Runner.Run.
ExecStep ==
    \/ Begin \/ CancelRemaining \/ NotExecuted \/ SkipDependent \/ CannotStart \/ Start
    \/ AttemptWithoutID \/ EstimateFails \/ ReserveFails \/ Reserve
    \/ SettleOutcome \/ SettleInvalid \/ SettleError \/ Retry \/ GiveUp
    \/ StartFinalizing \/ FinalizeFails \/ FinalizeReturns \/ Finish

ExecNext ==
    \/ ExecStep
    \/ \E r \in Replies : RunReturns(r)
    \/ ContextDone
    \/ TimePasses
    \/ Ended /\ UNCHANGED <<budgetVars, execVars>>

\* The executor's goroutine keeps running, and Runner.Run returns: the
\* transport bounds every request by Policy.Timeout.
ExecFairness == /\ WF_<<budgetVars, execVars>>(ExecStep)
                /\ WF_<<budgetVars, execVars>>(\E r \in Replies : RunReturns(r))

ExecSpec == ExecInit /\ [][ExecNext]_<<budgetVars, execVars>> /\ ExecFairness

-----------------------------------------------------------------------------
(* Properties.                                                             *)

Decided(s) == cases[s] # NoCase

\* Every reservation is closed before the next decision: whichever way an
\* attempt ends, no reserved budget is stranded while another scenario or a
\* finalizer runs.
NoStrandedReservation ==
    open = IF pc \in {"running", "returned"} THEN {nextID} ELSE {}

\* "Harness/driver failures are returned as errors and cannot carry endpoint
\* findings" (executor.go:62-64): a case has a verdict exactly when its last
\* attempt completed with evidence, and no earlier attempt of it completed.
VerdictNeedsCompletedAttempt ==
    \A s \in Scenarios : Decided(s) =>
        LET last == Len(attempts[s])
        IN  /\ cases[s].verdict # "none" <=>
                  last > 0 /\ attempts[s][last].status = "completed"
            /\ cases[s].verdict # "none" =>
                  /\ cases[s].status = "completed"
                  /\ {} # attempts[s][last].evidence
                  /\ attempts[s][last].evidence \subseteq cases[s].evidence
            /\ \A n \in 1..(last - 1) : attempts[s][n].status # "completed"

\* A scenario whose runner was called had every dependency completed with pass
\* or warn, whatever happened to the context and the budget in between.
DependentsRunAfterSuccess ==
    \A s \in Scenarios :
        (\/ s = current /\ pc \in {"attempt", "running", "returned", "settled"}
         \/ Decided(s) /\ cases[s].executed)
        => /\ plan.disposition[s] = "execute"
           /\ \A d \in plan.dependsOn[s] :
                 cases[d].executed /\ cases[d].verdict \in {"pass", "warn"}

\* A cancelled case always surfaces as Execute's error, also when it was the
\* last scenario (executor.go:171-174), and the error is the context's.
CancellationSurfaces ==
    /\ (\E s \in Scenarios : Decided(s) /\ cases[s].status = "cancelled")
          => executionErr # "none"
    /\ executionErr # "none" => executionErr = ctx

\* "cleanup remains available after the ordinary hard budget is exhausted"
\* (ledger.go:174-176): a lease whose finalizer succeeded stays residual only
\* because the cleanup ledger itself is too full for it.
CleanupSurvivesExhaustion ==
    \A l \in residual \intersect finalized :
        \E usage \in Cleanups : ExceedsCleanup(Add(cleanupConsumed, usage))

\* A case keeps the evidence of every one of its attempts, as the comment on
\* RunError.EvidenceRefs (executor.go:34-36) says.
CaseKeepsAttemptEvidence ==
    \A s \in Scenarios : Decided(s) =>
        \A n \in 1..Len(attempts[s]) :
            attempts[s][n].evidence \subseteq cases[s].evidence

\* Every run ends, and unless it failed before its first scenario it ends with
\* every case decided and every lease released or listed as residual.
Terminates == <>(\/ pc = "failed"
                 \/ /\ pc = "finished"
                    /\ \A s \in Scenarios : Decided(s)
                    /\ finalized \union residual = 1..Leases)

=============================================================================
