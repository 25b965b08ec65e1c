----------------------------- MODULE ProductRun -----------------------------
(***************************************************************************)
(* A product run, internal/productrun/execute.go: the executor is given a  *)
(* runner wrapped in a classifyingRunner; its result becomes a report with *)
(* an exit code, which is persisted before any error is returned.  The     *)
(* plan builder fixes Retries to 0 and its resolver has no finalizers.     *)
(***************************************************************************)
EXTENDS Executor

\* buildExact in plan.go: RuntimePolicy{Concurrency: 1, Retries: 0, ...}.
ASSUME NoRetries == Retries = 0

VARIABLES classes,  \* classifyingRunner.classes; "none" when absent
          stage,    \* how far Execute has come
          report    \* the report built from the result

productVars == <<classes, stage, report>>
allVars     == <<budgetVars, execVars, productVars>>

NoReport == [exit |-> -1]

ProductInit == /\ ExecInit
               /\ classes = [s \in Scenarios |-> "none"]
               /\ stage = "executing"
               /\ report = NoReport

-----------------------------------------------------------------------------
(* classifyingRunner.                                                      *)

\* Run: the inner runner returns and, at the same moment, the context is read
\* for the first time after it.
ClassifyingRun(r) ==
    /\ RunReturns(r)
    /\ classes' =
         [classes EXCEPT ![current] =
            CASE ctx # "live" -> "none"
              [] ctx = "live" /\ r.kind = "error" /\ r.class # "untyped" -> r.class
              [] OTHER -> @]
    /\ UNCHANGED <<stage, report>>

\* The run's lifetime inside executor.Execute.
Executing == \/ ExecStep /\ UNCHANGED productVars
             \/ \E r \in Replies : ClassifyingRun(r)

-----------------------------------------------------------------------------
(* buildReport.                                                            *)

Members(field) == {s \in Scenarios : cases[s][field]}

\* Candidate and applicable membership have to equal the plan's denominators.
DenominatorsMatch ==
    Members("applicable") = {s \in Scenarios : plan.disposition[s] # "not_applicable"}

\* CaseResult.Validate.
CaseValid(c) ==
    IF c.disposition = "execute"
    THEN /\ c.ids > 0
         /\ c.status = "completed" <=> c.verdict # "none"
    ELSE c.ids = 0 /\ c.verdict = "none" /\ c.evidence = {}

SomeCase(P(_)) == \E s \in Scenarios : P(cases[s])

HasPermission == \E s \in Scenarios : classes[s] \in {"authentication", "permission"}
HasCancelled  == SomeCase(LAMBDA c : c.status = "cancelled")
HasErrored    == SomeCase(LAMBDA c : c.status = "errored")

\* Faulty variant: the ledger's latch is not consulted.
HasIncompleteByCase ==
    SomeCase(LAMBDA c : \/ c.reason = "budget_exhausted"
                        \/ c.disposition # "execute"
                        \/ c.status = "skipped"
                        \/ c.verdict \in {"none", "inconclusive"})

HasIncomplete ==
    exhausted \/ SomeCase(LAMBDA c : \/ c.reason = "budget_exhausted"
                                     \/ c.disposition # "execute"
                                     \/ c.status = "skipped"
                                     \/ c.verdict \in {"none", "inconclusive"})
HasVerdict(v) == SomeCase(LAMBDA c : /\ c.disposition = "execute"
                                     /\ c.status # "skipped"
                                     /\ c.verdict = v)

\* Faulty variant: a permission failure outranks the caller's cancellation.
AggregatePermissionFirst ==
    IF HasPermission                      THEN <<"inconclusive", 5>>
    ELSE IF HasCancelled /\ executionErr = "canceled" THEN <<"inconclusive", 130>>
    ELSE IF HasErrored                    THEN <<"inconclusive", 3>>
    ELSE IF HasCancelled \/ HasIncomplete THEN <<"inconclusive", 4>>
    ELSE IF HasVerdict("fail")            THEN <<"incompatible", 1>>
    ELSE IF HasVerdict("warn")            THEN <<"degraded", 0>>
    ELSE <<"compatible", 0>>

\* aggregate: the profile outcome and the exit code, in order of priority.
Aggregate ==
    IF HasCancelled /\ executionErr = "canceled" THEN <<"inconclusive", 130>>
    ELSE IF HasPermission                 THEN <<"inconclusive", 5>>
    ELSE IF HasErrored                    THEN <<"inconclusive", 3>>
    ELSE IF HasCancelled \/ HasIncomplete THEN <<"inconclusive", 4>>
    ELSE IF HasVerdict("fail")            THEN <<"incompatible", 1>>
    ELSE IF HasVerdict("warn")            THEN <<"degraded", 0>>
    ELSE <<"compatible", 0>>

RunConditions ==
    (IF AggregateUnknownUsage # {} THEN {"provider_usage_unknown"} ELSE {})
    \union (IF exhausted \/ SomeCase(LAMBDA c : c.reason = "budget_exhausted")
            THEN {"run_budget_exhausted"} ELSE {})
    \union (CASE executionErr = "deadline" -> {"run_deadline_exceeded"}
              [] executionErr = "canceled" -> {"run_cancelled"}
              [] OTHER -> {})

\* Scenario-level conditions: "no protocol verdict was produced".
ClassConditions == {s \in Scenarios : classes[s] # "none"}

BuildReport ==
    /\ stage = "executing"
    /\ pc = "finished"
    /\ IF DenominatorsMatch /\ \A s \in Scenarios : CaseValid(cases[s])
       THEN /\ stage' = "reported"
            /\ report' = [exit |-> Aggregate[2], outcome |-> Aggregate[1],
                          conditions |-> RunConditions,
                          classConditions |-> ClassConditions]
       ELSE stage' = "rejected" /\ UNCHANGED report
    /\ UNCHANGED classes
    /\ UNCHANGED <<budgetVars, execVars>>

\* executor.Execute returned no result.
NoResult ==
    /\ stage = "executing"
    /\ pc = "failed"
    /\ stage' = "failed"
    /\ UNCHANGED <<classes, report>>
    /\ UNCHANGED <<budgetVars, execVars>>

\* Faulty variant: a failed Put builds the report again, for ever.
PersistAgain ==
    /\ stage = "reported"
    /\ stage' \in {"persisted", "executing"}
    /\ UNCHANGED <<classes, report>>
    /\ UNCHANGED <<budgetVars, execVars>>

\* The redaction checks, the BeforePersist hook and runstore.Put, any of which
\* may fail; an execution error is returned only once the run is stored.
Persist ==
    /\ stage = "reported"
    /\ stage' \in {"persisted", "failed"}
    /\ UNCHANGED <<classes, report>>
    /\ UNCHANGED <<budgetVars, execVars>>

Over == stage \in {"persisted", "rejected", "failed"}

ProductNext == \/ Executing
               \/ (ContextDone \/ TimePasses) /\ UNCHANGED productVars
               \/ BuildReport \/ NoResult \/ Persist
               \/ Over /\ UNCHANGED allVars

ProductSpec == /\ ProductInit
               /\ [][ProductNext]_allVars
               /\ WF_allVars(Executing)
               /\ WF_allVars(BuildReport \/ NoResult \/ Persist)

-----------------------------------------------------------------------------
(* Properties.                                                             *)

HasReport == report # NoReport

\* Exit codes 0 and 1 are verdicts on the whole profile: they are returned only
\* when every scenario of the plan ran to a conclusive verdict within budget and
\* uncancelled, and 1 exactly when one of those verdicts is fail.
ConclusiveExitIsComplete ==
    HasReport /\ report.exit \in {0, 1} =>
        /\ \A s \in Scenarios : /\ plan.disposition[s] = "execute"
                                /\ cases[s].executed
                                /\ cases[s].verdict \in {"pass", "warn", "fail"}
        /\ ~exhausted
        /\ executionErr = "none"
        /\ report.classConditions = {}
        /\ report.exit = 1 <=> \E s \in Scenarios : cases[s].verdict = "fail"

\* A caller's cancellation that interrupted a scenario is reported as 130 and
\* as the run_cancelled condition, whatever else went wrong in the run; 130 is
\* reported for nothing else.
CancellationExit ==
    HasReport =>
        (report.exit = 130 <=> /\ ctx = "canceled"
                               /\ \E s \in Scenarios : cases[s].status = "cancelled")
        /\ (report.exit = 130 => "run_cancelled" \in report.conditions)

\* The report of a finished run is rejected by its own validation in one case
\* only: a scenario that never got an attempt ID.
OnlyMissingAttemptRejects ==
    stage = "rejected" =>
        \E s \in Scenarios : plan.disposition[s] = "execute" /\ attempts[s] = <<>>

\* "a cancelled case cannot acquire a misleading error condition in the
\* persisted report" (execute.go:458-459).
CancelledCaseHasNoCondition ==
    HasReport => \A s \in report.classConditions : cases[s].status # "cancelled"

\* Every product run ends, with its report stored unless validation, a
\* persistence check or the start of the run failed.
RunSettles == <>Over

=============================================================================
