------------------------------- MODULE Purge --------------------------------
(***************************************************************************)
(* A purge of sensitive content from every store that may hold a copy      *)
(* (internal/registry/purge.go): services report each target, possibly     *)
(* more than once, possibly with different outcomes, in any order and      *)
(* before or after the purge was started; calls hold the request's lock.   *)
(***************************************************************************)
EXTENDS Integers, FiniteSets, Sequences

CONSTANTS PurgeTargets, Deadline, LastHour

ASSUME PurgeConstants == /\ IsFiniteSet(PurgeTargets) /\ PurgeTargets # {} /\ "" \notin PurgeTargets
                         /\ Deadline \in Nat /\ LastHour \in Nat

VARIABLES purge, purgeHour

purgeVars == <<purge, purgeHour>>

Outcomes == {"purged", "not_applicable"}

NewPurgeRequest(now) == [status |-> "requested", deadline |-> now + Deadline, completedAt |-> -1,
                         targets |-> [t \in PurgeTargets |-> "pending"],
                         events |-> <<[action |-> "requested", target |-> ""]>>]

PurgeInit == purgeHour = 0 /\ purge = NewPurgeRequest(0)

Recorded(action, target) ==
    [purge EXCEPT !.events = Append(purge.events, [action |-> action, target |-> target])]

\* Start changes nothing once the purge is under way.
StartPurge == /\ purge.status = "requested"
              /\ purge' = [Recorded("started", "") EXCEPT !.status = "in_progress"]
              /\ UNCHANGED purgeHour

\* Faulty variant: the first target that needs nothing ends the purge.
AnyTargetTerminal(targets) == \E t \in PurgeTargets : targets[t] = "not_applicable"

AllTargetsTerminal(targets) == \A t \in PurgeTargets : targets[t] # "pending"

\* CompleteTarget: an error or a repetition leaves the request as it is; the last
\* target ends it.
CompleteTarget(t, outcome) ==
    LET targets == [purge.targets EXCEPT ![t] = outcome]
        reported == [Recorded(outcome, t) EXCEPT !.targets = targets]
    IN  /\ purge' = IF purge.status # "in_progress" \/ purge.targets[t] # "pending" THEN purge
                    ELSE IF AllTargetsTerminal(targets)
                    THEN [reported EXCEPT !.status = "completed", !.completedAt = purgeHour,
                            !.events = Append(reported.events,
                                              [action |-> "completed", target |-> ""])]
                    ELSE reported
        /\ UNCHANGED purgeHour

MissedDeadline(now) == purge.status # "completed" /\ now >= purge.deadline

PurgeHourPasses == purgeHour < LastHour /\ purgeHour' = purgeHour + 1 /\ UNCHANGED purge

PurgeNext == \/ StartPurge
             \/ \E t \in PurgeTargets, outcome \in Outcomes : CompleteTarget(t, outcome)
             \/ PurgeHourPasses

PurgeSpec == PurgeInit /\ [][PurgeNext]_purgeVars

-----------------------------------------------------------------------------
\* A purge is completed exactly when its journal reports every target once, each
\* with the outcome on record; the completion is the journal's last entry and
\* there is one; and a purge that ended in time is never reported as late.
PurgeCompletionExact ==
    LET n == Len(purge.events)
        reports(t) == {i \in 1..n : purge.events[i].target = t}
    IN  /\ (purge.status = "completed") <=> (purge.events[n].action = "completed")
        /\ purge.status = "completed" =>
              /\ n = Cardinality(PurgeTargets) + 3
              /\ \A t \in PurgeTargets : \E i \in 3..(n - 1) :
                    reports(t) = {i} /\ purge.events[i].action = purge.targets[t]
              /\ ~MissedDeadline(LastHour)
        /\ purge.status # "completed" => \E t \in PurgeTargets : purge.targets[t] = "pending"

=============================================================================
