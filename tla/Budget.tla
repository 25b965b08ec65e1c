------------------------------- MODULE Budget -------------------------------
(***************************************************************************)
(* The budget ledger of internal/budget/ledger.go: a hard ledger charged   *)
(* through reservations, an overshoot account for attempts that used more  *)
(* than they reserved, and an independent cleanup ledger.  Every method    *)
(* holds the ledger mutex from its first read to its last write, so every  *)
(* method is one action.                                                   *)
(*                                                                         *)
(* A Usage value is a function from field names to integers.  The ledger   *)
(* treats the seven Go fields pointwise, so the field names are constants: *)
(* WorkFields stands for {Requests, Processes}, ByteFields for the request,*)
(* response and artifact bytes, TokenFields for {InputTokens,OutputTokens}.*)
(* Go adds int64 values: MaxInt is the largest one and Wrap its overflow.  *)
(***************************************************************************)
EXTENDS Integers

CONSTANTS WorkFields, ByteFields, TokenFields,
          HardLimit,       \* BudgetPolicy.Hard, without MaxDuration
          TokenLimit,      \* BudgetPolicy.Reservation; 0 means "no limit"
          CleanupLimit,    \* BudgetPolicy.Cleanup, without MaxDuration
          Deadline,        \* BudgetPolicy.Hard.MaxDuration
          MaxInt,          \* the largest int64
          Amounts,         \* the amounts a caller may name in a Usage
          Cleanups,        \* the Usages a finalizer may report
          MaxReservations, \* bound on nextID
          MaxTime          \* bound on the clock

HardFields == WorkFields \union ByteFields
Fields     == HardFields \union TokenFields

ASSUME FieldsDisjoint == HardFields \intersect TokenFields = {}
ASSUME LimitsValid == /\ HardLimit \in [HardFields -> Int]
                      /\ \A f \in HardFields : HardLimit[f] > 0
                      /\ TokenLimit \in [TokenFields -> Nat]
                      /\ CleanupLimit \in [HardFields -> Int]
                      /\ \A f \in HardFields : CleanupLimit[f] > 0
ASSUME BoundsValid == /\ Deadline \in Nat \ {0}
                      /\ MaxInt \in Nat
                      /\ Amounts \subseteq 0..MaxInt
                      /\ Cleanups \subseteq [Fields -> Amounts]
                      /\ MaxReservations \in Nat
                      /\ MaxTime \in Nat

VARIABLES consumed,        \* Usage charged so far
          reserved,        \* sum of the plans of the open reservations
          cleanupConsumed, \* Usage charged to the cleanup ledger
          overshoot,       \* Usage beyond what was reserved
          exhausted,       \* the latch that stops further reservations
          nextID,          \* number of reservations granted
          planned,         \* the plan of each granted reservation
          open,            \* reservations neither committed nor cancelled
          now              \* time since startedAt

ledgerVars == <<consumed, reserved, cleanupConsumed, overshoot, exhausted,
                nextID, planned, open>>
budgetVars == <<consumed, reserved, cleanupConsumed, overshoot, exhausted,
                nextID, planned, open, now>>

-----------------------------------------------------------------------------
(* Usage arithmetic.                                                       *)

\* A Usage that passes Validate: no field is negative.
Usage == [Fields -> Amounts]

NoUsage == [f \in Fields |-> 0]

InRange(x) == -MaxInt - 1 <= x /\ x <= MaxInt

\* The int64 that holds the sum or difference x of two int64 values.
Wrap(x) == IF x > MaxInt THEN x - 2 * (MaxInt + 1)
           ELSE IF x < -MaxInt - 1 THEN x + 2 * (MaxInt + 1)
           ELSE x

Add(u, v) == [f \in Fields |-> Wrap(u[f] + v[f])]

Subtract(u, v) == [f \in Fields |-> Wrap(u[f] - v[f])]

PositiveDifference(left, right) == IF left > right THEN left - right ELSE 0

Excess(actual, plan) ==
    [f \in Fields |-> PositiveDifference(actual[f], plan[f])]

Limited(f) == f \in HardFields \/ TokenLimit[f] > 0

Limit(f) == IF f \in HardFields THEN HardLimit[f] ELSE TokenLimit[f]

Exceeds(u) == \E f \in Fields : Limited(f) /\ u[f] > Limit(f)

\* The cleanup ledger is tested against an empty TokenBudget.
ExceedsCleanup(u) == \E f \in HardFields : u[f] > CleanupLimit[f]

-----------------------------------------------------------------------------
TimeIsUp == now >= Deadline

BudgetInit == /\ consumed = NoUsage
              /\ reserved = NoUsage
              /\ cleanupConsumed = NoUsage
              /\ overshoot = NoUsage
              /\ exhausted = FALSE
              /\ nextID = 0
              /\ planned = [id \in 1..MaxReservations |-> NoUsage]
              /\ open = {}
              /\ now = 0

\* A reservation has to cover at least one request or process.
CoversWork(plan) == \E f \in WorkFields : plan[f] > 0

\* Faulty variant: what concurrent attempts have reserved is not counted.
ProjectedIgnoringReserved(plan) == Add(consumed, plan)

Projected(plan) == Add(Add(consumed, reserved), plan)

CanReserve(plan) == ~TimeIsUp /\ ~exhausted /\ ~Exceeds(Projected(plan))

\* Reserve, returning a reservation.
Grant(plan) ==
    /\ CoversWork(plan)
    /\ CanReserve(plan)
    /\ nextID < MaxReservations
    /\ nextID' = nextID + 1
    /\ planned' = [planned EXCEPT ![nextID + 1] = plan]
    /\ open' = open \union {nextID + 1}
    /\ reserved' = Add(reserved, plan)
    /\ UNCHANGED <<consumed, cleanupConsumed, overshoot, exhausted, now>>

\* Faulty variant: a plan that does not fit stops the whole run.
RefuseLatching(plan) ==
    /\ CoversWork(plan)
    /\ ~CanReserve(plan)
    /\ exhausted' = TRUE
    /\ UNCHANGED <<consumed, reserved, cleanupConsumed, overshoot, nextID,
                   planned, open, now>>

\* Reserve, returning ErrExhausted.  Only the deadline latches: a plan that
\* does not fit leaves room for a smaller one.
Refuse(plan) ==
    /\ CoversWork(plan)
    /\ ~CanReserve(plan)
    /\ exhausted' = (exhausted \/ TimeIsUp)
    /\ UNCHANGED <<consumed, reserved, cleanupConsumed, overshoot, nextID,
                   planned, open, now>>

\* Faulty variants: only the deadline latches; the overshoot is not booked.
CommitLatchingOnTime(id, actual) ==
    /\ id \in open
    /\ open' = open \ {id}
    /\ reserved' = Subtract(reserved, planned[id])
    /\ consumed' = Add(consumed, actual)
    /\ overshoot' = Add(overshoot, Excess(actual, planned[id]))
    /\ exhausted' = (exhausted \/ TimeIsUp)
    /\ UNCHANGED <<cleanupConsumed, nextID, planned, now>>

CommitWithoutOvershoot(id, actual) ==
    /\ id \in open
    /\ open' = open \ {id}
    /\ reserved' = Subtract(reserved, planned[id])
    /\ consumed' = Add(consumed, actual)
    /\ exhausted' = (exhausted \/ Exceeds(Add(consumed, actual)) \/ TimeIsUp)
    /\ UNCHANGED <<cleanupConsumed, overshoot, nextID, planned, now>>

\* Commit of an open reservation.  The attempt is charged what it used, even
\* beyond the limits; a closed reservation returns ErrReservationClosed and
\* changes nothing.
Commit(id, actual) ==
    /\ id \in open
    /\ open' = open \ {id}
    /\ reserved' = Subtract(reserved, planned[id])
    /\ consumed' = Add(consumed, actual)
    /\ overshoot' = Add(overshoot, Excess(actual, planned[id]))
    /\ exhausted' = (exhausted \/ Exceeds(Add(consumed, actual)) \/ TimeIsUp)
    /\ UNCHANGED <<cleanupConsumed, nextID, planned, now>>

\* Faulty variant: the plan stays reserved.
CancelKeepingPlan(id) ==
    /\ id \in open
    /\ open' = open \ {id}
    /\ UNCHANGED <<consumed, reserved, cleanupConsumed, overshoot, exhausted,
                   nextID, planned, now>>

\* Cancel of an open reservation: the plan is given back.
Cancel(id) ==
    /\ id \in open
    /\ open' = open \ {id}
    /\ reserved' = Subtract(reserved, planned[id])
    /\ UNCHANGED <<consumed, cleanupConsumed, overshoot, exhausted, nextID,
                   planned, now>>

\* ConsumeCleanup when it succeeds: neither the hard ledger nor the deadline
\* nor the latch is consulted.  Otherwise nothing changes.
ConsumeCleanup(actual) ==
    /\ ~ExceedsCleanup(Add(cleanupConsumed, actual))
    /\ cleanupConsumed' = Add(cleanupConsumed, actual)
    /\ UNCHANGED <<consumed, reserved, overshoot, exhausted, nextID, planned,
                   open, now>>

\* Snapshot reads the clock, and so may set the latch.
Snapshot ==
    /\ exhausted' = (exhausted \/ TimeIsUp)
    /\ UNCHANGED <<consumed, reserved, cleanupConsumed, overshoot, nextID,
                   planned, open, now>>

Tick == now < MaxTime /\ now' = now + 1 /\ UNCHANGED ledgerVars

BudgetNext ==
    \/ \E plan \in Usage : Grant(plan) \/ Refuse(plan)
    \/ \E id \in open, actual \in Usage : Commit(id, actual)
    \/ \E id \in open : Cancel(id)
    \/ \E actual \in Cleanups : ConsumeCleanup(actual)
    \/ Snapshot
    \/ Tick

BudgetSpec == BudgetInit /\ [][BudgetNext]_budgetVars

\* The same ledger as long as no int64 sum or difference of a call overflows.
Exact(u, v) == \A f \in Fields : InRange(u[f] + v[f])

ExactClose(id) == \A f \in Fields : InRange(reserved[f] - planned[id][f])

ExactReserve(plan) == /\ Exact(consumed, reserved)
                      /\ Exact(Add(consumed, reserved), plan)
                      /\ Exact(reserved, plan)

ExactCommit(id, actual) == /\ ExactClose(id)
                           /\ Exact(consumed, actual)
                           /\ Exact(overshoot, Excess(actual, planned[id]))

ExactNext ==
    \/ \E plan \in Usage : ExactReserve(plan) /\ (Grant(plan) \/ Refuse(plan))
    \/ \E id \in open, actual \in Usage :
           ExactCommit(id, actual) /\ Commit(id, actual)
    \/ \E id \in open : ExactClose(id) /\ Cancel(id)
    \/ \E actual \in Cleanups :
           Exact(cleanupConsumed, actual) /\ ConsumeCleanup(actual)
    \/ Snapshot
    \/ Tick

ExactSpec == BudgetInit /\ [][ExactNext]_budgetVars

-----------------------------------------------------------------------------
(* Properties.                                                             *)

\* The ledger's fields have their types; reservations are numbered from 1 and
\* only granted ones are open.
BudgetTypeOK ==
    /\ consumed \in [Fields -> Int]
    /\ reserved \in [Fields -> Int]
    /\ cleanupConsumed \in [Fields -> Int]
    /\ overshoot \in [Fields -> Int]
    /\ exhausted \in BOOLEAN
    /\ nextID \in 0..MaxReservations
    /\ planned \in [1..MaxReservations -> [Fields -> Nat]]
    /\ open \subseteq 1..nextID
    /\ now \in Nat

\* What is charged and what is promised together pass a limit only by what
\* attempts used beyond their own reservations: however Reserve, Commit and
\* Cancel calls of concurrent attempts interleave, the ledger itself never
\* oversubscribes the hard budget.
WithinLimitPlusOvershoot ==
    \A f \in Fields : Limited(f) =>
        consumed[f] + reserved[f] <= Limit(f) + overshoot[f]

\* A charge that passes a limit is never left unnoticed: from the Commit that
\* caused it on, the exhausted latch is set.
OverspendLatches == Exceeds(consumed) => exhausted

\* The latch is set only for a reason that still holds: the charge passes a
\* limit or the deadline is behind.  Refusing a plan that does not fit is not
\* a reason.
LatchHasCause == exhausted => Exceeds(consumed) \/ TimeIsUp

\* What the plans of the reservations ids add up to in one field.
Total(plans, ids, f) ==
    LET sum[n \in 0..MaxReservations] ==
            IF n = 0 THEN 0 ELSE sum[n - 1] + (IF n \in ids THEN plans[n][f] ELSE 0)
    IN  sum[MaxReservations]

\* The reserved account is exactly the plans of the reservations still open, so
\* closing a reservation a second time, or losing one, is impossible.
ReservedIsOpenPlans == \A f \in Fields : reserved[f] = Total(planned, open, f)

\* After exhaustion the run only drains: the latch stays, no reservation is
\* granted, and charges grow only by what in-flight attempts had reserved or
\* overshoot.
ExhaustedOnlyDrains ==
    [][exhausted =>
         /\ exhausted'
         /\ nextID' = nextID
         /\ \A f \in Fields : consumed'[f] + reserved'[f] - overshoot'[f]
                              <= consumed[f] + reserved[f] - overshoot[f]]_budgetVars

\* ledger.go:16, "budget consumption cannot be negative": the check that
\* rejects a negative charge keeps the charged total nonnegative.
ConsumptionNonnegative == \A f \in Fields : consumed[f] >= 0

=============================================================================
