--------------------------- MODULE ExecutorProofs ---------------------------
(***************************************************************************)
(* Proofs about the budget ledger, for every set of fields, every policy,  *)
(* every bound and every interleaving of its callers; about the executor,  *)
(* for plans of any length with any dependencies, any number of retries    *)
(* and leases, every budget, and a context that ends at any moment; and    *)
(* about what a product run reports, for every sequence of replies.  Each  *)
(* step of the run is a step of the executor or leaves it alone, so the    *)
(* executor's invariant holds there too.                                   *)
(***************************************************************************)
EXTENDS ProductRun, SequenceTheorems, FiniteSetTheorems, WellFoundedInduction, TLAPS

\* A non-empty set of numbers has a least one: the induction that the provers
\* can use, since it has no operator for a parameter.
LEMMA LeastNat ==
    ASSUME NEW T \in SUBSET Nat, T # {}
    PROVE  \E m \in T : \A k \in T : m <= k
<1>1. PICK n \in T : TRUE
  BY Zenon
<1> DEFINE R == {0 .. k : k \in {j \in T : j <= n}}
<1>2. IsFiniteSet(0 .. n)
  BY FS_Interval
<1>3. IsWellFoundedOn(StrictSubsetOrdering(0 .. n), SUBSET (0 .. n))
  BY <1>2, FS_StrictSubsetOrderingWellFounded, FS_FiniteSubsetsOfFinite, Zenon
<1>4. R \subseteq SUBSET (0 .. n) /\ R # {}
  BY <1>1
<1>5. PICK r \in R : \A q \in R : <<q, r>> \notin StrictSubsetOrdering(0 .. n)
  <2> HIDE DEF R
  <2> QED BY <1>3, <1>4, WFMin, Zenon
<1>6. PICK m \in T : m <= n /\ r = 0 .. m
  BY <1>5
<1>7. ASSUME NEW k \in T, k < m PROVE FALSE
  <2>1. (0 .. k) \in R /\ (0 .. k) \subseteq r /\ (0 .. k) # r
    BY <1>6, <1>7
  <2>2. <<0 .. k, r>> \in StrictSubsetOrdering(0 .. n)
    BY <2>1, <1>4, <1>5 DEF StrictSubsetOrdering
  <2> QED BY <2>1, <2>2, <1>5, Zenon
<1> QED BY <1>6, <1>7

(* The budget ledger. *)
\* No account of the hard ledger is negative.  Reserve compares with the bare
\* limit, so WithinLimitPlusOvershoot needs a nonnegative overshoot.
ChargesNonnegative == \A f \in Fields : consumed[f] >= 0 /\ overshoot[f] >= 0

\* The inductive invariant.
BudgetInv == /\ BudgetTypeOK
             /\ ChargesNonnegative
             /\ WithinLimitPlusOvershoot
             /\ OverspendLatches
             /\ LatchHasCause

-----------------------------------------------------------------------------
\* A sum of two Usages that fits int64 is not wrapped by Usage.add.
LEMMA ExactAdd ==
    ASSUME NEW u \in [Fields -> Int], NEW v \in [Fields -> Int], Exact(u, v)
    PROVE  Add(u, v) = [f \in Fields |-> u[f] + v[f]]
BY BoundsValid DEF Exact, InRange, Add, Wrap

\* The same for Usage.subtract when a reservation is closed.
LEMMA ExactSubtract ==
    ASSUME NEW u \in [Fields -> Int], NEW v \in [Fields -> Int],
           \A f \in Fields : InRange(u[f] - v[f])
    PROVE  Subtract(u, v) = [f \in Fields |-> u[f] - v[f]]
BY BoundsValid DEF InRange, Subtract, Wrap

\* Usage.add and Usage.subtract return integers in every field.
LEMMA AddType ==
    ASSUME NEW u \in [Fields -> Int], NEW v \in [Fields -> Int]
    PROVE  /\ Add(u, v) \in [Fields -> Int]
           /\ Subtract(u, v) \in [Fields -> Int]
<1>1. ASSUME NEW x \in Int PROVE Wrap(x) \in Int
  BY BoundsValid DEF Wrap
<1> QED BY <1>1 DEF Add, Subtract

\* A Usage that passes Validate has no negative field.
LEMMA UsageNonnegative ==
    ASSUME NEW u \in Usage
    PROVE  u \in [Fields -> Nat]
<1>1. Amounts \subseteq Nat
  BY BoundsValid
<1> QED BY <1>1, Zenon DEF Usage

\* positiveDifference covers what an attempt used beyond its plan.
LEMMA ExcessCovers ==
    ASSUME NEW u \in [Fields -> Int], NEW v \in [Fields -> Int]
    PROVE  /\ Excess(u, v) \in [Fields -> Int]
           /\ \A f \in Fields : /\ Excess(u, v)[f] >= 0
                                /\ Excess(u, v)[f] >= u[f] - v[f]
BY DEF Excess, PositiveDifference

\* A limit is an integer wherever one applies.
LEMMA LimitType ==
    ASSUME NEW f \in Fields
    PROVE  Limit(f) \in Int /\ Limit(f) >= 0
BY LimitsValid DEF Fields, Limit

-----------------------------------------------------------------------------
(* The ledger NewLedger returns satisfies the invariant. *)
LEMMA InitBudgetInv == BudgetInit => BudgetInv
<1> SUFFICES ASSUME BudgetInit PROVE BudgetInv
  OBVIOUS
<1>1. BudgetTypeOK
  <2>1. NoUsage \in [Fields -> Int] /\ NoUsage \in [Fields -> Nat]
    BY DEF NoUsage
  <2>2. planned \in [1..MaxReservations -> [Fields -> Nat]]
    BY <2>1 DEF BudgetInit
  <2>3. nextID \in 0..MaxReservations /\ now \in Nat
    BY BoundsValid DEF BudgetInit
  <2>4. exhausted \in BOOLEAN /\ open \subseteq 1..nextID
    BY Zenon DEF BudgetInit
  <2>5. /\ consumed \in [Fields -> Int] /\ reserved \in [Fields -> Int]
        /\ overshoot \in [Fields -> Int] /\ cleanupConsumed \in [Fields -> Int]
    BY <2>1 DEF BudgetInit
  <2> QED BY <2>2, <2>3, <2>4, <2>5 DEF BudgetTypeOK
<1>2. ChargesNonnegative
  BY DEF BudgetInit, NoUsage, ChargesNonnegative
<1>3. WithinLimitPlusOvershoot
  BY LimitType DEF BudgetInit, NoUsage, WithinLimitPlusOvershoot
<1>4. OverspendLatches
  BY LimitType DEF BudgetInit, NoUsage, OverspendLatches, Exceeds
<1>5. LatchHasCause
  BY DEF BudgetInit, LatchHasCause
<1> QED BY <1>1, <1>2, <1>3, <1>4, <1>5 DEF BudgetInv

\* A granted Reserve: the projection was within every limit.
LEMMA GrantBudgetInv ==
    ASSUME BudgetInv, NEW want \in Usage, ExactReserve(want), Grant(want)
    PROVE  BudgetInv'
<1> USE DEF BudgetInv
<1>p. want \in [Fields -> Nat]
  BY UsageNonnegative
<1>t. /\ consumed \in [Fields -> Int]
      /\ reserved \in [Fields -> Int]
      /\ overshoot \in [Fields -> Int]
  BY DEF BudgetTypeOK
<1>s. Add(consumed, reserved) = [f \in Fields |-> consumed[f] + reserved[f]]
  BY <1>t, ExactAdd DEF ExactReserve
<1>r. reserved' = [f \in Fields |-> reserved[f] + want[f]]
  BY <1>p, <1>t, ExactAdd DEF ExactReserve, Grant
<1>q. Projected(want) = [f \in Fields |-> consumed[f] + reserved[f] + want[f]]
  <2>1. Add(consumed, reserved) \in [Fields -> Int]
    BY <1>s, <1>t
  <2>2. Projected(want)
          = [f \in Fields |-> Add(consumed, reserved)[f] + want[f]]
    BY <2>1, <1>p, ExactAdd DEF ExactReserve, Projected
  <2> QED BY <2>2, <1>s
<1>1. BudgetTypeOK'
  <2>1. reserved' \in [Fields -> Int]
    BY <1>r, <1>p, <1>t
  <2>2. nextID' \in 0..MaxReservations /\ open' \subseteq 1..nextID'
    BY BoundsValid DEF BudgetTypeOK, Grant
  <2>3. planned' \in [1..MaxReservations -> [Fields -> Nat]]
    BY <1>p, BoundsValid DEF BudgetTypeOK, Grant
  <2> QED BY <2>1, <2>2, <2>3 DEF BudgetTypeOK, Grant
<1>2. ChargesNonnegative'
  BY DEF ChargesNonnegative, Grant
<1>3. WithinLimitPlusOvershoot'
  <2> SUFFICES ASSUME NEW f \in Fields, Limited(f)
               PROVE  consumed[f] + reserved'[f] <= Limit(f) + overshoot[f]
    BY DEF WithinLimitPlusOvershoot, Grant
  <2>1. consumed[f] + reserved[f] + want[f] <= Limit(f)
    BY <1>q, <1>p, <1>t, LimitType DEF Grant, CanReserve, Exceeds
  <2>2. overshoot[f] >= 0 /\ Limit(f) \in Int
    BY LimitType DEF ChargesNonnegative
  <2> QED BY <2>1, <2>2, <1>r, <1>p, <1>t
<1>4. OverspendLatches' /\ LatchHasCause'
  BY DEF OverspendLatches, LatchHasCause, Exceeds, TimeIsUp, Grant
<1> QED BY <1>1, <1>2, <1>3, <1>4

\* A refused Reserve: only the latch may change, and only at the deadline.
LEMMA RefuseBudgetInv ==
    ASSUME BudgetInv, NEW want \in Usage, Refuse(want)
    PROVE  BudgetInv'
<1> USE DEF BudgetInv, Refuse
<1>1. BudgetTypeOK'
  BY DEF BudgetTypeOK
<1>2. ChargesNonnegative' /\ WithinLimitPlusOvershoot'
  BY DEF ChargesNonnegative, WithinLimitPlusOvershoot
<1>3. OverspendLatches' /\ LatchHasCause'
  BY Zenon DEF OverspendLatches, LatchHasCause, Exceeds, TimeIsUp
<1> QED BY <1>1, <1>2, <1>3

\* Commit: what the attempt used beyond its plan is booked as overshoot.
LEMMA CommitBudgetInv ==
    ASSUME BudgetInv, NEW id \in open, NEW actual \in Usage,
           ExactCommit(id, actual), Commit(id, actual)
    PROVE  BudgetInv'
<1> USE DEF BudgetInv
<1> DEFINE excess == Excess(actual, planned[id])
<1>a. actual \in [Fields -> Nat] /\ actual \in [Fields -> Int]
  BY UsageNonnegative
<1>p. planned[id] \in [Fields -> Nat] /\ planned[id] \in [Fields -> Int]
  BY BoundsValid DEF BudgetTypeOK
<1>t. /\ consumed \in [Fields -> Int]
      /\ reserved \in [Fields -> Int]
      /\ overshoot \in [Fields -> Int]
  BY DEF BudgetTypeOK
<1>e. /\ excess \in [Fields -> Int]
      /\ \A f \in Fields : /\ excess[f] >= 0
                           /\ excess[f] >= actual[f] - planned[id][f]
  BY <1>a, <1>p, ExcessCovers
<1>r. reserved' = [f \in Fields |-> reserved[f] - planned[id][f]]
  BY <1>p, <1>t, ExactSubtract DEF ExactCommit, ExactClose, Commit
<1>c. /\ consumed' = [f \in Fields |-> consumed[f] + actual[f]]
      /\ consumed' = Add(consumed, actual)
  BY <1>a, <1>t, ExactAdd, Zenon DEF ExactCommit, Commit
<1>o. overshoot' = [f \in Fields |-> overshoot[f] + excess[f]]
  BY <1>e, <1>t, ExactAdd DEF ExactCommit, Commit
<1> HIDE DEF excess
<1>1. BudgetTypeOK'
  <2>1. /\ reserved' \in [Fields -> Int]
        /\ consumed' \in [Fields -> Int]
        /\ overshoot' \in [Fields -> Int]
    BY <1>r, <1>c, <1>o, <1>a, <1>p, <1>e, <1>t
  <2>2. exhausted' \in BOOLEAN
    BY DEF BudgetTypeOK, Commit, Exceeds, TimeIsUp
  <2> QED BY <2>1, <2>2 DEF BudgetTypeOK, Commit
<1>2. ChargesNonnegative'
  BY <1>c, <1>o, <1>a, <1>e, <1>t DEF ChargesNonnegative
<1>3. WithinLimitPlusOvershoot'
  <2> SUFFICES ASSUME NEW f \in Fields, Limited(f)
               PROVE  consumed'[f] + reserved'[f] <= Limit(f) + overshoot'[f]
    BY DEF WithinLimitPlusOvershoot
  <2>1. consumed[f] + reserved[f] <= Limit(f) + overshoot[f]
    BY DEF WithinLimitPlusOvershoot
  <2> QED BY <2>1, <1>r, <1>c, <1>o, <1>a, <1>p, <1>e, <1>t, LimitType
<1>4. OverspendLatches'
  BY <1>c, Zenon DEF OverspendLatches, Commit, Exceeds
<1>5. LatchHasCause'
  <2>1. ASSUME Exceeds(consumed) PROVE Exceeds(consumed')
    BY <2>1, <1>c, <1>a, <1>t, LimitType DEF Exceeds
  <2>2. TimeIsUp' = TimeIsUp
    BY DEF TimeIsUp, Commit
  <2> QED BY <2>1, <2>2, <1>c, Zenon DEF LatchHasCause, Commit, Exceeds
<1> QED BY <1>1, <1>2, <1>3, <1>4, <1>5

\* Cancel: the plan is given back and nothing is charged.
LEMMA CancelBudgetInv ==
    ASSUME BudgetInv, NEW id \in open, ExactClose(id), Cancel(id)
    PROVE  BudgetInv'
<1> USE DEF BudgetInv
<1>p. planned[id] \in [Fields -> Nat] /\ planned[id] \in [Fields -> Int]
  BY BoundsValid DEF BudgetTypeOK
<1>t. /\ consumed \in [Fields -> Int]
      /\ reserved \in [Fields -> Int]
      /\ overshoot \in [Fields -> Int]
  BY DEF BudgetTypeOK
<1>r. reserved' = [f \in Fields |-> reserved[f] - planned[id][f]]
  BY <1>p, <1>t, ExactSubtract DEF ExactClose, Cancel
<1>1. BudgetTypeOK'
  <2>1. reserved' \in [Fields -> Int]
    BY <1>r, <1>p, <1>t
  <2> QED BY <2>1 DEF BudgetTypeOK, Cancel
<1>2. ChargesNonnegative'
  BY DEF ChargesNonnegative, Cancel
<1>3. WithinLimitPlusOvershoot'
  BY <1>r, <1>p, <1>t, LimitType DEF WithinLimitPlusOvershoot, Cancel
<1>4. OverspendLatches' /\ LatchHasCause'
  BY DEF OverspendLatches, LatchHasCause, Exceeds, TimeIsUp, Cancel
<1> QED BY <1>1, <1>2, <1>3, <1>4

\* ConsumeCleanup, Snapshot and the clock leave the hard ledger alone.
LEMMA OtherBudgetInv ==
    ASSUME BudgetInv,
           \/ \E actual \in Cleanups : ConsumeCleanup(actual)
           \/ Snapshot
           \/ Tick
           \/ UNCHANGED budgetVars
    PROVE  BudgetInv'
<1> USE DEF BudgetInv
<1>t. now \in Nat /\ Deadline \in Nat
  BY BoundsValid, Zenon DEF BudgetTypeOK
<1>1. CASE \E actual \in Cleanups : ConsumeCleanup(actual)
  <2> PICK actual \in Cleanups : ConsumeCleanup(actual)
    BY <1>1
  <2>1. actual \in Usage
    BY BoundsValid DEF Usage
  <2>2. cleanupConsumed' \in [Fields -> Int]
    <3>1. actual \in [Fields -> Int] /\ cleanupConsumed \in [Fields -> Int]
      BY <2>1, UsageNonnegative DEF BudgetTypeOK
    <3>2. Add(cleanupConsumed, actual) \in [Fields -> Int]
      BY <3>1, AddType
    <3> QED BY <3>2 DEF ConsumeCleanup
  <2>3. BudgetTypeOK'
    BY <2>2 DEF BudgetTypeOK, ConsumeCleanup
  <2> QED BY <2>3 DEF ChargesNonnegative, WithinLimitPlusOvershoot,
             OverspendLatches, LatchHasCause, Exceeds, TimeIsUp, ConsumeCleanup
<1>2. CASE Snapshot
  <2>1. BudgetTypeOK'
    BY <1>2 DEF BudgetTypeOK, Snapshot
  <2> QED BY <1>2, <2>1, Zenon DEF ChargesNonnegative, WithinLimitPlusOvershoot,
             OverspendLatches, LatchHasCause, Exceeds, TimeIsUp, Snapshot
<1>3. CASE Tick
  <2>1. BudgetTypeOK'
    BY <1>3, <1>t DEF BudgetTypeOK, Tick, ledgerVars
  <2>2. TimeIsUp => TimeIsUp'
    BY <1>3, <1>t DEF TimeIsUp, Tick
  <2> QED BY <1>3, <2>1, <2>2 DEF ChargesNonnegative, WithinLimitPlusOvershoot,
             OverspendLatches, LatchHasCause, Exceeds, Tick, ledgerVars
<1>4. CASE UNCHANGED budgetVars
  BY <1>4 DEF BudgetTypeOK, ChargesNonnegative, WithinLimitPlusOvershoot,
     OverspendLatches, LatchHasCause, Exceeds, TimeIsUp, budgetVars
<1> QED BY <1>1, <1>2, <1>3, <1>4

\* Every step of every caller preserves the inductive invariant.
LEMMA NextBudgetInv == BudgetInv /\ [ExactNext]_budgetVars => BudgetInv'
BY GrantBudgetInv, RefuseBudgetInv, CommitBudgetInv, CancelBudgetInv,
   OtherBudgetInv DEF ExactNext

\* The inductive invariant holds of every behaviour of the ledger in which no
\* int64 sum overflows.
THEOREM BudgetInvariant == ExactSpec => []BudgetInv
BY InitBudgetInv, NextBudgetInv, PTL DEF ExactSpec

\* The ledger's state is well typed in every behaviour.
THEOREM BudgetTypeCorrect == ExactSpec => []BudgetTypeOK
BY BudgetInvariant, PTL DEF BudgetInv

\* Reserve never oversubscribes the hard budget: charged plus reserved usage
\* passes a limit only by recorded overshoot.
THEOREM NeverOversubscribed == ExactSpec => []WithinLimitPlusOvershoot
BY BudgetInvariant, PTL DEF BudgetInv

\* An overspend is always latched.
THEOREM OverspendIsLatched == ExactSpec => []OverspendLatches
BY BudgetInvariant, PTL DEF BudgetInv

\* The latch is set for no other cause than an overspend or the deadline.
THEOREM LatchIsJustified == ExactSpec => []LatchHasCause
BY BudgetInvariant, PTL DEF BudgetInv

-----------------------------------------------------------------------------
\* A step taken after exhaustion only drains the ledger.
LEMMA StepDrains ==
    ASSUME BudgetInv, [ExactNext]_budgetVars, exhausted
    PROVE  /\ exhausted'
           /\ nextID' = nextID
           /\ \A f \in Fields : consumed'[f] + reserved'[f] - overshoot'[f]
                                <= consumed[f] + reserved[f] - overshoot[f]
<1>t. /\ consumed \in [Fields -> Int]
      /\ reserved \in [Fields -> Int]
      /\ overshoot \in [Fields -> Int]
  BY DEF BudgetInv, BudgetTypeOK
<1>1. ASSUME NEW want \in Usage, Grant(want) PROVE FALSE
  BY <1>1 DEF Grant, CanReserve
<1>2. ASSUME NEW want \in Usage, Refuse(want)
      PROVE  exhausted' /\ UNCHANGED <<nextID, consumed, reserved, overshoot>>
  BY <1>2, Zenon DEF Refuse
<1>3. ASSUME NEW id \in open, NEW actual \in Usage,
             ExactCommit(id, actual), Commit(id, actual)
      PROVE  /\ exhausted'
             /\ nextID' = nextID
             /\ \A f \in Fields : consumed'[f] + reserved'[f] - overshoot'[f]
                                  <= consumed[f] + reserved[f] - overshoot[f]
  <2> DEFINE excess == Excess(actual, planned[id])
  <2>a. actual \in [Fields -> Nat] /\ actual \in [Fields -> Int]
    BY UsageNonnegative
  <2>p. planned[id] \in [Fields -> Nat] /\ planned[id] \in [Fields -> Int]
    BY BoundsValid DEF BudgetInv, BudgetTypeOK
  <2>e. /\ excess \in [Fields -> Int]
        /\ \A f \in Fields : excess[f] >= actual[f] - planned[id][f]
    BY <2>a, <2>p, ExcessCovers, Zenon
  <2>r. reserved' = [f \in Fields |-> reserved[f] - planned[id][f]]
    BY <1>3, <2>p, <1>t, ExactSubtract, Zenon DEF ExactCommit, ExactClose, Commit
  <2>c. consumed' = [f \in Fields |-> consumed[f] + actual[f]]
    BY <1>3, <2>a, <1>t, ExactAdd, Zenon DEF ExactCommit, Commit
  <2>o. overshoot' = [f \in Fields |-> overshoot[f] + excess[f]]
    BY <1>3, <2>e, <1>t, ExactAdd DEF ExactCommit, Commit
  <2>x. exhausted' /\ nextID' = nextID
    BY <1>3, Zenon DEF Commit
  <2> HIDE DEF excess
  <2> QED BY <2>a, <2>p, <2>e, <2>r, <2>c, <2>o, <2>x, <1>t
<1>4. ASSUME NEW id \in open, ExactClose(id), Cancel(id)
      PROVE  /\ exhausted'
             /\ nextID' = nextID
             /\ \A f \in Fields : consumed'[f] + reserved'[f] - overshoot'[f]
                                  <= consumed[f] + reserved[f] - overshoot[f]
  <2>p. planned[id] \in [Fields -> Nat] /\ planned[id] \in [Fields -> Int]
    BY BoundsValid DEF BudgetInv, BudgetTypeOK
  <2>r. reserved' = [f \in Fields |-> reserved[f] - planned[id][f]]
    BY <1>4, <2>p, <1>t, ExactSubtract DEF ExactClose, Cancel
  <2> QED BY <1>4, <2>p, <2>r, <1>t DEF Cancel
<1>5. ASSUME \/ \E actual \in Cleanups : ConsumeCleanup(actual)
             \/ Snapshot
             \/ Tick
             \/ UNCHANGED budgetVars
      PROVE  exhausted' /\ UNCHANGED <<nextID, consumed, reserved, overshoot>>
  BY <1>5, Zenon DEF ConsumeCleanup, Snapshot, Tick, ledgerVars, budgetVars
<1>6. ASSUME exhausted' /\ UNCHANGED <<nextID, consumed, reserved, overshoot>>
      PROVE  /\ exhausted'
             /\ nextID' = nextID
             /\ \A f \in Fields : consumed'[f] + reserved'[f] - overshoot'[f]
                                  <= consumed[f] + reserved[f] - overshoot[f]
  BY <1>6, <1>t
<1> QED BY <1>1, <1>2, <1>3, <1>4, <1>5, <1>6 DEF ExactNext

\* Once exhausted, always exhausted; no reservation is granted any more, and
\* what is still charged was reserved before or is recorded as overshoot.
THEOREM DrainsAfterExhaustion == ExactSpec => ExhaustedOnlyDrains
<1>1. BudgetInv /\ [ExactNext]_budgetVars =>
        [exhausted =>
           /\ exhausted'
           /\ nextID' = nextID
           /\ \A f \in Fields : consumed'[f] + reserved'[f] - overshoot'[f]
                                <= consumed[f] + reserved[f] - overshoot[f]]_budgetVars
  BY StepDrains
<1> QED BY <1>1, BudgetInvariant, PTL DEF ExactSpec, ExhaustedOnlyDrains

-----------------------------------------------------------------------------
\* s adds up the first K values of w.
Sums(w, K, s) == s = [n \in 0..K |-> IF n = 0 THEN 0 ELSE s[n - 1] + w[n]]

\* What a reservation adds to the reserved account: its plan, while it is open.
OpenPlan(plans, ids, f) == [n \in 1..MaxReservations |-> IF n \in ids THEN plans[n][f] ELSE 0]

\* Every partial sum is an integer.
LEMMA SumsAreInts ==
    ASSUME NEW K \in Nat, NEW w \in [1..K -> Int], NEW s, Sums(w, K, s)
    PROVE  \A n \in 0..K : s[n] \in Int
<1> DEFINE B == {n \in 0..K : s[n] \notin Int}
<1> SUFFICES ASSUME B # {} PROVE FALSE
  BY Zenon
<1>1. B \in SUBSET Nat
  OBVIOUS
<1>2. PICK n \in B : \A k \in B : n <= k
  <2> HIDE DEF B
  <2> QED BY <1>1, LeastNat, Zenon
<1>3. n \in 0..K /\ s[n] \notin Int
  OBVIOUS
<1>4. s[n] = IF n = 0 THEN 0 ELSE s[n - 1] + w[n]
  BY <1>3, Zenon DEF Sums
<1>5. n # 0
  BY <1>3, <1>4
<1>6. n \in 1..K /\ n - 1 \in 0..K /\ ~(n <= n - 1)
  BY <1>3, <1>5
<1>7. s[n - 1] \in Int
  BY <1>2, <1>6, Zenon
<1>8. w[n] \in Int
  BY <1>6
<1> HIDE DEF B
<1> QED BY <1>3, <1>4, <1>5, <1>7, <1>8

\* There is such an s.
LEMMA SumsExist ==
    ASSUME NEW M \in Nat, NEW w
    PROVE  \E s : Sums(w, M, s)
<1> DEFINE B == {n \in Nat : ~ \E s : Sums(w, n, s)}
<1> SUFFICES ASSUME B # {} PROVE FALSE
  BY Zenon
<1>1. B \in SUBSET Nat
  OBVIOUS
<1>2. PICK n \in B : \A k \in B : n <= k
  <2> HIDE DEF B
  <2> QED BY <1>1, LeastNat, Zenon
<1>3. n \in Nat /\ ~ \E s : Sums(w, n, s)
  OBVIOUS
<1>4. n # 0
  <2> SUFFICES ASSUME n = 0 PROVE FALSE
    OBVIOUS
  <2> DEFINE z == [k \in 0..n |-> 0]
  <2>1. \A k \in 0..n : k = 0
    OBVIOUS
  <2>2. z = [k \in 0..n |-> IF k = 0 THEN 0 ELSE z[k - 1] + w[k]]
    BY <2>1, Zenon
  <2> QED BY <1>3, <2>2, Zenon DEF Sums
<1>5. n - 1 \in Nat /\ ~(n <= n - 1)
  BY <1>3, <1>4
<1>6. PICK r : Sums(w, n - 1, r)
  BY <1>2, <1>5, Zenon
<1> DEFINE s == [k \in 0..n |-> IF k = n THEN r[n - 1] + w[n] ELSE r[k]]
<1>7. \A k \in 0..(n - 1) : r[k] = IF k = 0 THEN 0 ELSE r[k - 1] + w[k]
  BY <1>6, Zenon DEF Sums
<1>8. ASSUME NEW k \in 0..n PROVE s[k] = IF k = 0 THEN 0 ELSE s[k - 1] + w[k]
  <2>1. k # 0 => k - 1 \in 0..n /\ k - 1 # n
    BY <1>3
  <2>2. k # 0 => s[k - 1] = r[k - 1]
    BY <2>1, Zenon
  <2>3. CASE k = n
    BY <1>4, <2>2, <2>3, Zenon
  <2>4. CASE k # n
    <3>1. k \in 0..(n - 1)
      BY <1>3, <2>4
    <3>2. s[k] = r[k]
      BY <2>4, Zenon
    <3> HIDE DEF s
    <3> QED BY <1>7, <2>2, <3>1, <3>2, Zenon
  <2> QED BY <2>3, <2>4
<1>9. s = [k \in 0..n |-> s[k]]
  BY Zenon
<1>10. s = [k \in 0..n |-> IF k = 0 THEN 0 ELSE s[k - 1] + w[k]]
  <2> HIDE DEF s
  <2> QED BY <1>8, <1>9, Zenon
<1> QED BY <1>3, <1>10, Zenon DEF Sums

\* Values that are alike but at one place, and what that makes of their sums.
Alike(w, v, K, id) == \A n \in 1..K : n # id => v[n] = w[n]
Moves(w, v, s, t, K, id) == t[K] = s[K] + v[id] - w[id]

\* Two sums of values that differ at one place only differ by that difference.
LEMMA SumsDiffer ==
    ASSUME NEW K \in Nat, NEW w \in [1..K -> Int], NEW v \in [1..K -> Int],
           NEW s, Sums(w, K, s), NEW t, Sums(v, K, t),
           NEW id \in 1..K, Alike(w, v, K, id)
    PROVE  Moves(w, v, s, t, K, id)
<1> DEFINE d == v[id] - w[id]
           Off(n) == t[n] = s[n] + (IF id <= n THEN d ELSE 0)
           B == {n \in 0..K : ~Off(n)}
<1>0. (\A n \in 0..K : s[n] \in Int) /\ (\A n \in 0..K : t[n] \in Int)
  BY SumsAreInts, Zenon
<1>d. d \in Int /\ v[id] \in Int /\ w[id] \in Int
  OBVIOUS
<1>a. B = {}
  <2> SUFFICES ASSUME B # {} PROVE FALSE
    BY Zenon
  <2>1. B \in SUBSET Nat
    OBVIOUS
  <2>2. PICK n \in B : \A k \in B : n <= k
    <3> HIDE DEF B
    <3> QED BY <2>1, LeastNat, Zenon
  <2>3. n \in 0..K /\ ~Off(n)
    BY Zenon
  <2>4. /\ s[n] = IF n = 0 THEN 0 ELSE s[n - 1] + w[n]
        /\ t[n] = IF n = 0 THEN 0 ELSE t[n - 1] + v[n]
    BY <2>3, Zenon DEF Sums
  <2>5. n # 0
    BY <2>3, <2>4
  <2>6. n \in 1..K /\ n - 1 \in 0..K /\ ~(n <= n - 1)
    BY <2>3, <2>5
  <2>7. Off(n - 1)
    BY <2>2, <2>6, Zenon
  <2>8. /\ w[n] \in Int /\ v[n] \in Int /\ s[n - 1] \in Int /\ t[n - 1] \in Int
        /\ n # id => v[n] = w[n]
    BY <1>0, <2>6 DEF Alike
  <2> HIDE DEF B
  <2>9. CASE n = id
    <3>1. v[n] = d + w[n]
      BY <1>d, <2>9
    <3> HIDE DEF d
    <3> QED BY ONLY <1>d, <2>3, <2>4, <2>5, <2>6, <2>7, <2>8, <2>9, <3>1
  <2>10. CASE n # id
    <3>1. id <= n <=> id <= n - 1
      BY <2>6, <2>10
    <3>2. s[n] = s[n - 1] + w[n] /\ t[n] = t[n - 1] + w[n]
      BY <2>4, <2>5, <2>8, <2>10, Zenon
    <3> DEFINE x == IF id <= n THEN d ELSE 0
    <3>3. t[n - 1] = s[n - 1] + x /\ ~(t[n] = s[n] + x)
      BY <2>3, <2>7, <3>1, Zenon
    <3>4. x \in Int
      <4> HIDE DEF d
      <4> QED BY <1>d
    <3> HIDE DEF x
    <3> QED BY ONLY <2>8, <3>2, <3>3, <3>4
  <2> QED BY <2>9, <2>10
<1>b. K \in 0..K /\ id <= K
  OBVIOUS
<1>c. Off(K)
  BY <1>a, <1>b, Zenon
<1>e. s[K] \in Int
  BY <1>0, <1>b
<1>f. t[K] = s[K] + d
  <2> HIDE DEF d
  <2> QED BY <1>b, <1>c
<1> QED BY <1>d, <1>e, <1>f DEF Moves

\* The total is such a sum.
LEMMA TotalIs ==
    ASSUME NEW plans, NEW ids, NEW f
    PROVE  \E s : Sums(OpenPlan(plans, ids, f), MaxReservations, s)
                  /\ Total(plans, ids, f) = s[MaxReservations]
<1> DEFINE M == MaxReservations
           Adds(s) == s = [n \in 0..M |-> IF n = 0 THEN 0 ELSE s[n - 1]
                                             + (IF n \in ids THEN plans[n][f] ELSE 0)]
           g == CHOOSE s : Adds(s)
           w == OpenPlan(plans, ids, f)
<1>1. Total(plans, ids, f) = g[M]
  BY Zenon DEF Total
<1>2. M \in Nat
  BY BoundsValid
<1>3. \A n \in 0..M : n # 0 => n \in 1..M
  BY <1>2
<1>4. \A n \in 1..M : w[n] = IF n \in ids THEN plans[n][f] ELSE 0
  BY Zenon DEF OpenPlan
<1> HIDE DEF M, w
<1>5. ASSUME NEW s PROVE Adds(s) <=> Sums(w, M, s)
  <2>1. [n \in 0..M |-> IF n = 0 THEN 0 ELSE s[n - 1] + (IF n \in ids THEN plans[n][f] ELSE 0)]
        = [n \in 0..M |-> IF n = 0 THEN 0 ELSE s[n - 1] + w[n]]
    BY <1>3, <1>4, Zenon
  <2> QED BY <2>1, Zenon DEF Sums
<1>6. \E s : Adds(s)
  BY <1>2, <1>5, SumsExist, Zenon
<1>7. Adds(g)
  BY <1>6, Zenon
<1> HIDE DEF g
<1>8. Sums(w, M, g)
  BY <1>5, <1>7, Zenon
<1> QED BY <1>1, <1>8, Zenon DEF M, w

\* What the total is when one reservation changes.
OneChanges(p, I, q, J, id) ==
    \A n \in 1..MaxReservations : n # id => (n \in I <=> n \in J) /\ p[n] = q[n]
TotalMoves(p, I, q, J, f, id) ==
    /\ id \in J /\ id \notin I => Total(q, J, f) = Total(p, I, f) + q[id][f]
    /\ id \in I /\ id \notin J => Total(q, J, f) = Total(p, I, f) - p[id][f]

\* A reservation that opens adds its plan to the total, and one that closes takes it out.
LEMMA TotalDiffers ==
    ASSUME NEW p \in [1..MaxReservations -> [Fields -> Nat]], NEW I,
           NEW q \in [1..MaxReservations -> [Fields -> Nat]], NEW J,
           NEW f \in Fields, NEW id \in 1..MaxReservations,
           OneChanges(p, I, q, J, id)
    PROVE  TotalMoves(p, I, q, J, f, id)
<1> DEFINE M == MaxReservations
           w == OpenPlan(p, I, f)
           v == OpenPlan(q, J, f)
<1>1. M \in Nat /\ M \in 0..M
  BY BoundsValid
<1>2. /\ \A n \in 1..M : p[n][f] \in Nat /\ q[n][f] \in Nat
      /\ p[id][f] \in Nat /\ q[id][f] \in Nat
  BY Zenon
<1>3. w \in [1..M -> Int] /\ v \in [1..M -> Int]
  BY <1>2 DEF OpenPlan
<1>4. Alike(w, v, M, id)
  BY Zenon DEF OpenPlan, OneChanges, Alike
<1>5. /\ w[id] = IF id \in I THEN p[id][f] ELSE 0
      /\ v[id] = IF id \in J THEN q[id][f] ELSE 0
  BY Zenon DEF OpenPlan
<1>6. PICK s : Sums(w, M, s) /\ Total(p, I, f) = s[M]
  BY TotalIs, Zenon
<1>7. PICK t : Sums(v, M, t) /\ Total(q, J, f) = t[M]
  BY TotalIs, Zenon
<1> HIDE DEF M, w, v
<1>8. s[M] \in Int
  BY <1>1, <1>3, <1>6, SumsAreInts, Zenon
<1>9. id \in 1..M
  BY DEF M
<1>10. Moves(w, v, s, t, M, id)
  BY ONLY <1>1, <1>3, <1>4, <1>6, <1>7, <1>9, SumsDiffer, Zenon
<1> QED BY <1>2, <1>5, <1>6, <1>7, <1>8, <1>10 DEF Moves, TotalMoves

\* Nothing is reserved when nothing is open.
LEMMA TotalOfNone ==
    ASSUME NEW p, NEW f
    PROVE  Total(p, {}, f) = 0
<1> DEFINE M == MaxReservations
           w == OpenPlan(p, {}, f)
<1>1. M \in Nat /\ M \in 0..M
  BY BoundsValid
<1>2. PICK s : Sums(w, M, s) /\ Total(p, {}, f) = s[M]
  BY TotalIs, Zenon
<1>3. \A n \in 1..M : w[n] = 0
  BY Zenon DEF OpenPlan
<1> HIDE DEF M, w
<1> DEFINE B == {n \in 0..M : s[n] # 0}
<1>4. B = {}
  <2> SUFFICES ASSUME B # {} PROVE FALSE
    BY Zenon
  <2>1. B \in SUBSET Nat
    BY <1>1
  <2>2. PICK n \in B : \A k \in B : n <= k
    <3> HIDE DEF B
    <3> QED BY <2>1, LeastNat, Zenon
  <2>3. n \in 0..M /\ s[n] # 0 /\ s[n] = IF n = 0 THEN 0 ELSE s[n - 1] + w[n]
    BY <1>2, Zenon DEF Sums
  <2>4. n \in 1..M /\ n - 1 \in 0..M /\ ~(n <= n - 1)
    BY <1>1, <2>3
  <2>5. s[n - 1] = 0
    BY <2>2, <2>4, Zenon
  <2> HIDE DEF B
  <2> QED BY <1>3, <2>3, <2>4, <2>5
<1> QED BY <1>1, <1>2, <1>4, Zenon

\* Each step leaves in the reserved account what is still open.
LEMMA StepKeepsReserved ==
    ASSUME BudgetInv, ReservedIsOpenPlans, [ExactNext]_budgetVars
    PROVE  ReservedIsOpenPlans'
<1>t. /\ reserved \in [Fields -> Int] /\ open \subseteq 1..nextID /\ nextID \in 0..MaxReservations
      /\ planned \in [1..MaxReservations -> [Fields -> Nat]] /\ BudgetTypeOK
  BY DEF BudgetInv, BudgetTypeOK
<1>1. ASSUME NEW want \in Usage, ExactReserve(want), Grant(want) PROVE ReservedIsOpenPlans'
  <2> DEFINE id == nextID + 1
  <2>1. id \in 1..MaxReservations /\ id \notin open
    BY <1>1, <1>t, BoundsValid DEF Grant
  <2>2. want \in [Fields -> Nat] /\ want \in [Fields -> Int]
    BY UsageNonnegative
  <2>3. reserved' = [f \in Fields |-> reserved[f] + want[f]]
    BY <1>1, <1>t, <2>2, ExactAdd, Zenon DEF ExactReserve, Grant
  <2>4. /\ planned' \in [1..MaxReservations -> [Fields -> Nat]] /\ planned'[id] = want
        /\ id \in open'
        /\ OneChanges(planned, open, planned', open', id)
    BY <1>1, <1>t, <2>1, <2>2 DEF Grant, OneChanges
  <2> HIDE DEF id
  <2> SUFFICES ASSUME NEW f \in Fields PROVE reserved'[f] = Total(planned', open', f)
    BY Zenon DEF ReservedIsOpenPlans
  <2>a. TotalMoves(planned, open, planned', open', f, id)
    BY ONLY <1>t, <2>1, <2>4, f \in Fields, TotalDiffers, Zenon
  <2>5. Total(planned', open', f) = Total(planned, open, f) + planned'[id][f]
    BY <2>1, <2>4, <2>a, Zenon DEF TotalMoves
  <2>6. reserved[f] = Total(planned, open, f)
    BY Zenon DEF ReservedIsOpenPlans
  <2>7. reserved'[f] = reserved[f] + want[f]
    BY <2>3, Zenon
  <2> QED BY <2>4, <2>5, <2>6, <2>7, Zenon
<1>2. ASSUME NEW id \in open, ExactClose(id), open' = open \ {id}, planned' = planned,
             reserved' = Subtract(reserved, planned[id])
      PROVE ReservedIsOpenPlans'
  <2>1. id \in 1..MaxReservations /\ id \notin open'
    BY <1>2, <1>t, BoundsValid
  <2>2. planned[id] \in [Fields -> Nat] /\ planned[id] \in [Fields -> Int]
    BY <1>t, <2>1
  <2>3. reserved' = [f \in Fields |-> reserved[f] - planned[id][f]]
    BY <1>2, <1>t, <2>2, ExactSubtract, Zenon DEF ExactClose
  <2>4. OneChanges(planned, open, planned', open', id)
    BY <1>2, Zenon DEF OneChanges
  <2>5. planned' \in [1..MaxReservations -> [Fields -> Nat]]
    BY <1>2, <1>t, Zenon
  <2> SUFFICES ASSUME NEW f \in Fields PROVE reserved'[f] = Total(planned', open', f)
    BY Zenon DEF ReservedIsOpenPlans
  <2>a. TotalMoves(planned, open, planned', open', f, id)
    BY ONLY <1>t, <2>1, <2>4, <2>5, f \in Fields, TotalDiffers, Zenon
  <2>6. Total(planned', open', f) = Total(planned, open, f) - planned[id][f]
    BY <1>2, <2>1, <2>a, Zenon DEF TotalMoves
  <2>7. reserved[f] = Total(planned, open, f)
    BY Zenon DEF ReservedIsOpenPlans
  <2>8. reserved'[f] = reserved[f] - planned[id][f]
    BY <2>3, Zenon
  <2> QED BY <2>6, <2>7, <2>8, Zenon
<1>3. ASSUME UNCHANGED <<reserved, planned, open>> PROVE ReservedIsOpenPlans'
  BY <1>3, Zenon DEF ReservedIsOpenPlans
<1>4. ASSUME NEW want \in Usage, Refuse(want) PROVE UNCHANGED <<reserved, planned, open>>
  BY <1>4, Zenon DEF Refuse
<1>5. ASSUME NEW id \in open, NEW actual \in Usage, ExactCommit(id, actual), Commit(id, actual)
      PROVE  ReservedIsOpenPlans'
  BY <1>2, <1>5, Zenon DEF ExactCommit, Commit
<1>6. ASSUME NEW id \in open, ExactClose(id), Cancel(id) PROVE ReservedIsOpenPlans'
  BY <1>2, <1>6, Zenon DEF Cancel
<1>7. ASSUME \/ \E actual \in Cleanups : ConsumeCleanup(actual)
             \/ Snapshot
             \/ Tick
             \/ UNCHANGED budgetVars
      PROVE  UNCHANGED <<reserved, planned, open>>
  BY <1>7, Zenon DEF ConsumeCleanup, Snapshot, Tick, ledgerVars, budgetVars
<1> QED BY <1>1, <1>3, <1>4, <1>5, <1>6, <1>7, Zenon DEF ExactNext

\* The reserved account is exactly the plans of the reservations still open, for any
\* number of reservations.
THEOREM ReservationsAreExact == ExactSpec => []ReservedIsOpenPlans
<1>1. BudgetInit => ReservedIsOpenPlans
  <2> SUFFICES ASSUME BudgetInit PROVE ReservedIsOpenPlans
    OBVIOUS
  <2>1. open = {} /\ \A f \in Fields : reserved[f] = 0
    BY Zenon DEF BudgetInit, NoUsage
  <2> QED BY <2>1, TotalOfNone, Zenon DEF ReservedIsOpenPlans
<1>2. BudgetInv /\ ReservedIsOpenPlans /\ [ExactNext]_budgetVars => ReservedIsOpenPlans'
  BY StepKeepsReserved
<1> QED BY <1>1, <1>2, BudgetInvariant, PTL DEF ExactSpec

-----------------------------------------------------------------------------
(* The executor. *)
\* Where a scenario has been started and is not yet decided.
Busy == {"attempt", "running", "returned", "settled"}

AttemptRecords == [status: Statuses, reason: Reasons, evidence: SUBSET Evidence,
                   unknown: SUBSET TokenFields]

\* No attempt so far has completed.
NoneCompleted(as) == \A n \in 1..Len(as) : as[n].status # "completed"

\* A decided case agrees with its attempts: it has a verdict exactly when the last
\* of them completed, with evidence that it keeps.
CaseFits(c, as) ==
    /\ c.status \in Statuses
    /\ c.verdict \in Verdicts \union {"none"}
    /\ c.executed <=> c.status = "completed"
    /\ c.verdict # "none" <=> c.status = "completed"
    /\ c.status = "completed" <=> (Len(as) > 0 /\ as[Len(as)].status = "completed")
    /\ c.status = "completed" => /\ as[Len(as)].evidence # {}
                                 /\ as[Len(as)].evidence \subseteq c.evidence
    /\ \A n \in 1..(Len(as) - 1) : as[n].status # "completed"

DependenciesMet(s) ==
    /\ plan.disposition[s] = "execute"
    /\ \A d \in plan.dependsOn[s] : cases[d].executed /\ cases[d].verdict \in {"pass", "warn"}

ExecTyped ==
    /\ plan \in Plans /\ ctx \in {"live", "canceled", "deadline"} /\ current \in Nat \ {0}
    /\ cases = [s \in Scenarios |-> cases[s]]
    /\ attempts \in [Scenarios -> Seq(AttemptRecords)]
    /\ refs \subseteq Evidence
    /\ pc = "returned" => reply \in Replies
    /\ pc = "settled" => reply \in ErrorReply /\ failure.reason \in Reasons

\* The loop decides the scenarios in the order of the plan.
LoopInv ==
    /\ \A s \in Scenarios : s < current => CaseFits(cases[s], attempts[s])
    /\ \A s \in Scenarios : s >= current => cases[s] = NoCase /\ NoneCompleted(attempts[s])
    /\ \A s \in Scenarios : s < current /\ cases[s].executed => DependenciesMet(s)
    /\ pc \in Busy => current \in Scenarios /\ DependenciesMet(current)

\* The error is that of a context that has ended, and no cancelled case lacks it.
ErrorInv ==
    /\ executionErr # "none" => executionErr = ctx /\ ctx # "live"
    /\ \A s \in Scenarios : s < current /\ cases[s].status = "cancelled" => executionErr # "none"

\* The inductive invariant.
ExecInv == ExecTyped /\ LoopInv /\ ErrorInv /\ NoStrandedReservation

-----------------------------------------------------------------------------
(* The two kinds of steps.                                                 *)

\* The current scenario is decided: its case is c and its attempts are now as.
Decides(c, as) ==
    /\ current \in Scenarios /\ current' = current + 1
    /\ cases' = [cases EXCEPT ![current] = c]
    /\ attempts' = [attempts EXCEPT ![current] = as]
    /\ as \in Seq(AttemptRecords) /\ CaseFits(c, as)
    /\ c.executed => pc \in Busy
    /\ c.status = "cancelled" => executionErr' # "none"
    /\ executionErr # "none" => executionErr' # "none"
    /\ executionErr' # "none" => executionErr' = ctx /\ ctx # "live"
    /\ pc' = "schedule" /\ refs' = {} /\ UNCHANGED <<plan, ctx>>

\* The loop stays where it is; at most an attempt that did not complete is added.
Stays ==
    /\ UNCHANGED <<plan, cases, current, executionErr>>
    /\ attempts' \in [Scenarios -> Seq(AttemptRecords)]
    /\ \A s \in Scenarios : s < current => attempts'[s] = attempts[s]
    /\ \A s \in Scenarios : s >= current => NoneCompleted(attempts'[s])
    /\ ctx' \in {"live", "canceled", "deadline"} /\ (ctx # "live" => ctx' = ctx)
    /\ refs' \subseteq Evidence
    /\ pc' \in Busy => current \in Scenarios /\ DependenciesMet(current)
    /\ pc' = "returned" => reply' \in Replies
    /\ pc' = "settled" => reply' \in ErrorReply /\ failure'.reason \in Reasons

-----------------------------------------------------------------------------
\* A dependency is an earlier scenario of the plan (validateScenarioDAG).
LEMMA DependencyEarlier ==
  ASSUME ExecTyped, NEW s \in Scenarios, NEW d \in plan.dependsOn[s]
  PROVE  d \in Scenarios /\ d < s
  BY ExecutorConstants DEF ExecTyped, ValidPlan

\* A decision of the current scenario leaves those before it alone.
LEMMA DecisionKeepsEarlier ==
  ASSUME ExecTyped, NEW c, NEW as, Decides(c, as)
  PROVE  /\ current \in Nat /\ cases' = [s \in Scenarios |-> cases'[s]]
         /\ cases'[current] = c /\ attempts'[current] = as
         /\ attempts' \in [Scenarios -> Seq(AttemptRecords)]
         /\ \A s \in Scenarios : s # current => cases'[s] = cases[s] /\ attempts'[s] = attempts[s]
  BY Zenon DEF ExecTyped, Decides

\* A decision preserves the invariant.
LEMMA DecisionPreserves ==
  ASSUME ExecTyped, LoopInv, ErrorInv, NEW c, NEW as, Decides(c, as)
  PROVE  ExecTyped' /\ LoopInv' /\ ErrorInv'
<1>1. /\ current \in Nat /\ current \in Scenarios /\ current' = current + 1
      /\ cases' = [s \in Scenarios |-> cases'[s]]
      /\ cases'[current] = c /\ attempts'[current] = as
      /\ attempts' \in [Scenarios -> Seq(AttemptRecords)]
      /\ \A s \in Scenarios : s # current => cases'[s] = cases[s] /\ attempts'[s] = attempts[s]
  BY DecisionKeepsEarlier, Zenon DEF Decides
<1>2. \A s \in Scenarios : s \in Nat
  BY DEF Scenarios
<1>3. ExecTyped'
  <2>1. /\ plan' \in Plans /\ ctx' \in {"live", "canceled", "deadline"}
        /\ refs' \subseteq Evidence /\ pc' = "schedule"
    BY Zenon DEF ExecTyped, Decides
  <2>2. current' \in Nat \ {0}
    BY <1>1
  <2> QED BY <1>1, <2>1, <2>2, Zenon DEF ExecTyped
<1>4. ASSUME NEW s \in Scenarios, s < current' PROVE s < current \/ s = current
  BY ONLY <1>1, <1>2, <1>4, s \in Scenarios
<1>5. ASSUME NEW s \in Scenarios, s <= current, DependenciesMet(s) PROVE DependenciesMet(s)'
  <2>1. \A d \in plan.dependsOn[s] : cases'[d] = cases[d]
    BY <1>1, <1>2, <1>5, DependencyEarlier
  <2> QED BY <1>5, <2>1 DEF DependenciesMet, Decides
<1>6. LoopInv'
  <2>1. ASSUME NEW s \in Scenarios, s < current' PROVE CaseFits(cases'[s], attempts'[s])
    <3>1. CASE s = current
      BY <1>1, <3>1, Zenon DEF Decides
    <3>2. CASE s # current
      BY <1>1, <1>4, <2>1, <3>2, Zenon DEF LoopInv
    <3> QED BY <3>1, <3>2
  <2>2. ASSUME NEW s \in Scenarios, s >= current'
        PROVE  cases'[s] = NoCase /\ NoneCompleted(attempts'[s])
    <3>1. s >= current /\ s # current
      BY <1>1, <1>2, <2>2
    <3> QED BY <1>1, <3>1 DEF LoopInv
  <2>3. ASSUME NEW s \in Scenarios, s < current', cases'[s].executed
        PROVE  DependenciesMet(s)'
    <3>1. CASE s = current
      <4>1. pc \in Busy
        BY <1>1, <2>3, <3>1 DEF Decides
      <4> QED BY <1>1, <1>5, <3>1, <4>1 DEF LoopInv
    <3>2. CASE s # current
      <4>1. s < current /\ s <= current /\ cases[s].executed
        BY <1>1, <1>2, <1>4, <2>3, <3>2
      <4> QED BY <1>5, <4>1 DEF LoopInv
    <3> QED BY <3>1, <3>2
  <2>4. pc' \notin Busy
    BY DEF Decides, Busy
  <2> QED BY <2>1, <2>2, <2>3, <2>4, Zenon DEF LoopInv
<1>7. ErrorInv'
  <2>1. executionErr' # "none" => executionErr' = ctx' /\ ctx' # "live"
    BY DEF Decides
  <2>2. ASSUME NEW s \in Scenarios, s < current', cases'[s].status = "cancelled"
        PROVE  executionErr' # "none"
    <3>1. CASE s = current
      BY <1>1, <2>2, <3>1, Zenon DEF Decides
    <3>2. CASE s # current
      BY <1>1, <1>4, <2>2, <3>2 DEF ErrorInv, Decides
    <3> QED BY <3>1, <3>2
  <2> QED BY <2>1, <2>2 DEF ErrorInv
<1> QED BY <1>3, <1>6, <1>7

\* So does a step that stays at the scenario.
LEMMA StayingPreserves ==
  ASSUME ExecTyped, LoopInv, ErrorInv, Stays
  PROVE  ExecTyped' /\ LoopInv' /\ ErrorInv'
<1>1. ExecTyped'
  BY DEF ExecTyped, Stays
<1>2. \A s : DependenciesMet(s)' <=> DependenciesMet(s)
  BY DEF DependenciesMet, Stays
<1>3. LoopInv'
  BY <1>2, Zenon DEF LoopInv, Stays
<1>4. ErrorInv'
  BY DEF ErrorInv, Stays
<1> QED BY <1>1, <1>3, <1>4

\* A step that changes neither attempts nor cases stays.
LEMMA QuietStays ==
  ASSUME ExecTyped, LoopInv,
         UNCHANGED <<plan, cases, current, executionErr, attempts, refs>>,
         ctx' \in {"live", "canceled", "deadline"}, ctx # "live" => ctx' = ctx,
         pc' \in Busy => current \in Scenarios /\ DependenciesMet(current),
         pc' = "returned" => reply' \in Replies,
         pc' = "settled" => reply' \in ErrorReply /\ failure'.reason \in Reasons
  PROVE  Stays
  BY DEF Stays, ExecTyped, LoopInv
-----------------------------------------------------------------------------
(* The actions.                                                            *)

\* The positions of a sequence of m elements, and of one with one more.
LEMMA Positions ==
  \A m \in Nat : /\ \A n \in 1..(m + 1) : n \in 1..m \/ n = m + 1
                 /\ \A n \in 1..((m + 1) - 1) : n \in 1..m
                 /\ \A n \in 1..(m - 1) : n \in 1..m
                 /\ m > 0 => m \in 1..m
                 /\ m + 1 > 0
  OBVIOUS

\* What Append does, for the elements of any set.
LEMMA Appending ==
  ASSUME NEW S, NEW seq \in Seq(S), NEW elt \in S
  PROVE  /\ Append(seq, elt) \in Seq(S)
         /\ Len(Append(seq, elt)) = Len(seq) + 1
         /\ \A i \in 1..Len(seq) : Append(seq, elt)[i] = seq[i]
         /\ Append(seq, elt)[Len(seq) + 1] = elt
  BY SMT

\* Attempts with one more at their end.
LEMMA AttemptAdded ==
  ASSUME NEW as \in Seq(AttemptRecords), NoneCompleted(as), NEW a \in AttemptRecords
  PROVE  /\ Append(as, a) \in Seq(AttemptRecords)
         /\ Len(Append(as, a)) > 0 /\ Append(as, a)[Len(Append(as, a))] = a
         /\ \A n \in 1..(Len(Append(as, a)) - 1) : Append(as, a)[n].status # "completed"
         /\ a.status # "completed" => NoneCompleted(Append(as, a))
<1>1. Len(as) \in Nat
  BY LenProperties, Zenon
<1>2. /\ Append(as, a) \in Seq(AttemptRecords)
      /\ Len(Append(as, a)) = Len(as) + 1
      /\ \A i \in 1..Len(as) : Append(as, a)[i] = as[i]
      /\ Append(as, a)[Len(as) + 1] = a
  BY Appending, ZenonT(30)
<1>3. /\ \A n \in 1..(Len(as) + 1) : n \in 1..Len(as) \/ n = Len(as) + 1
      /\ \A n \in 1..((Len(as) + 1) - 1) : n \in 1..Len(as)
      /\ Len(as) + 1 > 0
  BY <1>1, Positions, Zenon
<1>4. \A i \in 1..Len(as) : Append(as, a)[i].status # "completed"
  BY <1>2, Zenon DEF NoneCompleted
<1>5. Len(Append(as, a)) > 0 /\ Append(as, a)[Len(Append(as, a))] = a
  BY <1>2, <1>3, Zenon
<1>6. \A n \in 1..(Len(Append(as, a)) - 1) : Append(as, a)[n].status # "completed"
  BY <1>2, <1>3, <1>4, Zenon
<1>7. a.status # "completed" => NoneCompleted(Append(as, a))
  BY <1>2, <1>3, <1>4, Zenon DEF NoneCompleted
<1> QED BY <1>2, <1>5, <1>6, <1>7, Zenon

\* A case without a verdict fits attempts none of which completed.
LEMMA CaseWithoutVerdict ==
  ASSUME NEW as \in Seq(AttemptRecords), NoneCompleted(as), NEW c,
         c.status \in Statuses \ {"completed"}, c.verdict = "none", c.executed = FALSE
  PROVE  CaseFits(c, as)
<1>1. Len(as) \in Nat
  BY LenProperties, Zenon
<1>2. /\ \A n \in 1..(Len(as) - 1) : n \in 1..Len(as)
      /\ Len(as) > 0 => Len(as) \in 1..Len(as)
  BY <1>1, Positions, Zenon
<1> QED BY <1>2, Zenon DEF CaseFits, NoneCompleted, Verdicts

\* What the invariant says of the attempts of a scenario that is not decided.
LEMMA CurrentAttempts ==
  ASSUME ExecTyped, LoopInv, current \in Scenarios
  PROVE  attempts[current] \in Seq(AttemptRecords) /\ NoneCompleted(attempts[current])
<1>1. current >= current
  BY DEF ExecTyped
<1> QED BY <1>1 DEF ExecTyped, LoopInv

\* The top of the loop is at a scenario of the plan.
LEMMA AtScenario ==
  ASSUME ExecTyped, AtLoop
  PROVE  current \in Scenarios
  BY ExecutorConstants DEF ExecTyped, AtLoop, Scenarios

\* A decision without a verdict: the attempts are left alone, or one is added that
\* did not complete.
LEMMA DecidedWithoutVerdict ==
  ASSUME ExecTyped, LoopInv, ErrorInv, current \in Scenarios, NEW c, Decide(c),
         c.status \in Statuses \ {"completed"}, c.verdict = "none", c.executed = FALSE,
         \/ UNCHANGED attempts
         \/ \E a \in AttemptRecords : a.status # "completed" /\ Record(a),
         \/ executionErr' = executionErr /\ c.status # "cancelled"
         \/ executionErr' = ctx /\ ctx # "live",
         UNCHANGED <<plan, ctx>>
  PROVE  \E as : Decides(c, as)
<1>1. attempts[current] \in Seq(AttemptRecords) /\ NoneCompleted(attempts[current])
  BY CurrentAttempts
<1>2. /\ c.status = "cancelled" => executionErr' # "none"
      /\ executionErr # "none" => executionErr' # "none"
      /\ executionErr' # "none" => executionErr' = ctx /\ ctx # "live"
  BY DEF ExecTyped, ErrorInv
<1>3. ASSUME NEW as \in Seq(AttemptRecords), NoneCompleted(as),
             attempts' = [attempts EXCEPT ![current] = as]
      PROVE  Decides(c, as)
  <2>1. CaseFits(c, as)
    BY <1>3, CaseWithoutVerdict, Zenon
  <2> QED BY <1>2, <1>3, <2>1, Zenon DEF Decides, Decide
<1>4. CASE UNCHANGED attempts
  <2>1. attempts' = [attempts EXCEPT ![current] = attempts[current]]
    BY <1>4 DEF ExecTyped
  <2> QED BY <1>1, <1>3, <2>1, Zenon
<1>5. ASSUME NEW a \in AttemptRecords, a.status # "completed", Record(a)
      PROVE  \E as : Decides(c, as)
  <2>1. /\ Append(attempts[current], a) \in Seq(AttemptRecords)
        /\ NoneCompleted(Append(attempts[current], a))
    BY <1>1, <1>5, AttemptAdded
  <2>2. attempts' = [attempts EXCEPT ![current] = Append(attempts[current], a)]
    BY <1>5 DEF Record
  <2> QED BY <1>3, <2>1, <2>2, ZenonT(40)
<1> QED BY <1>4, <1>5

\* The reservation is unaffected by a step that leaves the ledger's reservations
\* alone and neither enters nor leaves Runner.Run.
LEMMA NoReservationStep ==
  ASSUME NoStrandedReservation, UNCHANGED <<open, nextID>>,
         pc' \in {"running", "returned"} <=> pc \in {"running", "returned"}
  PROVE  NoStrandedReservation'
  BY DEF NoStrandedReservation

\* Closing the reservation of the current attempt.
LEMMA ClosingStep ==
  ASSUME NoStrandedReservation, pc = "returned", NEW actual, Commit(nextID, actual),
         pc' \notin {"running", "returned"}
  PROVE  NoStrandedReservation'
<1>1. open = {nextID}
  BY DEF NoStrandedReservation
<1>2. open' = {}
  BY <1>1 DEF Commit
<1> QED BY <1>2 DEF NoStrandedReservation

\* The record of an attempt that made no request or failed.
LEMMA FailedAttempt ==
  ASSUME NEW status \in Statuses \ {"completed"}, NEW reason \in Reasons,
         NEW evidence \in SUBSET Evidence, NEW unknown \in SUBSET TokenFields
  PROVE  /\ Attempt(status, reason, evidence, unknown) \in AttemptRecords
         /\ Attempt(status, reason, evidence, unknown).status # "completed"
  BY DEF Attempt, AttemptRecords

\* The case of attempts none of which completed.
LEMMA FailedCase ==
  ASSUME NEW status \in Statuses \ {"completed"}, NEW ids, NEW reason, NEW evidence
  PROVE  LET c == CaseForAttempts(ids, status, "none", reason, evidence)
         IN  /\ c.status = status /\ c.status \in Statuses \ {"completed"}
             /\ c.verdict = "none" /\ c.executed = FALSE
  BY Zenon DEF CaseForAttempts

\* nonRunAttempt decides the scenario.
LEMMA NonRunDecides ==
  ASSUME ExecTyped, LoopInv, ErrorInv, current \in Scenarios,
         NEW status \in Statuses \ {"completed"}, NEW reason \in Reasons,
         NonRun(status, reason),
         \/ executionErr' = executionErr /\ status # "cancelled"
         \/ executionErr' = ctx /\ ctx # "live",
         UNCHANGED <<plan, ctx>>
  PROVE  \E c, as : Decides(c, as)
<1> DEFINE c == CaseForAttempts(1, status, "none", reason, {})
           a == Attempt(status, reason, {}, {})
<1>1. /\ c.status = status /\ c.status \in Statuses \ {"completed"}
      /\ c.verdict = "none" /\ c.executed = FALSE
  BY FailedCase, Zenon
<1>2. a \in AttemptRecords /\ a.status # "completed"
  BY FailedAttempt
<1>3. Record(a) /\ Decide(c)
  BY DEF NonRun
<1> HIDE DEF a, c
<1> QED BY <1>1, <1>2, <1>3, DecidedWithoutVerdict, Zenon

\* So does plannedOnlyCase.
LEMMA PlannedOnlyDecides ==
  ASSUME ExecTyped, LoopInv, ErrorInv, current \in Scenarios, PlannedOnly,
         \/ executionErr' = executionErr
         \/ executionErr' = ctx /\ ctx # "live",
         UNCHANGED <<plan, ctx>>
  PROVE  \E c, as : Decides(c, as)
<1> DEFINE c == PlannedOnlyCase(current)
<1>1. /\ c.status = "skipped" /\ c.verdict = "none" /\ c.executed = FALSE
  BY DEF PlannedOnlyCase
<1>2. c.status \in Statuses \ {"completed"} /\ c.status # "cancelled"
  BY <1>1 DEF Statuses
<1>3. UNCHANGED attempts /\ Decide(c)
  BY DEF PlannedOnly
<1> HIDE DEF c
<1> QED BY <1>1, <1>2, <1>3, DecidedWithoutVerdict, ZenonT(40)

\* What the provers need of the invariant's first three parts, at a decision.
LEMMA DecisionStep ==
  ASSUME ExecInv, \E c, as : Decides(c, as), NoStrandedReservation'
  PROVE  ExecInv'
  BY DecisionPreserves, Zenon DEF ExecInv

\* And at a step that stays.
LEMMA StayingStep ==
  ASSUME ExecInv, Stays, NoStrandedReservation'
  PROVE  ExecInv'
  BY StayingPreserves, Zenon DEF ExecInv

\* The statuses and reasons the executor uses are those of the schema.
LEMMA Vocabulary ==
  /\ {"errored", "cancelled", "skipped"} \subseteq Statuses \ {"completed"}
  /\ {"outcome", "budget_exhausted", "harness_error", "driver_error"} \subseteq Reasons
  /\ \A err : ContextReason(err) \in Reasons
  /\ \A class : ClassReason(class) \in Reasons
<1>1. \A err : ContextReason(err) \in Reasons
  BY Zenon DEF ContextReason, Reasons
<1>2. \A class : ClassReason(class) \in Reasons
  BY DEF ClassReason, Reasons
<1>3. {"errored", "cancelled", "skipped"} \subseteq Statuses \ {"completed"}
  BY DEF Statuses
<1>4. {"outcome", "budget_exhausted", "harness_error", "driver_error"} \subseteq Reasons
  BY DEF Reasons
<1> QED BY <1>1, <1>2, <1>3, <1>4

\* The top of the loop decides scenarios that are not run.
LEMMA LoopDecides ==
  ASSUME ExecInv, CancelRemaining \/ NotExecuted \/ SkipDependent \/ CannotStart
  PROVE  ExecInv'
<1> USE DEF ExecInv
<1>1. current \in Scenarios
  BY AtScenario, Zenon DEF CancelRemaining, NotExecuted, SkipDependent, CannotStart, Runnable
<1>2. NoStrandedReservation'
  <2>1. pc = "schedule" /\ pc' = "schedule"
    BY Zenon DEF CancelRemaining, NotExecuted, SkipDependent, CannotStart, Runnable, AtLoop,
                 NonRun, PlannedOnly, Decide
  <2>2. UNCHANGED <<open, nextID>>
    BY Zenon DEF CancelRemaining, NotExecuted, SkipDependent, CannotStart, budgetVars
  <2> QED BY <2>1, <2>2, NoReservationStep
<1>3. CASE CancelRemaining
  <2>1. executionErr' = ctx /\ ctx # "live" /\ UNCHANGED <<plan, ctx>>
    BY <1>3 DEF CancelRemaining
  <2>2. CASE NonRun("cancelled", ContextReason(ctx))
    <3>1. \E c, as : Decides(c, as)
      BY <1>1, <2>1, <2>2, Vocabulary, NonRunDecides, Zenon
    <3> QED BY <1>2, <3>1, DecisionStep, Zenon
  <2>3. CASE PlannedOnly
    <3>1. \E c, as : Decides(c, as)
      BY <1>1, <2>1, <2>3, PlannedOnlyDecides, ZenonT(40)
    <3> QED BY <1>2, <3>1, DecisionStep, Zenon
  <2> QED BY <1>3, <2>2, <2>3, Zenon DEF CancelRemaining
<1>4. CASE NotExecuted
  <2>1. PlannedOnly /\ executionErr' = executionErr /\ UNCHANGED <<plan, ctx>>
    BY <1>4 DEF NotExecuted
  <2>2. \E c, as : Decides(c, as)
    BY <1>1, <2>1, PlannedOnlyDecides, Zenon
  <2> QED BY <1>2, <2>2, DecisionStep, Zenon
<1>5. CASE SkipDependent \/ CannotStart
  <2>1. /\ executionErr' = executionErr /\ UNCHANGED <<plan, ctx>>
        /\ \/ NonRun("skipped", "harness_error")
           \/ NonRun("errored", "driver_error")
           \/ NonRun("errored", "harness_error")
    BY <1>5, Zenon DEF SkipDependent, CannotStart
  <2>2. "skipped" # "cancelled" /\ "errored" # "cancelled"
    OBVIOUS
  <2>3. \E c, as : Decides(c, as)
    BY <1>1, <2>1, <2>2, Vocabulary, NonRunDecides, Zenon
  <2> QED BY <1>2, <2>3, DecisionStep, Zenon
<1> QED BY <1>3, <1>4, <1>5

\* An attempt that ends before the runner is called decides the scenario.
LEMMA AttemptDecides ==
  ASSUME ExecInv, AttemptWithoutID \/ EstimateFails \/ ReserveFails
  PROVE  ExecInv'
<1> USE DEF ExecInv
<1>1. pc = "attempt" /\ current \in Scenarios
  BY DEF AttemptWithoutID, EstimateFails, ReserveFails, LoopInv, Busy
<1>2. executionErr' = executionErr /\ UNCHANGED <<plan, ctx>>
  BY Zenon DEF AttemptWithoutID, EstimateFails, ReserveFails
<1>3. NoStrandedReservation'
  <2>1. pc' = "schedule"
    BY Zenon DEF AttemptWithoutID, EstimateFails, ReserveFails, Decide
  <2>2. UNCHANGED <<open, nextID>>
    BY Zenon DEF AttemptWithoutID, EstimateFails, ReserveFails, Refuse, budgetVars
  <2> QED BY <1>1, <2>1, <2>2, NoReservationStep
<1>4. CASE AttemptWithoutID
  <2> DEFINE c == CaseForAttempts(Len(attempts[current]), "errored", "none", "harness_error", {})
  <2>1. /\ c.status = "errored" /\ c.status \in Statuses \ {"completed"}
        /\ c.verdict = "none" /\ c.executed = FALSE
    BY Zenon DEF CaseForAttempts, Statuses
  <2>2. UNCHANGED attempts /\ Decide(c) /\ "errored" # "cancelled"
    BY <1>4 DEF AttemptWithoutID
  <2> HIDE DEF c
  <2>3. \E as : Decides(c, as)
    BY <1>1, <1>2, <2>1, <2>2, DecidedWithoutVerdict, Zenon
  <2> QED BY <1>3, <2>3, DecisionStep, Zenon
<1>5. ASSUME NEW status \in {"errored", "skipped"}, NEW reason \in Reasons,
             Record(Attempt(status, reason, {}, {})),
             Decide(CaseForAttempts(number, status, "none", reason, {}))
      PROVE  ExecInv'
  <2> DEFINE c == CaseForAttempts(number, status, "none", reason, {})
             a == Attempt(status, reason, {}, {})
  <2>1. status \in Statuses \ {"completed"} /\ status # "cancelled"
    BY DEF Statuses
  <2>2. /\ c.status = status /\ c.status \in Statuses \ {"completed"}
        /\ c.verdict = "none" /\ c.executed = FALSE
    BY <2>1, FailedCase, Zenon
  <2>3. a \in AttemptRecords /\ a.status # "completed"
    BY <2>1, FailedAttempt
  <2>4. Record(a) /\ Decide(c)
    BY <1>5
  <2> HIDE DEF a, c
  <2>5. \E as : Decides(c, as)
    BY <1>1, <1>2, <2>1, <2>2, <2>3, <2>4, DecidedWithoutVerdict, Zenon
  <2> QED BY <1>3, <2>5, DecisionStep, Zenon
<1>6. CASE EstimateFails
  BY <1>5, <1>6, Vocabulary, Zenon DEF EstimateFails
<1>7. CASE ReserveFails
  BY <1>5, <1>7, Vocabulary, Zenon DEF ReserveFails
<1> QED BY <1>4, <1>6, <1>7, Zenon

\* What kind of reply the runner returned.
LEMMA ReplyKinds ==
  ASSUME NEW r \in Replies
  PROVE  /\ r.kind = "outcome" => r \in OutcomeReply
         /\ r.kind = "invalid" => r \in InvalidReply
         /\ r.kind = "error" => r \in ErrorReply
<1>1. r \in OutcomeReply \/ r \in InvalidReply \/ r \in ErrorReply
  BY ExecutorConstants, Zenon
<1>2. /\ r \in OutcomeReply => r.kind = "outcome"
      /\ r \in InvalidReply => r.kind = "invalid"
      /\ r \in ErrorReply => r.kind = "error"
  BY DEF OutcomeReply, InvalidReply, ErrorReply
<1> QED BY <1>1, <1>2

\* What runScenario keeps of a failed attempt.
LEMMA KeptFromFailure ==
  ASSUME NEW r \in ErrorReply
  PROVE  /\ KeptEvidence(r) \in SUBSET Evidence
         /\ UnknownUsage(r) \in SUBSET TokenFields
         /\ \A err : ReasonForError(err, r).reason \in Reasons
<1>1. r.evidence \in SUBSET Evidence /\ r.unknown \in SUBSET TokenFields
  BY DEF ErrorReply
<1>2. KeptEvidence(r) \in SUBSET Evidence
  BY <1>1 DEF KeptEvidence
<1>3. UnknownUsage(r) \in SUBSET TokenFields
  BY <1>1 DEF UnknownUsage
<1>4. ASSUME NEW err PROVE ReasonForError(err, r).reason \in Reasons
  <2>1. "harness_error" \in Reasons
    BY Vocabulary
  <2>2. CASE err # "live"
    BY <2>2, Vocabulary DEF ReasonForError
  <2>3. CASE err = "live" /\ ErrorCause(r) # "none"
    BY <2>3, Vocabulary DEF ReasonForError
  <2>4. CASE err = "live" /\ ErrorCause(r) = "none" /\ ErrorClass(r) = "untyped"
    BY <2>1, <2>4 DEF ReasonForError
  <2>5. CASE err = "live" /\ ErrorCause(r) = "none" /\ ErrorClass(r) # "untyped"
    BY <2>5, Vocabulary DEF ReasonForError
  <2> QED BY <2>2, <2>3, <2>4, <2>5, Zenon
<1> QED BY <1>2, <1>3, <1>4

\* The one decision with a verdict: the attempt that completed is the last, and its
\* evidence is the case's.
LEMMA OutcomeDecides ==
  ASSUME ExecInv, SettleOutcome
  PROVE  ExecInv'
<1> USE DEF ExecInv
<1>1. pc = "returned" /\ pc \in Busy /\ current \in Scenarios /\ reply \in OutcomeReply
  BY ReplyKinds DEF SettleOutcome, LoopInv, Busy, ExecTyped
<1>2. PICK reason : Decide(CaseForAttempts(number, "completed", reply.verdict, reason,
                                           refs \union reply.evidence))
  BY Zenon DEF SettleOutcome
<1> DEFINE c == CaseForAttempts(number, "completed", reply.verdict, reason,
                                refs \union reply.evidence)
           a == Attempt("completed", "outcome", reply.evidence, reply.unknown)
           as == Append(attempts[current], a)
<1>3. /\ reply.verdict \in Verdicts /\ reply.evidence \in SUBSET Evidence
      /\ reply.evidence # {} /\ reply.unknown \in SUBSET TokenFields
  BY <1>1 DEF OutcomeReply
<1>4. /\ a.status = "completed" /\ a.evidence = reply.evidence
      /\ c.status = "completed" /\ c.executed = TRUE /\ c.verdict = reply.verdict
      /\ c.evidence = refs \union reply.evidence
  BY Zenon DEF Attempt, CaseForAttempts
<1>5. a \in AttemptRecords
  BY <1>3 DEF Attempt, AttemptRecords, Statuses, Reasons
<1>6. /\ Record(a) /\ Decide(c) /\ UNCHANGED <<plan, ctx, executionErr>>
      /\ \E actual : Commit(nextID, actual)
  BY <1>2, Zenon DEF SettleOutcome
<1> HIDE DEF a, c
<1>7. /\ as \in Seq(AttemptRecords) /\ Len(as) > 0 /\ as[Len(as)] = a
      /\ \A n \in 1..(Len(as) - 1) : as[n].status # "completed"
  BY <1>1, <1>5, CurrentAttempts, AttemptAdded, Zenon
<1>8. attempts' = [attempts EXCEPT ![current] = as]
  BY <1>6, Zenon DEF Record
<1> HIDE DEF as
<1>9. c.status \in Statuses /\ c.verdict \in Verdicts /\ c.verdict # "none"
  BY <1>3, <1>4, Zenon DEF Statuses, Verdicts
<1>10. a.evidence # {} /\ a.evidence \subseteq c.evidence
  BY <1>3, <1>4
<1>11. CaseFits(c, as)
  BY <1>4, <1>7, <1>9, <1>10, Zenon DEF CaseFits
<1>12. c.status # "cancelled" /\ (executionErr # "none" => executionErr = ctx /\ ctx # "live")
  BY <1>4 DEF ErrorInv
<1>13. Decides(c, as)
  BY <1>1, <1>6, <1>7, <1>8, <1>11, <1>12, Zenon DEF Decides, Decide
<1>14. pc' = "schedule"
  BY <1>6 DEF Decide
<1>15. NoStrandedReservation'
  BY <1>1, <1>6, <1>14, ClosingStep
<1> QED BY <1>13, <1>15, DecisionStep, Zenon

\* A reply that is no outcome decides without a verdict, once it is not retried.
LEMMA FailureDecides ==
  ASSUME ExecInv, SettleInvalid \/ GiveUp
  PROVE  ExecInv'
<1> USE DEF ExecInv
<1>1. /\ current \in Scenarios /\ pc \in {"returned", "settled"} /\ UNCHANGED <<plan, ctx>>
  BY Zenon DEF SettleInvalid, GiveUp, RecordFailure, LoopInv, Busy
<1>2. PICK status, reason, evidence, unknown, kept :
        /\ status \in Statuses \ {"completed"} /\ reason \in Reasons
        /\ evidence \in SUBSET Evidence /\ unknown \in SUBSET TokenFields
        /\ Record(Attempt(status, reason, evidence, unknown))
        /\ Decide(CaseForAttempts(number, status, "none", reason, kept))
        /\ \/ executionErr' = executionErr /\ status # "cancelled"
           \/ executionErr' = ctx /\ ctx # "live"
  <2>1. CASE SettleInvalid
    <3>1. reply \in InvalidReply
      BY <2>1, ReplyKinds DEF SettleInvalid, ExecTyped
    <3>2. reply.evidence \in SUBSET Evidence /\ TokenFields \in SUBSET TokenFields
      BY <3>1 DEF InvalidReply
    <3>3. "errored" \in Statuses \ {"completed"} /\ "harness_error" \in Reasons
      BY Vocabulary
    <3>4. "errored" # "cancelled"
      OBVIOUS
    <3> QED BY <2>1, <3>2, <3>3, <3>4, Zenon DEF SettleInvalid
  <2>2. CASE GiveUp
    <3>1. /\ KeptEvidence(reply) \in SUBSET Evidence /\ UnknownUsage(reply) \in SUBSET TokenFields
          /\ failure.reason \in Reasons
      BY <2>2, KeptFromFailure DEF GiveUp, RecordFailure, ExecTyped
    <3>2. FailedStatus \in Statuses \ {"completed"}
      BY DEF FailedStatus, Statuses
    <3>3. \/ executionErr' = executionErr /\ FailedStatus # "cancelled"
          \/ executionErr' = ctx /\ ctx # "live"
      BY <2>2 DEF GiveUp, FailedStatus
    <3> QED BY <2>2, <3>1, <3>2, <3>3, ZenonT(40) DEF GiveUp, RecordFailure
  <2> QED BY <2>1, <2>2
<1> DEFINE c == CaseForAttempts(number, status, "none", reason, kept)
           a == Attempt(status, reason, evidence, unknown)
<1>3. /\ c.status = status /\ c.status \in Statuses \ {"completed"}
      /\ c.verdict = "none" /\ c.executed = FALSE
  BY <1>2, FailedCase, Zenon
<1>4. a \in AttemptRecords /\ a.status # "completed"
  BY <1>2, FailedAttempt
<1>5. Record(a) /\ Decide(c)
  BY <1>2
<1> HIDE DEF a, c
<1>6. \E as : Decides(c, as)
  BY <1>1, <1>2, <1>3, <1>4, <1>5, DecidedWithoutVerdict, Zenon
<1>7. pc' = "schedule"
  BY <1>5 DEF Decide
<1>8. NoStrandedReservation'
  <2>1. CASE SettleInvalid
    BY <1>7, <2>1, ClosingStep, Zenon DEF SettleInvalid
  <2>2. CASE GiveUp
    <3>1. pc = "settled" /\ UNCHANGED <<open, nextID>>
      BY <2>2 DEF GiveUp, RecordFailure, budgetVars
    <3> QED BY <1>7, <3>1, NoReservationStep, Zenon
  <2> QED BY <2>1, <2>2, Zenon
<1> QED BY <1>6, <1>8, DecisionStep, Zenon

\* Starting a scenario: its dependencies have passed, because each is an earlier
\* scenario, decided, and completed cases have a verdict.
LEMMA StartStays ==
  ASSUME ExecInv, Start
  PROVE  ExecInv'
<1> USE DEF ExecInv
<1>1. current \in Scenarios
  BY AtScenario, Zenon DEF Start, Runnable
<1>2. DependenciesMet(current)
  <2>1. plan.disposition[current] = "execute" /\ ~FailedDependency(current)
    BY Zenon DEF Start, Runnable
  <2>2. ASSUME NEW d \in plan.dependsOn[current]
        PROVE  cases[d].executed /\ cases[d].verdict \in {"pass", "warn"}
    <3>1. d \in Scenarios /\ d < current
      BY <1>1, DependencyEarlier, Zenon
    <3>2. CaseFits(cases[d], attempts[d])
      BY <3>1, Zenon DEF LoopInv
    <3>3. cases[d].status = "completed" /\ cases[d].verdict \notin {"fail", "inconclusive"}
      BY <2>1 DEF FailedDependency
    <3>4. /\ cases[d].executed /\ cases[d].verdict # "none"
          /\ cases[d].verdict \in Verdicts \union {"none"}
      BY <3>2, <3>3, Zenon DEF CaseFits
    <3> QED BY <3>3, <3>4 DEF Verdicts
  <2> QED BY <2>1, <2>2, Zenon DEF DependenciesMet
<1>3. pc = "schedule" /\ pc' = "attempt" /\ UNCHANGED <<open, nextID>>
  BY DEF Start, Runnable, AtLoop, budgetVars
<1>4. Stays
  <2>1. UNCHANGED <<plan, cases, current, executionErr, attempts, refs, ctx>>
    BY Zenon DEF Start
  <2>2. ctx' \in {"live", "canceled", "deadline"}
    BY <2>1 DEF ExecTyped
  <2> QED BY <1>1, <1>2, <1>3, <2>1, <2>2, QuietStays, Zenon
<1>5. NoStrandedReservation'
  BY <1>3, NoReservationStep
<1> QED BY <1>4, <1>5, StayingStep, ZenonT(40)

\* The steps of an attempt up to the runner's return.
LEMMA AttemptStays ==
  ASSUME ExecInv, Reserve \/ \E r \in Replies : RunReturns(r)
  PROVE  ExecInv'
<1> USE DEF ExecInv
<1>1. /\ UNCHANGED <<plan, cases, current, executionErr, attempts, refs, ctx>>
      /\ pc \in {"attempt", "running"} /\ pc' \in {"running", "returned"}
      /\ pc' = "returned" => reply' \in Replies
  BY DEF Reserve, RunReturns
<1>2. ctx' \in {"live", "canceled", "deadline"}
  BY <1>1 DEF ExecTyped
<1>3. current \in Scenarios /\ DependenciesMet(current)
  BY <1>1 DEF LoopInv, Busy
<1>4. pc' # "settled"
  BY <1>1
<1>5. Stays
  BY <1>1, <1>2, <1>3, <1>4, QuietStays, Zenon
<1>6. NoStrandedReservation'
  <2>1. CASE Reserve
    <3>1. open = {} /\ pc' = "running"
      BY <2>1 DEF Reserve, NoStrandedReservation
    <3>2. open' = open \union {nextID + 1} /\ nextID' = nextID + 1
      BY <2>1, Zenon DEF Reserve, Grant
    <3>3. open' = {nextID'}
      BY <3>1, <3>2
    <3> QED BY <3>1, <3>3, Zenon DEF NoStrandedReservation
  <2>2. CASE \E r \in Replies : RunReturns(r)
    <3>1. pc = "running" /\ pc' = "returned" /\ UNCHANGED <<open, nextID>>
      BY <2>2, Zenon DEF RunReturns, budgetVars
    <3> QED BY <3>1, NoReservationStep, Zenon
  <2> QED BY <2>1, <2>2
<1> QED BY <1>5, <1>6, StayingStep, Zenon

\* A failed attempt is settled: the reservation is closed whatever the error.
LEMMA SettleErrorStays ==
  ASSUME ExecInv, SettleError
  PROVE  ExecInv'
<1> USE DEF ExecInv
<1>1. /\ pc = "returned" /\ pc' = "settled" /\ reply' = reply
      /\ UNCHANGED <<plan, cases, current, executionErr, attempts, ctx>>
      /\ refs' = refs \union KeptEvidence(reply) /\ failure' = ReasonForError(ctx, reply)
  BY Zenon DEF SettleError
<1>2. reply \in ErrorReply
  BY <1>1, ReplyKinds DEF SettleError, ExecTyped
<1>3. /\ KeptEvidence(reply) \in SUBSET Evidence
      /\ ReasonForError(ctx, reply).reason \in Reasons
  BY <1>2, KeptFromFailure, Zenon
<1>4. current \in Scenarios /\ DependenciesMet(current)
  BY <1>1 DEF LoopInv, Busy
<1>5. refs' \subseteq Evidence
  BY <1>1, <1>3, Zenon DEF ExecTyped
<1>6. Stays
  BY <1>1, <1>2, <1>3, <1>4, <1>5, Zenon DEF Stays, ExecTyped, LoopInv
<1>7. PICK actual : Commit(nextID, actual)
  BY Zenon DEF SettleError
<1>8. NoStrandedReservation'
  BY <1>1, <1>7, ClosingStep, Zenon
<1> QED BY <1>6, <1>8, StayingStep, Zenon

\* A retry keeps the failed attempt, which did not complete.
LEMMA RetryStays ==
  ASSUME ExecInv, Retry
  PROVE  ExecInv'
<1> USE DEF ExecInv
<1>1. /\ pc = "settled" /\ pc' = "attempt"
      /\ UNCHANGED <<plan, cases, current, executionErr, ctx, refs, open, nextID>>
  BY DEF Retry, RecordFailure, budgetVars
<1>2. current \in Scenarios /\ DependenciesMet(current)
  BY <1>1 DEF LoopInv, Busy
<1> DEFINE a == Attempt(FailedStatus, failure.reason, KeptEvidence(reply), UnknownUsage(reply))
           as == Append(attempts[current], a)
<1>3. FailedStatus \in Statuses \ {"completed"}
  BY Zenon DEF FailedStatus, Statuses
<1>4. a \in AttemptRecords /\ a.status # "completed"
  BY <1>1, <1>3, KeptFromFailure, FailedAttempt, Zenon DEF ExecTyped
<1>5. Record(a)
  BY DEF Retry, RecordFailure
<1> HIDE DEF a
<1>6. as \in Seq(AttemptRecords) /\ NoneCompleted(as)
  BY <1>2, <1>4, CurrentAttempts, AttemptAdded, Zenon
<1>7. attempts' = [attempts EXCEPT ![current] = as]
  BY <1>5 DEF Record
<1> HIDE DEF as
<1>8. /\ attempts' \in [Scenarios -> Seq(AttemptRecords)] /\ attempts'[current] = as
      /\ \A s \in Scenarios : s # current => attempts'[s] = attempts[s]
  BY <1>2, <1>6, <1>7, Zenon DEF ExecTyped
<1>9. ASSUME NEW s \in Scenarios, s < current PROVE attempts'[s] = attempts[s]
  <2>1. s # current
    BY <1>9 DEF ExecTyped, Scenarios
  <2> QED BY <1>8, <2>1, Zenon
<1>10. ASSUME NEW s \in Scenarios, s >= current PROVE NoneCompleted(attempts'[s])
  BY <1>6, <1>8, <1>10, Zenon DEF LoopInv
<1>11. pc' # "returned" /\ pc' # "settled"
  BY <1>1
<1>12. Stays
  BY <1>1, <1>2, <1>8, <1>9, <1>10, <1>11, Zenon DEF Stays, ExecTyped
<1>13. NoStrandedReservation'
  BY <1>1, NoReservationStep
<1> QED BY <1>12, <1>13, StayingStep, Zenon

\* Before the first scenario and after the last no attempt is under way.
LEMMA OutsideStays ==
  ASSUME ExecInv, Begin \/ StartFinalizing \/ FinalizeFails \/ FinalizeReturns \/ Finish
  PROVE  ExecInv'
<1> USE DEF ExecInv
<1>1. UNCHANGED <<plan, cases, current, executionErr, attempts, refs, ctx>>
  BY Zenon DEF Begin, StartFinalizing, FinalizeFails, FinalizeReturns, Finish
<1>2. /\ pc \in {"start", "schedule", "finalize"}
      /\ pc' \in {"schedule", "failed", "finalize", "finished"}
  BY DEF Begin, StartFinalizing, FinalizeFails, FinalizeReturns, Finish
<1>3. UNCHANGED <<open, nextID>>
  BY Zenon DEF Begin, StartFinalizing, FinalizeFails, FinalizeReturns, Finish, ConsumeCleanup,
               Snapshot, budgetVars
<1>4. ctx' \in {"live", "canceled", "deadline"}
  BY <1>1 DEF ExecTyped
<1>5. pc' \notin Busy /\ pc' # "returned" /\ pc' # "settled"
  BY <1>2 DEF Busy
<1>6. Stays
  BY <1>1, <1>4, <1>5, QuietStays, Zenon
<1>7. NoStrandedReservation'
  BY <1>2, <1>3, NoReservationStep
<1> QED BY <1>6, <1>7, StayingStep, Zenon

\* The context may end and time may pass at any moment.
LEMMA SurroundingsStay ==
  ASSUME ExecInv, ContextDone \/ TimePasses \/ UNCHANGED <<budgetVars, execVars>>
  PROVE  ExecInv'
<1> USE DEF ExecInv
<1>1. UNCHANGED <<plan, pc, reply, failure, cases, current, executionErr, attempts, refs>>
  BY Zenon DEF ContextDone, TimePasses, execVars
<1>2. UNCHANGED <<open, nextID>>
  BY Zenon DEF ContextDone, TimePasses, Tick, ledgerVars, budgetVars
<1>3. ctx' \in {"live", "canceled", "deadline"} /\ (ctx # "live" => ctx' = ctx)
  BY DEF ContextDone, TimePasses, execVars, ExecTyped
<1>4. pc' \in Busy => current \in Scenarios /\ DependenciesMet(current)
  BY <1>1 DEF LoopInv
<1>5. /\ pc' = "returned" => reply' \in Replies
      /\ pc' = "settled" => reply' \in ErrorReply /\ failure'.reason \in Reasons
  BY <1>1, Zenon DEF ExecTyped
<1>6. Stays
  BY <1>1, <1>3, <1>4, <1>5, QuietStays, Zenon
<1>7. NoStrandedReservation'
  BY <1>1, <1>2, NoReservationStep
<1> QED BY <1>6, <1>7, StayingStep, Zenon

-----------------------------------------------------------------------------
\* The invariant holds before the first scenario.
LEMMA ExecInvInit ==
  ExecInit => ExecInv
<1> SUFFICES ASSUME ExecInit PROVE ExecInv
  OBVIOUS
<1>1. /\ pc = "start" /\ ctx = "live" /\ current = 1 /\ refs = {} /\ plan \in Plans
      /\ executionErr = "none" /\ open = {}
      /\ attempts = [s \in Scenarios |-> <<>>] /\ cases = [s \in Scenarios |-> NoCase]
  BY Zenon DEF ExecInit, BudgetInit
<1>2. <<>> \in Seq(AttemptRecords) /\ NoneCompleted(<<>>)
  BY DEF NoneCompleted
<1>3. \A s \in Scenarios : attempts[s] = <<>> /\ cases[s] = NoCase /\ ~(s < current)
  BY ONLY <1>1 DEF Scenarios
<1>4. ExecTyped
  <2>1. attempts \in [Scenarios -> Seq(AttemptRecords)]
    BY <1>1, <1>2
  <2>2. cases = [s \in Scenarios |-> cases[s]]
    BY <1>1, Zenon
  <2> QED BY <1>1, <2>1, <2>2 DEF ExecTyped
<1>5. LoopInv
  BY <1>1, <1>2, <1>3, Zenon DEF LoopInv, Busy
<1>6. ErrorInv
  BY <1>1, <1>3 DEF ErrorInv
<1>7. NoStrandedReservation
  BY <1>1 DEF NoStrandedReservation
<1> QED BY <1>4, <1>5, <1>6, <1>7 DEF ExecInv

\* Every step of the executor and of its surroundings preserves it.
LEMMA ExecInvNext ==
  ExecInv /\ [ExecNext]_<<budgetVars, execVars>> => ExecInv'
<1> SUFFICES ASSUME ExecInv, [ExecNext]_<<budgetVars, execVars>> PROVE ExecInv'
  OBVIOUS
<1>1. CASE ExecStep
  BY <1>1, LoopDecides, AttemptDecides, OutcomeDecides, FailureDecides, StartStays, AttemptStays,
     SettleErrorStays, RetryStays, OutsideStays, Zenon DEF ExecStep
<1>2. CASE \E r \in Replies : RunReturns(r)
  BY <1>2, AttemptStays, Zenon
<1>3. CASE ContextDone \/ TimePasses \/ UNCHANGED <<budgetVars, execVars>>
  BY <1>3, SurroundingsStay, Zenon
<1> QED BY <1>1, <1>2, <1>3, Zenon DEF ExecNext

\* So it always holds.
LEMMA ExecInvAlways ==
  ExecSpec => []ExecInv
<1> QED BY ExecInvInit, ExecInvNext, PTL DEF ExecSpec

\* A decided scenario is an earlier one.
LEMMA DecidedEarlier ==
  ASSUME ExecInv, NEW s \in Scenarios, Decided(s)
  PROVE  s < current
<1>1. ~(s >= current)
  BY DEF ExecInv, LoopInv, Decided
<1> QED BY <1>1 DEF ExecInv, ExecTyped, Scenarios

\* Whichever way an attempt ends (an outcome, a malformed one, an error, a retry, a
\* context that ended under it), its reservation is closed before anything else
\* of the run happens.
THEOREM ReservationsAreClosed ==
  ExecSpec => []NoStrandedReservation
<1>1. ExecInv => NoStrandedReservation
  BY Zenon DEF ExecInv
<1> QED BY <1>1, ExecInvAlways, PTL

\* A case has a verdict exactly when its last attempt completed with evidence: no
\* failure of the harness, the driver, the budget or the context yields a verdict.
THEOREM VerdictsComeFromOutcomes ==
  ExecSpec => []VerdictNeedsCompletedAttempt
<1>1. ExecInv => VerdictNeedsCompletedAttempt
  <2> SUFFICES ASSUME ExecInv, NEW s \in Scenarios, Decided(s) PROVE CaseFits(cases[s], attempts[s])
    BY Zenon DEF VerdictNeedsCompletedAttempt, CaseFits
  <2> QED BY DecidedEarlier DEF ExecInv, LoopInv
<1> QED BY <1>1, ExecInvAlways, PTL

\* A runner is called only for a scenario all of whose dependencies completed with
\* pass or warn.
THEOREM DependenciesCompleteFirst ==
  ExecSpec => []DependentsRunAfterSuccess
<1>1. ExecInv => DependentsRunAfterSuccess
  <2> SUFFICES ASSUME ExecInv, NEW s \in Scenarios,
                      \/ s = current /\ pc \in {"attempt", "running", "returned", "settled"}
                      \/ Decided(s) /\ cases[s].executed
               PROVE  DependenciesMet(s)
    BY Zenon DEF DependentsRunAfterSuccess, DependenciesMet
  <2>1. CASE s = current /\ pc \in {"attempt", "running", "returned", "settled"}
    BY <2>1, Zenon DEF ExecInv, LoopInv, Busy
  <2>2. CASE Decided(s) /\ cases[s].executed
    BY <2>2, DecidedEarlier, Zenon DEF ExecInv, LoopInv
  <2> QED BY <2>1, <2>2, Zenon
<1> QED BY <1>1, ExecInvAlways, PTL

\* A run with a cancelled case returns the error of its context.
THEOREM CancellationIsReturned ==
  ExecSpec => []CancellationSurfaces
<1>1. ExecInv => CancellationSurfaces
  <2> SUFFICES ASSUME ExecInv PROVE CancellationSurfaces
    OBVIOUS
  <2>1. ASSUME NEW s \in Scenarios, Decided(s), cases[s].status = "cancelled"
        PROVE  executionErr # "none"
    BY <2>1, DecidedEarlier, ZenonT(40) DEF ExecInv, ErrorInv
  <2>2. executionErr # "none" => executionErr = ctx
    BY Zenon DEF ExecInv, ErrorInv
  <2> QED BY <2>1, <2>2, Zenon DEF CancellationSurfaces
<1> QED BY <1>1, ExecInvAlways, PTL

-----------------------------------------------------------------------------
(* The cleanup ledger.                                                     *)

\* No int64 sum of a charge within the cleanup limit and a reported usage overflows.
CleanupSumsExact ==
    \A u \in Cleanups : \A f \in HardFields : CleanupLimit[f] + u[f] <= MaxInt

WithinCleanup(c) == \A f \in HardFields : c[f] \in 0..CleanupLimit[f]

\* Leases are released from the last to the first; the cleanup charge stays within
\* its limit.
CleanupInv ==
    /\ lease \in Nat
    /\ \A l \in residual \union finalized : l \in Nat /\ l > lease
    /\ WithinCleanup(cleanupConsumed)
    /\ CleanupSurvivesExhaustion

\* The sum of a charge and a usage is exact.
LEMMA CleanupSum ==
  ASSUME CleanupSumsExact, NEW c, WithinCleanup(c), NEW u \in Cleanups, NEW f \in HardFields
  PROVE  /\ Add(c, u)[f] = c[f] + u[f]
         /\ c[f] \in Nat /\ u[f] \in Nat /\ CleanupLimit[f] \in Nat
<1>1. f \in Fields
  BY DEF Fields
<1>2. u[f] \in Nat /\ MaxInt \in Nat
  <2>1. u \in [Fields -> Amounts]
    BY BoundsValid, Zenon
  <2>2. u[f] \in Amounts
    BY <1>1, <2>1, Zenon
  <2>3. Amounts \subseteq Nat /\ MaxInt \in Nat
    BY BoundsValid
  <2> QED BY <2>2, <2>3, Zenon
<1>3. CleanupLimit[f] \in Int /\ CleanupLimit[f] > 0
  BY LimitsValid, Zenon
<1>4. c[f] \in 0..CleanupLimit[f]
  BY DEF WithinCleanup
<1>5. CleanupLimit[f] + u[f] <= MaxInt
  BY Zenon DEF CleanupSumsExact
<1>6. Wrap(c[f] + u[f]) = c[f] + u[f]
  BY ONLY <1>2, <1>3, <1>4, <1>5 DEF Wrap
<1>7. Add(c, u)[f] = Wrap(c[f] + u[f])
  BY <1>1, Zenon DEF Add
<1> QED BY ONLY <1>2, <1>3, <1>4, <1>6, <1>7

\* A charge leaves no room for what had none before it.
LEMMA ChargesGrow ==
  ASSUME CleanupSumsExact, NEW c, WithinCleanup(c), NEW u \in Cleanups,
         ~ExceedsCleanup(Add(c, u))
  PROVE  /\ WithinCleanup(Add(c, u))
         /\ \A v \in Cleanups : ExceedsCleanup(Add(c, v)) => ExceedsCleanup(Add(Add(c, u), v))
<1>1. WithinCleanup(Add(c, u))
  <2> SUFFICES ASSUME NEW f \in HardFields PROVE Add(c, u)[f] \in 0..CleanupLimit[f]
    BY Zenon DEF WithinCleanup
  <2>1. ~(Add(c, u)[f] > CleanupLimit[f])
    BY Zenon DEF ExceedsCleanup
  <2>2. Add(c, u)[f] = c[f] + u[f] /\ c[f] \in Nat /\ u[f] \in Nat /\ CleanupLimit[f] \in Nat
    BY CleanupSum, Zenon
  <2> QED BY ONLY <2>1, <2>2
<1>2. ASSUME NEW v \in Cleanups, ExceedsCleanup(Add(c, v))
      PROVE  ExceedsCleanup(Add(Add(c, u), v))
  <2>1. PICK f \in HardFields : Add(c, v)[f] > CleanupLimit[f]
    BY <1>2, Zenon DEF ExceedsCleanup
  <2>2. Add(c, v)[f] = c[f] + v[f] /\ Add(c, u)[f] = c[f] + u[f]
    BY CleanupSum, Zenon
  <2>3. Add(Add(c, u), v)[f] = Add(c, u)[f] + v[f]
    BY <1>1, CleanupSum, Zenon
  <2>4. c[f] \in Nat /\ u[f] \in Nat /\ v[f] \in Nat /\ CleanupLimit[f] \in Nat
    BY CleanupSum, Zenon
  <2>5. Add(Add(c, u), v)[f] > CleanupLimit[f]
    BY ONLY <2>1, <2>2, <2>3, <2>4
  <2> QED BY <2>5, Zenon DEF ExceedsCleanup
<1> QED BY <1>1, <1>2, Zenon

\* Every step preserves the cleanup invariant.
LEMMA CleanupInvNext ==
  ASSUME CleanupSumsExact, CleanupInv, [ExecNext]_<<budgetVars, execVars>>
  PROVE  CleanupInv'
<1>1. CASE UNCHANGED <<lease, finalized, residual, cleanupConsumed>>
  BY <1>1, Zenon DEF CleanupInv, CleanupSurvivesExhaustion, WithinCleanup
<1>2. ASSUME lease > 0
      PROVE  /\ lease - 1 \in Nat /\ lease \notin residual \union finalized /\ lease > lease - 1
             /\ \A l \in residual \union finalized : l \in Nat /\ l > lease - 1
  BY <1>2 DEF CleanupInv
<1>3. CASE FinalizeFails
  <2>1. /\ lease > 0 /\ lease' = lease - 1 /\ residual' = residual \union {lease}
        /\ finalized' = finalized /\ cleanupConsumed' = cleanupConsumed
    BY <1>3 DEF FinalizeFails, budgetVars
  <2>2. residual' \intersect finalized' = residual \intersect finalized
    BY <1>2, <2>1, Zenon
  <2>3. \A l \in residual' \union finalized' : l \in Nat /\ l > lease'
    BY <1>2, <2>1, Zenon DEF CleanupInv
  <2>4. CleanupSurvivesExhaustion'
    BY <2>1, <2>2, Zenon DEF CleanupInv, CleanupSurvivesExhaustion
  <2> QED BY <1>2, <2>1, <2>3, <2>4, Zenon DEF CleanupInv, WithinCleanup
<1>4. CASE FinalizeReturns
  <2>1. lease > 0 /\ lease' = lease - 1 /\ finalized' = finalized \union {lease}
    BY <1>4, Zenon DEF FinalizeReturns
  <2>2. PICK usage \in Cleanups :
          \/ ConsumeCleanup(usage) /\ UNCHANGED residual
          \/ /\ ExceedsCleanup(Add(cleanupConsumed, usage))
             /\ residual' = residual \union {lease}
             /\ UNCHANGED budgetVars
    BY <1>4, Zenon DEF FinalizeReturns
  <2>3. \A l \in residual' \union finalized' : l \in Nat /\ l > lease'
    BY <1>2, <2>1, <2>2, Zenon DEF CleanupInv
  <2>4. CASE ConsumeCleanup(usage) /\ UNCHANGED residual
    <3>1. /\ ~ExceedsCleanup(Add(cleanupConsumed, usage))
          /\ cleanupConsumed' = Add(cleanupConsumed, usage)
      BY <2>4, Zenon DEF ConsumeCleanup
    <3>2. /\ WithinCleanup(cleanupConsumed')
          /\ \A v \in Cleanups : ExceedsCleanup(Add(cleanupConsumed, v)) =>
                                 ExceedsCleanup(Add(cleanupConsumed', v))
      BY <3>1, ChargesGrow, Zenon DEF CleanupInv
    <3>3. residual' \intersect finalized' = residual \intersect finalized
      BY <1>2, <2>1, <2>4, Zenon
    <3>4. CleanupSurvivesExhaustion'
      BY <3>2, <3>3, Zenon DEF CleanupInv, CleanupSurvivesExhaustion
    <3> QED BY <1>2, <2>1, <2>3, <3>2, <3>4, Zenon DEF CleanupInv, WithinCleanup
  <2>5. CASE ExceedsCleanup(Add(cleanupConsumed, usage)) /\ UNCHANGED budgetVars
    <3>1. cleanupConsumed' = cleanupConsumed
      BY <2>5 DEF budgetVars
    <3>2. CleanupSurvivesExhaustion'
      BY <2>5, <3>1 DEF CleanupSurvivesExhaustion
    <3> QED BY <1>2, <2>1, <2>3, <3>1, <3>2, Zenon DEF CleanupInv, WithinCleanup
  <2> QED BY <2>2, <2>4, <2>5, Zenon
<1>5. \/ UNCHANGED <<lease, finalized, residual, cleanupConsumed>>
      \/ FinalizeFails \/ FinalizeReturns
  <2>1. CASE ExecStep
    BY <2>1, Zenon DEF ExecStep, Begin, CancelRemaining, NotExecuted, SkipDependent, CannotStart, Start,
         AttemptWithoutID, EstimateFails, ReserveFails, Refuse, Reserve, Grant, SettleOutcome,
         SettleInvalid, SettleError, Commit, Retry, GiveUp, StartFinalizing, Finish, Snapshot,
         budgetVars
  <2>2. CASE ~ExecStep
    BY <2>2, Zenon DEF ExecNext, RunReturns, ContextDone, TimePasses, Tick, ledgerVars, budgetVars,
                       execVars
  <2> QED BY <2>1, <2>2
<1> QED BY <1>1, <1>3, <1>4, <1>5, Zenon

\* Cleanup does not depend on the run's budget: a lease whose finalizer succeeded is
\* residual only because the cleanup ledger itself has no room, as long as its sums
\* do not overflow.
THEOREM CleanupIsIndependent ==
  ASSUME CleanupSumsExact
  PROVE  ExecSpec => []CleanupSurvivesExhaustion
<1>1. ExecInit => CleanupInv
  <2> SUFFICES ASSUME ExecInit PROVE CleanupInv
    OBVIOUS
  <2>1. lease \in Nat /\ residual = {} /\ finalized = {} /\ cleanupConsumed = NoUsage
    BY ExecutorConstants, Zenon DEF ExecInit, BudgetInit
  <2>2. WithinCleanup(cleanupConsumed)
    BY <2>1, LimitsValid DEF WithinCleanup, NoUsage, Fields
  <2> QED BY <2>1, <2>2 DEF CleanupInv, CleanupSurvivesExhaustion
<1>2. CleanupInv /\ [ExecNext]_<<budgetVars, execVars>> => CleanupInv'
  BY CleanupInvNext
<1>3. CleanupInv => CleanupSurvivesExhaustion
  BY DEF CleanupInv
<1> QED BY <1>1, <1>2, <1>3, PTL DEF ExecSpec

-----------------------------------------------------------------------------
(* The product run.                                                        *)

\* What buildReport expects of the case c of scenario s with attempts as.
CaseShape(c, s, as) ==
    /\ c.disposition = plan.disposition[s]
    /\ c.applicable <=> plan.disposition[s] # "not_applicable"
    /\ plan.disposition[s] = "execute" => c.ids > 0 \/ as = <<>>
    /\ plan.disposition[s] # "execute" => c.ids = 0 /\ c.verdict = "none" /\ c.evidence = {}

\* A case that keeps the report from being conclusive.
Inconclusive(c) == c.status = "cancelled" \/ c.disposition # "execute"

ShapeInv ==
    /\ \A s \in Scenarios : s < current => CaseShape(cases[s], s, attempts[s])
    /\ pc \in Busy => number \in 1..(Retries + 1)
    /\ pc \in {"finalize", "finished"} => current > N
    /\ executionErr # "none" => \E s \in Scenarios : s < current /\ Inconclusive(cases[s])

\* A class is recorded for the current scenario when its runner has failed, and
\* stays with the case that this failure decides.
ClassInv ==
    /\ classes = [s \in Scenarios |-> classes[s]]
    /\ \A s \in Scenarios : s < current /\ classes[s] # "none" =>
          cases[s].status \in {"errored", "cancelled"}
    /\ \A s \in Scenarios : s > current => classes[s] = "none"
    /\ current \in Scenarios /\ classes[current] # "none" =>
          pc = "settled" \/ (pc = "returned" /\ reply.kind = "error")

\* A report is built, or refused, only once the executor has finished.
ReportInv ==
    /\ HasReport \/ stage = "rejected" => pc = "finished"
    /\ ConclusiveExitIsComplete /\ CancellationExit /\ OnlyMissingAttemptRejects

\* The inductive invariant.
ProductInv == ExecInv /\ ShapeInv /\ ClassInv /\ ReportInv

-----------------------------------------------------------------------------
(* The two kinds of steps, as far as the report is concerned.              *)

\* The current scenario is decided with the case c.
ShapedDecision(c) ==
    /\ current \in Scenarios /\ current' = current + 1 /\ pc' = "schedule"
    /\ cases' = [cases EXCEPT ![current] = c]
    /\ \A s \in Scenarios : s # current => attempts'[s] = attempts[s]
    /\ CaseShape(c, current, attempts'[current])
    /\ executionErr' = executionErr \/ Inconclusive(c)
    /\ classes[current] # "none" => c.status \in {"errored", "cancelled"}
    /\ UNCHANGED <<plan, classes>>

\* No scenario is decided.
ShapedStay ==
    /\ UNCHANGED <<plan, cases, current, executionErr>>
    /\ \A s \in Scenarios : s < current => attempts'[s] = attempts[s]
    /\ pc' \in Busy => number' \in 1..(Retries + 1)
    /\ pc' \in {"finalize", "finished"} => current > N
    /\ classes' = [s \in Scenarios |-> classes'[s]]
    /\ \A s \in Scenarios : s # current => classes'[s] = classes[s]
    /\ current \in Scenarios /\ classes'[current] # "none" =>
          pc' = "settled" \/ (pc' = "returned" /\ reply'.kind = "error")

\* Scenarios and the position of the loop are numbers.
LEMMA Numbers ==
  ASSUME ExecTyped
  PROVE  /\ current \in Nat /\ N \in Nat /\ \A s \in Scenarios : s \in Nat
         /\ \A s \in Scenarios : s < current + 1 => s < current \/ s = current
         /\ \A s \in Scenarios : s > current + 1 => s > current
         /\ current + 1 \in Scenarios => current + 1 > current
         /\ \A s \in Scenarios : s < current => s # current
         /\ \A s \in Scenarios : s > current => s # current
  BY ExecutorConstants DEF ExecTyped, Scenarios

\* A decision preserves what the invariant says of cases and classes.
LEMMA ShapedDecisionPreserves ==
  ASSUME ExecTyped, ShapeInv, ClassInv, NEW c, ShapedDecision(c)
  PROVE  ShapeInv' /\ ClassInv'
<1>1. /\ current \in Nat /\ current \in Scenarios /\ current' = current + 1 /\ pc' = "schedule"
      /\ plan' = plan /\ classes' = classes
  BY Numbers, Zenon DEF ShapedDecision
<1>2. cases'[current] = c /\ \A s \in Scenarios : s # current => cases'[s] = cases[s]
  BY DEF ShapedDecision, ExecTyped
<1>3. pc' \notin Busy /\ pc' \notin {"finalize", "finished"}
  BY <1>1, Zenon DEF Busy
<1>4. ASSUME NEW s \in Scenarios, s < current' PROVE CaseShape(cases[s], s, attempts[s])'
  <2>1. CASE s = current
    BY <1>1, <1>2, <2>1, Zenon DEF ShapedDecision, CaseShape
  <2>2. CASE s # current
    <3>1. s < current
      BY <1>1, <1>4, <2>2, Numbers, Zenon
    <3>2. CaseShape(cases[s], s, attempts[s])
      BY <3>1, Zenon DEF ShapeInv
    <3>3. cases'[s] = cases[s] /\ attempts'[s] = attempts[s]
      BY <1>2, <2>2, Zenon DEF ShapedDecision
    <3> QED BY <1>1, <3>2, <3>3, Zenon DEF CaseShape
  <2> QED BY <2>1, <2>2, Zenon
<1>5. ASSUME executionErr' # "none"
      PROVE  \E s \in Scenarios : s < current' /\ Inconclusive(cases'[s])
  <2>1. CASE Inconclusive(c)
    <3>1. current < current'
      BY ONLY <1>1
    <3> QED BY <1>1, <1>2, <2>1, <3>1, Zenon
  <2>2. CASE executionErr' = executionErr
    <3>1. PICK s \in Scenarios : s < current /\ Inconclusive(cases[s])
      BY <1>5, <2>2, Zenon DEF ShapeInv
    <3>2. s < current' /\ cases'[s] = cases[s]
      <4>1. s # current /\ s \in Nat
        BY <3>1, Numbers, Zenon
      <4>2. s < current'
        BY ONLY <1>1, <3>1, <4>1
      <4> QED BY <1>2, <4>1, <4>2, Zenon
    <3> QED BY <3>1, <3>2
  <2> QED BY <2>1, <2>2, Zenon DEF ShapedDecision
<1>6. ShapeInv'
  BY <1>3, <1>4, <1>5, Zenon DEF ShapeInv, Inconclusive
<1>7. ASSUME NEW s \in Scenarios, s < current', classes[s] # "none"
      PROVE  cases'[s].status \in {"errored", "cancelled"}
  <2>1. CASE s = current
    BY <1>2, <1>7, <2>1, Zenon DEF ShapedDecision
  <2>2. CASE s # current
    BY <1>1, <1>2, <1>7, <2>2, Numbers, Zenon DEF ClassInv
  <2> QED BY <2>1, <2>2, Zenon
<1>8. \A s \in Scenarios : s > current' => classes[s] = "none"
  BY <1>1, Numbers, Zenon DEF ClassInv
<1>9. current' \in Scenarios => classes[current'] = "none"
  BY <1>1, Numbers, Zenon DEF ClassInv
<1>10. ClassInv'
  BY <1>1, <1>7, <1>8, <1>9, Zenon DEF ClassInv
<1> QED BY <1>6, <1>10, Zenon

\* So does a step that decides nothing.
LEMMA ShapedStayPreserves ==
  ASSUME ExecTyped, ShapeInv, ClassInv, ShapedStay
  PROVE  ShapeInv' /\ ClassInv'
<1>1. ASSUME NEW s \in Scenarios, s < current PROVE CaseShape(cases[s], s, attempts[s])'
  BY <1>1, Zenon DEF ShapeInv, ShapedStay, CaseShape
<1>2. ShapeInv'
  BY <1>1, Zenon DEF ShapeInv, ShapedStay, Inconclusive
<1>3. ASSUME NEW s \in Scenarios, s < current \/ s > current PROVE classes'[s] = classes[s]
  BY <1>3, Numbers, Zenon DEF ShapedStay
<1>4. ClassInv'
  BY <1>3 DEF ClassInv, ShapedStay
<1> QED BY <1>2, <1>4, Zenon

-----------------------------------------------------------------------------
(* The executor's actions.                                                 *)

\* Recording an attempt leaves the other scenarios' attempts alone.
LEMMA RecordOthers ==
  ASSUME ExecTyped, (\E a : Record(a)) \/ UNCHANGED attempts
  PROVE  \A s \in Scenarios : s # current => attempts'[s] = attempts[s]
  BY DEF ExecTyped, Record

\* A scenario that was to be executed is decided by its attempts.
LEMMA AttemptsShape ==
  ASSUME ExecTyped, ShapeInv, ClassInv,
         current \in Scenarios, plan.disposition[current] = "execute",
         NEW ids, NEW status, NEW verdict, NEW reason, NEW evidence,
         Decide(CaseForAttempts(ids, status, verdict, reason, evidence)),
         ids > 0 \/ attempts'[current] = <<>>,
         (\E a : Record(a)) \/ UNCHANGED attempts,
         executionErr' = executionErr \/ status = "cancelled",
         classes[current] # "none" => status \in {"errored", "cancelled"},
         UNCHANGED <<plan, classes>>
  PROVE  ShapeInv' /\ ClassInv'
<1> DEFINE c == CaseForAttempts(ids, status, verdict, reason, evidence)
<1>1. /\ c.disposition = "execute" /\ c.ids = ids /\ c.status = status /\ c.applicable = TRUE
  BY ZenonT(40) DEF CaseForAttempts
<1>2. Decide(c)
  BY Zenon
<1> HIDE DEF c
<1>3. CaseShape(c, current, attempts'[current])
  BY <1>1, Zenon DEF CaseShape
<1>4. executionErr' = executionErr \/ Inconclusive(c)
  BY <1>1, Zenon DEF Inconclusive
<1>5. \A s \in Scenarios : s # current => attempts'[s] = attempts[s]
  BY RecordOthers
<1>6. ShapedDecision(c)
  BY <1>1, <1>2, <1>3, <1>4, <1>5, Zenon DEF ShapedDecision, Decide
<1> QED BY <1>6, ShapedDecisionPreserves, Zenon

\* One that was not is decided as planned.
LEMMA PlannedShape ==
  ASSUME ExecTyped, ShapeInv, ClassInv,
         current \in Scenarios, plan.disposition[current] # "execute", pc = "schedule",
         PlannedOnly, UNCHANGED <<plan, classes>>
  PROVE  ShapeInv' /\ ClassInv'
<1> DEFINE c == PlannedOnlyCase(current)
<1>1. /\ c.disposition = plan.disposition[current] /\ c.ids = 0 /\ c.verdict = "none"
      /\ c.evidence = {} /\ c.applicable = (plan.disposition[current] = "skip")
  BY Zenon DEF PlannedOnlyCase
<1>2. Decide(c) /\ UNCHANGED attempts
  BY DEF PlannedOnly
<1> HIDE DEF c
<1>3. plan.disposition[current] \in Dispositions
  BY ExecutorConstants DEF ExecTyped, ValidPlan
<1>4. c.applicable <=> plan.disposition[current] # "not_applicable"
  BY <1>1, <1>3, Zenon DEF Dispositions
<1>5. CaseShape(c, current, attempts'[current])
  BY <1>1, <1>4, Zenon DEF CaseShape
<1>6. Inconclusive(c)
  BY <1>1 DEF Inconclusive
<1>7. classes[current] = "none"
  BY DEF ClassInv
<1>8. ShapedDecision(c)
  BY <1>2, <1>5, <1>6, <1>7, Zenon DEF ShapedDecision, Decide
<1> QED BY <1>8, ShapedDecisionPreserves, Zenon

\* The top of the loop.
LEMMA LoopShape ==
  ASSUME ExecTyped, ShapeInv, ClassInv, UNCHANGED classes,
         CancelRemaining \/ NotExecuted \/ SkipDependent \/ CannotStart
  PROVE  ShapeInv' /\ ClassInv'
<1>1. current \in Scenarios
  BY AtScenario, Zenon DEF CancelRemaining, NotExecuted, SkipDependent, CannotStart, Runnable
<1>2. pc = "schedule" /\ UNCHANGED plan
  BY Zenon DEF CancelRemaining, NotExecuted, SkipDependent, CannotStart, Runnable, AtLoop
<1>3. classes[current] = "none"
  BY <1>1, <1>2 DEF ClassInv
<1>4. ASSUME NEW status, NEW reason, NonRun(status, reason), plan.disposition[current] = "execute",
             executionErr' = executionErr \/ status = "cancelled"
      PROVE  ShapeInv' /\ ClassInv'
  <2>1. Decide(CaseForAttempts(1, status, "none", reason, {})) /\ \E a : Record(a)
    BY <1>4, Zenon DEF NonRun
  <2>2. 1 > 0
    OBVIOUS
  <2> QED BY <1>1, <1>2, <1>3, <1>4, <2>1, <2>2, AttemptsShape, Zenon
<1>5. CASE CancelRemaining /\ plan.disposition[current] = "execute"
  BY <1>4, <1>5, Zenon DEF CancelRemaining
<1>6. CASE NotExecuted \/ (CancelRemaining /\ plan.disposition[current] # "execute")
  <2>1. PlannedOnly /\ plan.disposition[current] # "execute"
    BY <1>6, Zenon DEF CancelRemaining, NotExecuted
  <2> QED BY <1>1, <1>2, <2>1, PlannedShape, Zenon
<1>7. CASE SkipDependent
  BY <1>4, <1>7, Zenon DEF SkipDependent
<1>8. CASE CannotStart
  <2>1. plan.disposition[current] = "execute" /\ executionErr' = executionErr
    BY <1>8, Zenon DEF CannotStart, Runnable
  <2>2. NonRun("errored", "driver_error") \/ NonRun("errored", "harness_error")
    BY <1>8, Zenon DEF CannotStart
  <2> QED BY <1>4, <2>1, <2>2, Zenon
<1> QED BY <1>5, <1>6, <1>7, <1>8, Zenon

\* While a scenario is being run it is one of the plan's, to be executed.
LEMMA RunningScenario ==
  ASSUME ExecInv, ShapeInv, pc \in Busy
  PROVE  /\ current \in Scenarios /\ plan.disposition[current] = "execute"
         /\ number \in 1..(Retries + 1) /\ number > 0
<1>1. current \in Scenarios /\ plan.disposition[current] = "execute"
  BY DEF ExecInv, LoopInv, DependenciesMet
<1>2. number \in 1..(Retries + 1)
  BY DEF ShapeInv
<1>3. number > 0
  BY <1>2, ExecutorConstants
<1> QED BY <1>1, <1>2, <1>3, ZenonT(40)

\* An attempt that ends before the runner is called.
LEMMA AttemptShape ==
  ASSUME ExecInv, ShapeInv, ClassInv, UNCHANGED classes,
         AttemptWithoutID \/ EstimateFails \/ ReserveFails
  PROVE  ShapeInv' /\ ClassInv'
<1>1. pc = "attempt" /\ UNCHANGED <<plan, executionErr>>
  BY Zenon DEF AttemptWithoutID, EstimateFails, ReserveFails
<1>2. current \in Scenarios /\ plan.disposition[current] = "execute" /\ number > 0
  BY <1>1, RunningScenario, Zenon DEF Busy
<1>3. ExecTyped /\ classes[current] = "none"
  BY <1>1, <1>2 DEF ExecInv, ClassInv
<1>4. CASE AttemptWithoutID
  <2>1. attempts[current] \in Seq(AttemptRecords)
    BY <1>2, <1>3, Zenon DEF ExecTyped
  <2>2. Len(attempts[current]) > 0 \/ attempts[current] = <<>>
    BY <2>1, EmptySeq, LenProperties
  <2>3. UNCHANGED attempts
    BY <1>4 DEF AttemptWithoutID
  <2>4. Len(attempts[current]) > 0 \/ attempts'[current] = <<>>
    BY <2>2, <2>3, Zenon
  <2>5. Decide(CaseForAttempts(Len(attempts[current]), "errored", "none", "harness_error", {}))
    BY <1>4, Zenon DEF AttemptWithoutID
  <2> QED BY <1>1, <1>2, <1>3, <2>3, <2>4, <2>5, AttemptsShape, Zenon
<1>5. CASE EstimateFails
  <2>1. /\ Decide(CaseForAttempts(number, "errored", "none", "harness_error", {}))
        /\ \E a : Record(a)
    BY <1>5, Zenon DEF EstimateFails
  <2> QED BY <1>1, <1>2, <1>3, <2>1, AttemptsShape, Zenon
<1>6. CASE ReserveFails
  <2>1. /\ Decide(CaseForAttempts(number, "skipped", "none", "budget_exhausted", {}))
        /\ \E a : Record(a)
    BY <1>6, Zenon DEF ReserveFails
  <2> QED BY <1>1, <1>2, <1>3, <2>1, AttemptsShape, Zenon
<1> QED BY <1>4, <1>5, <1>6, Zenon

\* A reply that decides the scenario.
LEMMA ReplyShape ==
  ASSUME ExecInv, ShapeInv, ClassInv, UNCHANGED classes,
         SettleOutcome \/ SettleInvalid \/ GiveUp
  PROVE  ShapeInv' /\ ClassInv'
<1>1. pc \in {"returned", "settled"} /\ UNCHANGED plan
  BY Zenon DEF SettleOutcome, SettleInvalid, GiveUp, RecordFailure
<1>2. current \in Scenarios /\ plan.disposition[current] = "execute" /\ number > 0
  BY <1>1, RunningScenario DEF Busy
<1>3. ExecTyped
  BY DEF ExecInv
<1>4. CASE SettleOutcome
  <2>1. PICK reason : Decide(CaseForAttempts(number, "completed", reply.verdict, reason,
                                             refs \union reply.evidence))
    BY <1>4, Zenon DEF SettleOutcome
  <2>2. UNCHANGED executionErr /\ \E a : Record(a)
    BY <1>4, Zenon DEF SettleOutcome
  <2>3. classes[current] = "none"
    BY <1>2, <1>4 DEF ClassInv, SettleOutcome
  <2> QED BY <1>1, <1>2, <1>3, <2>1, <2>2, <2>3, AttemptsShape, Zenon
<1>5. CASE SettleInvalid
  <2>1. /\ Decide(CaseForAttempts(number, "errored", "none", "harness_error",
                                  refs \union reply.evidence))
        /\ UNCHANGED executionErr /\ \E a : Record(a)
    BY <1>5, Zenon DEF SettleInvalid
  <2> QED BY <1>1, <1>2, <1>3, <2>1, AttemptsShape, Zenon
<1>6. CASE GiveUp
  <2>1. /\ Decide(CaseForAttempts(number, FailedStatus, "none", failure.reason, refs))
        /\ \E a : Record(a)
    BY <1>6, Zenon DEF GiveUp, RecordFailure
  <2>2. FailedStatus \in {"errored", "cancelled"}
    BY DEF FailedStatus
  <2>3. executionErr' = executionErr \/ FailedStatus = "cancelled"
    BY <1>6, Zenon DEF GiveUp
  <2> QED BY <1>1, <1>2, <1>3, <2>1, <2>2, <2>3, AttemptsShape, Zenon
<1> QED BY <1>4, <1>5, <1>6

\* With no retries a failure decides its scenario.
LEMMA NeverRetries ==
  ASSUME ExecInv, ShapeInv, Retry
  PROVE  FALSE
<1>1. pc \in Busy
  BY DEF Retry, RecordFailure, Busy
<1>2. number \in 1..(Retries + 1) /\ number < Retries + 1
  BY <1>1, RunningScenario DEF Retry, MayRetry
<1> QED BY ONLY <1>2, NoRetries

\* A step that changes neither cases nor classes.
LEMMA QuietStay ==
  ASSUME ExecTyped, ShapeInv, ClassInv,
         UNCHANGED <<plan, cases, current, executionErr, attempts, classes>>,
         pc' \in Busy => number' \in 1..(Retries + 1),
         pc' \in {"finalize", "finished"} => current > N,
         current \in Scenarios /\ classes[current] # "none" =>
            pc' = "settled" \/ (pc' = "returned" /\ reply'.kind = "error")
  PROVE  ShapeInv' /\ ClassInv'
<1>1. classes' = [s \in Scenarios |-> classes'[s]]
  BY DEF ClassInv
<1>2. ShapedStay
  BY <1>1, Zenon DEF ShapedStay
<1> QED BY <1>2, ShapedStayPreserves, Zenon

\* Where the executor goes when it neither decides nor waits for a reply.
LEMMA QuietMoves ==
  ASSUME ShapeInv, Begin \/ Start \/ Reserve \/ StartFinalizing \/ Finish
  PROVE  /\ pc \in {"start", "schedule", "attempt", "finalize"}
         /\ pc' \in Busy => number' \in 1..(Retries + 1)
         /\ pc' \in {"finalize", "finished"} => current > N
<1>1. CASE Begin
  <2>1. pc = "start" /\ pc' \in {"schedule", "failed"}
    BY <1>1 DEF Begin
  <2> QED BY <2>1, Zenon DEF Busy
<1>2. CASE Start
  <2>1. pc = "schedule" /\ pc' = "attempt" /\ number' = 1
    BY <1>2 DEF Start, Runnable, AtLoop
  <2>2. 1 \in 1..(Retries + 1)
    BY ONLY ExecutorConstants
  <2> QED BY <2>1, <2>2, ZenonT(40) DEF Busy
<1>3. CASE Reserve
  <2>1. pc = "attempt" /\ pc' = "running" /\ number' = number
    BY <1>3 DEF Reserve
  <2> QED BY <2>1 DEF Busy, ShapeInv
<1>4. CASE StartFinalizing
  <2>1. pc = "schedule" /\ pc' = "finalize" /\ current > N
    BY <1>4 DEF StartFinalizing
  <2> QED BY <2>1, Zenon DEF Busy
<1>5. CASE Finish
  <2>1. pc = "finalize" /\ pc' = "finished"
    BY <1>5 DEF Finish
  <2> QED BY <2>1, Zenon DEF Busy, ShapeInv
<1> QED BY <1>1, <1>2, <1>3, <1>4, <1>5, Zenon

\* The same of the error path.
LEMMA SettlingMoves ==
  ASSUME ShapeInv, SettleError
  PROVE  /\ pc' = "settled" /\ pc' \notin {"finalize", "finished"}
         /\ number' \in 1..(Retries + 1)
<1>1. pc = "returned" /\ pc' = "settled" /\ number' = number
  BY DEF SettleError
<1> QED BY <1>1, Zenon DEF Busy, ShapeInv

\* The steps of the executor that decide nothing.
LEMMA QuietShape ==
  ASSUME ExecInv, ShapeInv, ClassInv, UNCHANGED classes,
         \/ Begin \/ Start \/ Reserve \/ SettleError
         \/ StartFinalizing \/ FinalizeFails \/ FinalizeReturns \/ Finish
         \/ ContextDone \/ TimePasses \/ UNCHANGED <<budgetVars, execVars>>
  PROVE  ShapeInv' /\ ClassInv'
<1>1. UNCHANGED <<plan, cases, current, executionErr, attempts>>
  BY Zenon DEF Begin, Start, Reserve, SettleError, StartFinalizing, FinalizeFails, FinalizeReturns,
               Finish, ContextDone, TimePasses, execVars
<1>2. ExecTyped
  BY DEF ExecInv
<1>3. CASE UNCHANGED <<pc, number, reply>>
  <2>1. /\ pc' \in Busy => number' \in 1..(Retries + 1)
        /\ pc' \in {"finalize", "finished"} => current > N
    BY <1>3, Zenon DEF ShapeInv
  <2>2. current \in Scenarios /\ classes[current] # "none" =>
          pc' = "settled" \/ (pc' = "returned" /\ reply'.kind = "error")
    BY <1>3, Zenon DEF ClassInv
  <2> QED BY <1>1, <1>2, <2>1, <2>2, QuietStay, Zenon
<1>4. CASE Begin \/ Start \/ Reserve \/ StartFinalizing \/ Finish
  <2>1. /\ pc \in {"start", "schedule", "attempt", "finalize"}
        /\ pc' \in Busy => number' \in 1..(Retries + 1)
        /\ pc' \in {"finalize", "finished"} => current > N
    BY <1>4, QuietMoves, Zenon
  <2>2. current \in Scenarios => classes[current] = "none"
    BY <2>1 DEF ClassInv
  <2> QED BY <1>1, <1>2, <2>1, <2>2, QuietStay, Zenon
<1>5. CASE SettleError
  <2>1. /\ pc' = "settled" /\ pc' \notin {"finalize", "finished"}
        /\ number' \in 1..(Retries + 1)
    BY <1>5, SettlingMoves, Zenon
  <2> QED BY <1>1, <1>2, <2>1, QuietStay, Zenon
<1>6. \/ UNCHANGED <<pc, number, reply>>
      \/ Begin \/ Start \/ Reserve \/ StartFinalizing \/ Finish \/ SettleError
  BY Zenon DEF FinalizeFails, FinalizeReturns, ContextDone, TimePasses, execVars
<1> QED BY <1>3, <1>4, <1>5, <1>6, Zenon

\* The runner returns through the classifyingRunner.
LEMMA ClassifyShape ==
  ASSUME ExecInv, ShapeInv, ClassInv, NEW r \in Replies, ClassifyingRun(r)
  PROVE  ShapeInv' /\ ClassInv'
<1>1. /\ pc = "running" /\ pc' = "returned" /\ reply' = r
      /\ UNCHANGED <<plan, cases, current, executionErr, attempts, number>>
  BY Zenon DEF ClassifyingRun, RunReturns
<1>2. ExecTyped /\ current \in Scenarios
  BY <1>1, RunningScenario, Zenon DEF ExecInv, Busy
<1>3. number' \in 1..(Retries + 1)
  BY <1>1, RunningScenario, Zenon DEF Busy
<1>4. classes[current] = "none"
  BY <1>1, <1>2, Zenon DEF ClassInv
<1>5. PICK k : classes' = [classes EXCEPT ![current] = k] /\ (r.kind # "error" => k = "none")
  <2>1. CASE ctx # "live"
    BY <2>1, Zenon DEF ClassifyingRun
  <2>2. CASE ctx = "live" /\ r.kind = "error" /\ r.class # "untyped"
    BY <2>2, Zenon DEF ClassifyingRun
  <2>3. CASE ctx = "live" /\ ~(r.kind = "error" /\ r.class # "untyped")
    BY <1>4, <2>3, Zenon DEF ClassifyingRun
  <2> QED BY <2>1, <2>2, <2>3, Zenon
<1>6. /\ classes' = [s \in Scenarios |-> classes'[s]] /\ classes'[current] = k
      /\ \A s \in Scenarios : s # current => classes'[s] = classes[s]
  BY <1>2, <1>5, Zenon DEF ClassInv
<1>7. ShapedStay
  BY <1>1, <1>3, <1>5, <1>6, Zenon DEF ShapedStay
<1> QED BY <1>2, <1>7, ShapedStayPreserves, Zenon

\* Every step of the run preserves what the invariant says of cases and classes.
LEMMA ShapeNext ==
  ASSUME ExecInv, ShapeInv, ClassInv, [ProductNext]_allVars
  PROVE  ShapeInv' /\ ClassInv'
<1>1. CASE ExecStep /\ UNCHANGED productVars
  <2>1. ExecTyped /\ UNCHANGED classes
    BY <1>1 DEF ExecInv, productVars
  <2> QED BY <1>1, <2>1, LoopShape, AttemptShape, ReplyShape, NeverRetries, QuietShape, ZenonT(40)
          DEF ExecStep
<1>2. CASE \E r \in Replies : ClassifyingRun(r)
  BY <1>2, ClassifyShape, Zenon
<1>3. CASE \/ (ContextDone \/ TimePasses) /\ UNCHANGED productVars
           \/ BuildReport \/ NoResult \/ Persist \/ UNCHANGED allVars
  <2>1. UNCHANGED classes
    BY <1>3, Zenon DEF productVars, allVars, BuildReport, NoResult, Persist
  <2>2. ContextDone \/ TimePasses \/ UNCHANGED <<budgetVars, execVars>>
    BY <1>3, Zenon DEF allVars, BuildReport, NoResult, Persist
  <2> QED BY <2>1, <2>2, QuietShape, Zenon
<1> QED BY <1>1, <1>2, <1>3, Zenon DEF ProductNext, Executing

\* The executor's invariant holds throughout the run.
LEMMA ExecutorKept ==
  ASSUME ExecInv, [ProductNext]_allVars
  PROVE  ExecInv'
<1>1. [ExecNext]_<<budgetVars, execVars>>
  BY Zenon DEF ProductNext, Executing, ExecNext, ClassifyingRun, BuildReport, NoResult, Persist,
               allVars
<1> QED BY <1>1, ExecInvNext, Zenon

\* Once the executor has finished nothing of it, nor any class, changes.
LEMMA FinishedIsFrozen ==
  ASSUME pc = "finished", [ProductNext]_allVars
  PROVE  UNCHANGED <<exhausted, execVars, classes>>
<1>1. ~ExecStep
  BY Zenon DEF ExecStep, Begin, CancelRemaining, NotExecuted, SkipDependent, CannotStart, Start,
         Runnable, AtLoop, AttemptWithoutID, EstimateFails, ReserveFails, Reserve, SettleOutcome,
         SettleInvalid, SettleError, Retry, GiveUp, RecordFailure, StartFinalizing, FinalizeFails,
         FinalizeReturns, Finish
<1>2. \A r : ~ClassifyingRun(r)
  BY DEF ClassifyingRun, RunReturns
<1>3. ~ContextDone /\ ~TimePasses
  BY DEF ContextDone, TimePasses, Ended
<1>4. BuildReport \/ NoResult \/ Persist \/ UNCHANGED allVars
  BY <1>1, <1>2, <1>3, Zenon DEF ProductNext, Executing
<1>5. UNCHANGED classes
  BY <1>4, Zenon DEF BuildReport, NoResult, Persist, allVars, productVars
<1>6. UNCHANGED <<budgetVars, execVars>>
  BY <1>4, Zenon DEF BuildReport, NoResult, Persist, allVars
<1> QED BY <1>5, <1>6, Zenon DEF budgetVars

-----------------------------------------------------------------------------
(* The report.                                                             *)

\* What each exit code says.
LEMMA ExitCodes ==
  /\ Aggregate[2] = 130 <=> HasCancelled /\ executionErr = "canceled"
  /\ Aggregate[2] \in {0, 1} =>
        /\ ~HasPermission /\ ~HasErrored /\ ~HasCancelled /\ ~HasIncomplete
        /\ Aggregate[2] = 1 <=> HasVerdict("fail")
<1> DEFINE cancelled == HasCancelled /\ executionErr = "canceled"
<1>1. CASE cancelled
  BY ONLY <1>1 DEF Aggregate, cancelled
<1>2. CASE ~cancelled /\ HasPermission
  BY ONLY <1>2 DEF Aggregate, cancelled
<1>3. CASE ~cancelled /\ ~HasPermission /\ HasErrored
  BY ONLY <1>3 DEF Aggregate, cancelled
<1>4. CASE ~cancelled /\ ~HasPermission /\ ~HasErrored /\ (HasCancelled \/ HasIncomplete)
  BY <1>4 DEF Aggregate
<1>5. CASE ~HasPermission /\ ~HasErrored /\ ~HasCancelled /\ ~HasIncomplete
  <2>1. Aggregate[2] = IF HasVerdict("fail") THEN 1 ELSE 0
    BY <1>5, Zenon DEF Aggregate
  <2> QED BY ONLY <1>5, <2>1
<1> QED BY <1>1, <1>2, <1>3, <1>4, <1>5, Zenon

\* At the end of the run every scenario is decided.
LEMMA AllDecided ==
  ASSUME ExecInv, ShapeInv, pc = "finished", NEW s \in Scenarios
  PROVE  s < current /\ CaseFits(cases[s], attempts[s]) /\ CaseShape(cases[s], s, attempts[s])
<1>1. s < current
  BY ExecutorConstants DEF ShapeInv, ExecInv, ExecTyped, Scenarios
<1> QED BY <1>1, Zenon DEF ExecInv, LoopInv, ShapeInv

\* Exit codes 0 and 1 stand for a complete run.
LEMMA ConclusiveReport ==
  ASSUME ExecInv, ShapeInv, ClassInv, pc = "finished", Aggregate[2] \in {0, 1}
  PROVE  /\ \A s \in Scenarios : /\ plan.disposition[s] = "execute"
                                 /\ cases[s].executed
                                 /\ cases[s].verdict \in {"pass", "warn", "fail"}
         /\ ~exhausted
         /\ executionErr = "none"
         /\ ClassConditions = {}
         /\ Aggregate[2] = 1 <=> \E s \in Scenarios : cases[s].verdict = "fail"
<1>1. /\ ~HasErrored /\ ~HasCancelled /\ ~HasIncomplete
      /\ Aggregate[2] = 1 <=> HasVerdict("fail")
  BY ExitCodes, Zenon
<1>2. /\ ~exhausted
      /\ \A s \in Scenarios : /\ cases[s].disposition = "execute"
                              /\ cases[s].status \notin {"errored", "cancelled", "skipped"}
                              /\ cases[s].verdict \notin {"none", "inconclusive"}
  BY <1>1, ZenonT(40) DEF HasErrored, HasCancelled, HasIncomplete, SomeCase
<1>3. ASSUME NEW s \in Scenarios
      PROVE  /\ plan.disposition[s] = "execute" /\ cases[s].executed
             /\ cases[s].verdict \in {"pass", "warn", "fail"}
  <2>1. CaseFits(cases[s], attempts[s]) /\ CaseShape(cases[s], s, attempts[s])
    BY AllDecided, Zenon
  <2>2. cases[s].status = "completed" /\ cases[s].verdict \in Verdicts
    BY <1>2, <2>1, ZenonT(40) DEF CaseFits, Statuses
  <2>3. cases[s].verdict \in {"pass", "warn", "fail"}
    BY <1>2, <2>2, Zenon DEF Verdicts
  <2> QED BY <1>2, <2>1, <2>2, <2>3, Zenon DEF CaseFits, CaseShape
<1>4. executionErr = "none"
  BY <1>2, Zenon DEF ShapeInv, Inconclusive
<1>5. ClassConditions = {}
  BY <1>2, AllDecided DEF ClassConditions, ClassInv
<1>6. HasVerdict("fail") <=> \E s \in Scenarios : cases[s].verdict = "fail"
  BY <1>2, Zenon DEF HasVerdict, SomeCase
<1> QED BY <1>1, <1>2, <1>3, <1>4, <1>5, <1>6, Zenon

\* Exit code 130 stands for a cancellation by the caller.
LEMMA CancelledReport ==
  ASSUME ExecInv, ShapeInv, pc = "finished"
  PROVE  /\ Aggregate[2] = 130 <=> /\ ctx = "canceled"
                                   /\ \E s \in Scenarios : cases[s].status = "cancelled"
         /\ Aggregate[2] = 130 => "run_cancelled" \in RunConditions
<1>1. Aggregate[2] = 130 <=> HasCancelled /\ executionErr = "canceled"
  BY ExitCodes
<1>2. HasCancelled <=> \E s \in Scenarios : cases[s].status = "cancelled"
  BY Zenon DEF HasCancelled, SomeCase
<1>3. HasCancelled => executionErr # "none" /\ executionErr = ctx
  BY <1>2, AllDecided, Zenon DEF ExecInv, ErrorInv
<1>4. executionErr = "canceled" => ctx = "canceled"
  BY DEF ExecInv, ErrorInv
<1>5. executionErr = "canceled" => "run_cancelled" \in RunConditions
  <2> SUFFICES ASSUME executionErr = "canceled" PROVE "run_cancelled" \in RunConditions
    OBVIOUS
  <2>1. "run_cancelled" \in (CASE executionErr = "deadline" -> {"run_deadline_exceeded"}
                               [] executionErr = "canceled" -> {"run_cancelled"}
                               [] OTHER -> {})
    BY Zenon
  <2> QED BY <2>1, Zenon DEF RunConditions
<1> QED BY <1>1, <1>2, <1>3, <1>4, <1>5, Zenon

\* buildReport finds nothing to reject but a scenario without an attempt.
LEMMA RejectedReport ==
  ASSUME ExecInv, ShapeInv, pc = "finished",
         ~(DenominatorsMatch /\ \A s \in Scenarios : CaseValid(cases[s]))
  PROVE  \E s \in Scenarios : plan.disposition[s] = "execute" /\ attempts[s] = <<>>
<1>1. DenominatorsMatch
  BY AllDecided DEF DenominatorsMatch, Members, CaseShape
<1>2. PICK s \in Scenarios : ~CaseValid(cases[s])
  BY <1>1, Zenon
<1>3. CaseFits(cases[s], attempts[s]) /\ CaseShape(cases[s], s, attempts[s])
  BY AllDecided, Zenon
<1>4. cases[s].status = "completed" <=> cases[s].verdict # "none"
  BY <1>3, Zenon DEF CaseFits
<1>5. plan.disposition[s] = "execute" /\ attempts[s] = <<>>
  BY <1>2, <1>3, <1>4, Zenon DEF CaseShape, CaseValid
<1> QED BY <1>5, ZenonT(40)

\* Every step of the run preserves what is said of the report.
LEMMA ReportNext ==
  ASSUME ProductInv, [ProductNext]_allVars
  PROVE  ReportInv'
<1> USE DEF ProductInv
<1>1. CASE UNCHANGED <<stage, report>>
  <2>1. CASE pc = "finished"
    <3>1. UNCHANGED <<exhausted, plan, pc, cases, ctx, attempts, executionErr>>
      BY <2>1, FinishedIsFrozen, ZenonT(40) DEF execVars
    <3>2. ConclusiveExitIsComplete'
      BY <1>1, <3>1, Zenon DEF ReportInv, HasReport, ConclusiveExitIsComplete
    <3>3. CancellationExit'
      BY <1>1, <3>1, Zenon DEF ReportInv, HasReport, CancellationExit
    <3>4. OnlyMissingAttemptRejects'
      BY <1>1, <3>1, Zenon DEF ReportInv, OnlyMissingAttemptRejects
    <3> QED BY <2>1, <3>1, <3>2, <3>3, <3>4, Zenon DEF ReportInv
  <2>2. CASE pc # "finished"
    BY <1>1, <2>2, Zenon DEF ReportInv, HasReport, NoReport, ConclusiveExitIsComplete, CancellationExit,
                      OnlyMissingAttemptRejects
  <2> QED BY <2>1, <2>2
<1>2. CASE BuildReport
  <2>1. pc = "finished" /\ UNCHANGED <<exhausted, plan, pc, cases, ctx, attempts, executionErr>>
    BY <1>2, Zenon DEF BuildReport, budgetVars, execVars
  <2>2. CASE DenominatorsMatch /\ \A s \in Scenarios : CaseValid(cases[s])
    <3>1. /\ stage' = "reported"
          /\ report'.exit = Aggregate[2] /\ report'.conditions = RunConditions
          /\ report'.classConditions = ClassConditions
      BY <1>2, <2>2 DEF BuildReport
    <3>2. OnlyMissingAttemptRejects'
      BY <3>1, Zenon DEF OnlyMissingAttemptRejects
    <3>3. ConclusiveExitIsComplete'
      BY <2>1, <3>1, ConclusiveReport, ZenonT(40) DEF ConclusiveExitIsComplete
    <3>4. CancellationExit'
      BY <2>1, <3>1, CancelledReport DEF CancellationExit
    <3> QED BY <2>1, <3>2, <3>3, <3>4, ZenonT(40) DEF ReportInv
  <2>3. CASE ~(DenominatorsMatch /\ \A s \in Scenarios : CaseValid(cases[s]))
    <3>1. UNCHANGED report
      BY <1>2, <2>3, ZenonT(40) DEF BuildReport
    <3>2. OnlyMissingAttemptRejects'
      BY <2>1, <2>3, RejectedReport, ZenonT(40) DEF OnlyMissingAttemptRejects
    <3>3. ConclusiveExitIsComplete' /\ CancellationExit'
      BY <2>1, <3>1, Zenon DEF ReportInv, HasReport, NoReport, ConclusiveExitIsComplete, CancellationExit
    <3> QED BY <2>1, <3>2, <3>3, Zenon DEF ReportInv
  <2> QED BY <2>2, <2>3
<1>3. CASE NoResult \/ Persist
  <2>1. /\ UNCHANGED <<report, exhausted, plan, pc, cases, ctx, attempts, executionErr>>
        /\ stage' # "rejected"
    BY <1>3 DEF NoResult, Persist, budgetVars, execVars
  <2> QED BY <2>1, ZenonT(40) DEF ReportInv, HasReport, NoReport, ConclusiveExitIsComplete, CancellationExit,
                      OnlyMissingAttemptRejects
<1>4. UNCHANGED <<stage, report>> \/ BuildReport \/ NoResult \/ Persist
  BY Zenon DEF ProductNext, Executing, ClassifyingRun, productVars, allVars
<1> QED BY <1>1, <1>2, <1>3, <1>4, Zenon

\* The invariant holds when the run starts.
LEMMA ProductInvInit ==
  ProductInit => ProductInv
<1> SUFFICES ASSUME ProductInit PROVE ProductInv
  OBVIOUS
<1>1. ExecInv
  BY ExecInvInit, Zenon DEF ProductInit
<1>2. /\ pc = "start" /\ current = 1 /\ executionErr = "none" /\ stage = "executing"
      /\ report = NoReport /\ classes = [s \in Scenarios |-> "none"]
  BY Zenon DEF ProductInit, ExecInit
<1>3. \A s \in Scenarios : ~(s < current) /\ classes[s] = "none"
  BY ONLY <1>2 DEF Scenarios
<1>4. ShapeInv
  BY <1>2, <1>3, Zenon DEF ShapeInv, Busy
<1>5. ClassInv
  BY <1>2, <1>3, ZenonT(40) DEF ClassInv
<1>6. ReportInv
  BY <1>2, Zenon DEF ReportInv, HasReport, ConclusiveExitIsComplete, CancellationExit,
              OnlyMissingAttemptRejects
<1> QED BY <1>1, <1>4, <1>5, <1>6, Zenon DEF ProductInv

\* So it always holds.
LEMMA ProductInvAlways ==
  ProductSpec => []ProductInv
<1>1. ProductInv /\ [ProductNext]_allVars => ProductInv'
  BY ExecutorKept, ShapeNext, ReportNext, Zenon DEF ProductInv
<1> QED BY <1>1, ProductInvInit, PTL DEF ProductSpec

\* Exit codes 0 and 1 are returned only when every scenario of the plan ran to a
\* conclusive verdict within budget and uncancelled: no harness or driver failure,
\* skipped scenario, exhausted budget or ended context is reported as a verdict.
THEOREM ConclusiveMeansComplete ==
  ProductSpec => []ConclusiveExitIsComplete
<1>1. ProductInv => ConclusiveExitIsComplete
  BY Zenon DEF ProductInv, ReportInv
<1> QED BY <1>1, ProductInvAlways, PTL

\* A caller's cancellation that interrupted a scenario, and nothing else, is reported
\* as 130 and as the run_cancelled condition.
THEOREM CancellationIsReported ==
  ProductSpec => []CancellationExit
<1>1. ProductInv => CancellationExit
  BY Zenon DEF ProductInv, ReportInv
<1> QED BY <1>1, ProductInvAlways, PTL

\* A finished run's report is rejected only for a scenario that got no attempt ID.
THEOREM FewReportsRejected ==
  ProductSpec => []OnlyMissingAttemptRejects
<1>1. ProductInv => OnlyMissingAttemptRejects
  BY Zenon DEF ProductInv, ReportInv
<1> QED BY <1>1, ProductInvAlways, PTL
=============================================================================
