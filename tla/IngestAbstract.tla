--------------------------- MODULE IngestAbstract ---------------------------
(***************************************************************************)
(* What the registry promises a submitter about an upload session: it only *)
(* moves forward, one stage at a time, and a decision about it is final.   *)
(***************************************************************************)
CONSTANTS Sessions

VARIABLE stage  \* how far each session has come

\* The stages a session in a given stage may move to.
After == [absent      |-> {"prepared"},
          prepared    |-> {"staged"},
          staged      |-> {"committed"},
          committed   |-> {"validating"},
          validating  |-> {"quarantined", "published"},
          quarantined |-> {},
          published   |-> {}]

AbsInit == stage = [s \in Sessions |-> "absent"]

Advance(s) == \E next \in After[stage[s]] : stage' = [stage EXCEPT ![s] = next]

\* An ephemeral registry forgets everything when its process ends.
Forget == stage' = [s \in Sessions |-> "absent"]

AbsNext == (\E s \in Sessions : Advance(s)) \/ Forget

AbsSpec == AbsInit /\ [][AbsNext]_stage

=============================================================================
