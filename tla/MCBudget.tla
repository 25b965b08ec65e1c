------------------------------ MODULE MCBudget ------------------------------
(* Instances of Budget: one hard field, one limited token field.           *)
EXTENDS Budget

MCWork    == {"requests"}
MCBytes   == {}
MCTokens  == {"tokens"}
MCHard    == [f \in MCWork |-> 2]
MCToken   == [f \in MCTokens |-> 2]
MCCleanup == [f \in MCWork |-> 1]

MCCleanups == {[f \in MCWork \union MCTokens |-> 1]}

\* The largest amount is MaxInt when a run is to reach overflow.
MCAmounts     == 0..2
MCWideAmounts == {0, 1, MaxInt}

=============================================================================
