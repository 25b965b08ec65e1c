----------------------------- MODULE MCRunStore -----------------------------
(* An instance of RunStore: two processes put the same or different runs,  *)
(* a third one reads, and the machine may crash at any point.              *)
EXTENDS RunStore, TLC

Symmetry == Permutations(Writers) \union Permutations(Contents)
            \union Permutations(Runs)

=============================================================================
