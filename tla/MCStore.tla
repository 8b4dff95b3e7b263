------------------------------ MODULE MCStore ------------------------------
(* StoreReport with everything but the processes and the users' acts         *)
(* interchangeable.                                                        *)
EXTENDS StoreReport, TLC

Symmetry == Permutations(Items) \cup Permutations(Roots) \cup Permutations(Clones)
            \cup Permutations(Ids) \cup Permutations(Procs)
=============================================================================
