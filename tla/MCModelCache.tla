---------------------------- MODULE MCModelCache ----------------------------
(* ModelCache with two processes, two rows, one group and two names.       *)
EXTENDS ModelCache, TLC

Symmetry == Permutations(Ids) \cup Permutations(Groups) \cup Permutations(Names)
            \cup Permutations(Procs)
==============================================================================
