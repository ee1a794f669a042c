----------------------------- MODULE MCBackends -----------------------------
(* Backends on small instances; ids, keys and tasks are interchangeable *)
EXTENDS Backends, TLC

Symmetry == Permutations(Ids) \cup Permutations(Keys) \cup Permutations(Tasks)
=============================================================================
