------------------------------ MODULE MCMachine ------------------------------
(* Machine on a small instance *)
EXTENDS Machine, TLC

\* Processes and users are alike
Alike == Permutations(Procs) \cup Permutations(Users)

==============================================================================
