------------------------------- MODULE MCAuth -------------------------------
(* Auth on small instances; the calls, machines and keys are interchangeable *)
EXTENDS Auth, TLC

\* All requests beside one call of the panel, or all calls of the panel
RequestsOrPanel == {Clients \cup {a} : a \in Admins} \cup {Admins}

Symmetry == Permutations(Members) \cup Permutations(Tokens)
            \cup Permutations(Clients) \cup Permutations(Admins)
=============================================================================
