------------------------------ MODULE MCMember ------------------------------
(* Member on a small instance *)
EXTENDS Member

=============================================================================
