------------------------------ MODULE MCHealth ------------------------------
(* Health on a small instance: one failure takes a back end out of service *)
EXTENDS Health

Strict == [fail |-> 1, remove |-> 1]

OnlyStrict == {Strict}
=============================================================================
