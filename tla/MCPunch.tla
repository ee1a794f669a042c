------------------------------- MODULE MCPunch -------------------------------
(* Punch on small instances *)
EXTENDS Punch

=============================================================================
