------------------------------- MODULE MCProxy -------------------------------
(* Proxy on small instances *)
EXTENDS Proxy

CONSTANTS n1, n2

OneOrTwo == {<<n1>>, <<n1, n2>>}

\* where names are not told apart
TwoAlike == {<<n1, n1>>}
=============================================================================
