------------------------------ MODULE MCGateway ------------------------------
(* Gateway on a small instance: leader 1 is on the network *)
EXTENDS Gateway

LocalLeaders == {1}

DeepLeaders == {2}

TwoModes == {"off", "enforce"}
=============================================================================
