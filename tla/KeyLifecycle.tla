---------------------------- MODULE KeyLifecycle ----------------------------
(***************************************************************************)
(* What a machine may rely on about its key: a key is generated once, for  *)
(* one machine and one time of expiry, neither of which ever changes, is   *)
(* alive from then on until it is forgotten, and a forgotten key never     *)
(* opens the leader again.                                                 *)
(***************************************************************************)
CONSTANTS Members, Tokens, Times, None

VARIABLES owner,    \* the machine each key was generated for
          expires,  \* and its time of expiry
          alive     \* the keys that may be accepted, now or after a restart

vars == <<owner, expires, alive>>

Init ==
    /\ owner = [t \in Tokens |-> None]
    /\ expires \in [Tokens -> Times]
    /\ alive = {}

Issue == \E t \in Tokens, m \in Members, n \in Times :
    /\ owner[t] = None
    /\ owner' = [owner EXCEPT ![t] = m]
    /\ expires' = [expires EXCEPT ![t] = n]
    /\ alive' = alive \cup {t}

Forget ==
    /\ alive' \subseteq alive
    /\ UNCHANGED <<owner, expires>>

Next == Issue \/ Forget

Spec == Init /\ [][Next]_vars
=============================================================================
