----------------------------- MODULE AtomicTable -----------------------------
(***************************************************************************)
(* What an administrator may rely on when back ends are saved and deleted: *)
(* an update changes one entry of the table, then what a start would load, *)
(* then what requests are routed by, and a crash in between leaves the     *)
(* table of before or of after it.  There are two exceptions: for a moment *)
(* nothing would be loaded ("lost"), and after updates that overlap, or a  *)
(* save that fails, nothing is promised until an update runs alone         *)
(* ("unknown").                                                            *)
(***************************************************************************)
CONSTANTS Ids, Values, Blank

VARIABLES table,   \* the entries that are stored
          saved,   \* those that a start would load
          served,  \* those that requests are routed by
          phase    \* how far an update has come

vars == <<table, saved, served, phase>>

Empty == [i \in Ids |-> Blank]

From(before, after) == phase = before /\ phase' = after

Init ==
    /\ table = Empty /\ saved = Empty /\ served = Empty
    /\ phase = "rest"

Change ==
    /\ From("rest", "changed")
    /\ \E i \in Ids, v \in Values : table' = [table EXCEPT ![i] = v]
    /\ UNCHANGED <<saved, served>>

Lose ==
    /\ From("changed", "lost")
    /\ saved' = Empty
    /\ UNCHANGED <<table, served>>

Save ==
    /\ From("lost", "saved")
    /\ saved' = table
    /\ UNCHANGED <<table, served>>

Serve ==
    /\ From("saved", "rest")
    /\ served' = table
    /\ UNCHANGED <<table, saved>>

Crash ==
    /\ phase # "unknown" /\ phase' = "rest"
    /\ table' = saved /\ served' = saved
    /\ UNCHANGED saved

Disturb == phase' = "unknown"

Recover ==
    /\ From("unknown", "rest")
    /\ saved' = table /\ served' = table
    /\ UNCHANGED table

Next == Change \/ Lose \/ Save \/ Serve \/ Crash \/ Disturb \/ Recover

Spec == Init /\ [][Next]_vars
=============================================================================
