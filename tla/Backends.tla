------------------------------ MODULE Backends ------------------------------
(***************************************************************************)
(* The back end table of the leader: BackendStore and its file             *)
(* backends.yaml (lan-share/src/backend_store.rs), the registry that       *)
(* requests are routed by (replace_all, lan-share/src/registry.rs), and    *)
(* what changes them: POST and DELETE /api/backends, and the probe that    *)
(* fetches the models of a back end saved without any                      *)
(* (lan-share/src/api.rs).                                                 *)
(*                                                                         *)
(* A step is what one lock protects, or one file-system call.  A task is a *)
(* handler, and after a save the probe it spawned.  All entries are such   *)
(* that backend_from_entry accepts them, and the server was started        *)
(* without back ends on its command line.                                  *)
(***************************************************************************)
CONSTANTS Ids,     \* backend ids
          Keys,    \* API keys
          NoKey,   \* a request that names no key, an entry without one
          NoId,    \* the id of a task that is idle
          Tasks    \* concurrent handlers and probes

ASSUME BackendConstants == NoKey \notin Keys /\ NoId \notin Ids

VARIABLES store,     \* BackendStore.entries
          routes,    \* the entries that the registry was built from
          file,      \* backends.yaml
          tmp,       \* backends.yaml.tmp
          task,      \* the stack frame of each task
          disturbed  \* history: updates overlapped, or a save failed, and no
                     \* update has run alone since

vars == <<store, routes, file, tmp, task, disturbed>>

\* models: an explicit list, none, or the list that the server returned
Entry == [key : Keys \cup {NoKey}, models : {"explicit", "none", "fetched"}]

Absent == [key |-> NoKey, models |-> "absent"]

Table == [Ids -> Entry \cup {Absent}]

Empty == [i \in Ids |-> Absent]

\* A file holds a table, is cut short or garbled, or is not there
File    == [kind : {"table"}, table : Table] \cup [kind : {"partial", "missing"}]
Whole(x) == [kind |-> "table", table |-> x]
Partial == [kind |-> "partial"]
Missing == [kind |-> "missing"]

\* fd: the open file of fs::write, which other tasks can rename and remove
\* alone: no other task has been updating since this one began to (history)
Task == [step  : {"idle", "merge", "upsert", "snapshot", "truncate", "fill",
                  "remove", "rename", "list", "replace", "probe", "check"},
         op    : {"none", "set", "delete", "fetch"},
         id    : Ids \cup {NoId},
         entry : Entry \cup {Absent},
         snap  : Table,
         fd    : {"closed", "tmp", "file", "gone"},
         alone : BOOLEAN]

NoTask == [step |-> "idle", op |-> "none", id |-> NoId, entry |-> Absent,
           snap |-> Empty, fd |-> "closed", alone |-> FALSE]

TypeOK ==
    /\ store \in Table
    /\ routes \in Table
    /\ file \in File
    /\ tmp \in File
    /\ task \in [Tasks -> Task]
    /\ \A t \in Tasks : task[t].step # "idle" => task[t].id \in Ids
    /\ \A t \in Tasks :
         /\ task[t].op \in {"set", "fetch"} => task[t].entry \in Entry
         /\ task[t].step \in {"merge", "upsert", "probe", "check"}
              => task[t].op \in {"set", "fetch"}
    /\ disturbed \in BOOLEAN

Init ==
    /\ store = Empty /\ routes = Empty
    /\ file = Missing /\ tmp = Missing
    /\ task = [t \in Tasks |-> NoTask]
    /\ disturbed = FALSE

(***************************************************************************)
(* Handlers                                                                *)
(***************************************************************************)

\* Between a change of the table and the end of its effects
Updating(t) == task[t].step \in {"snapshot", "truncate", "fill", "remove",
                                 "rename", "list", "replace"}

\* Task t changes the entry of its id
Change(t, frame, entry) ==
    LET others == {u \in Tasks \ {t} : Updating(u)}
    IN  /\ store' = [store EXCEPT ![frame.id] = entry]
        /\ task' = [u \in Tasks |->
                      IF u = t THEN [frame EXCEPT !.step = "snapshot",
                                                  !.alone = (others = {})]
                      ELSE [task[u] EXCEPT !.alone = FALSE]]
        /\ disturbed' = (disturbed \/ others # {})

\* POST /api/backends: a request that names no key goes through the merge
Set(t) ==
    /\ task[t].step = "idle"
    /\ \E i \in Ids, k \in Keys \cup {NoKey}, m \in {"explicit", "none"} :
         task' = [task EXCEPT ![t] =
                    [NoTask EXCEPT !.step = IF k = NoKey THEN "merge" ELSE "upsert",
                                   !.op = "set", !.id = i,
                                   !.entry = [key |-> k, models |-> m]]]
    /\ UNCHANGED <<store, routes, file, tmp, disturbed>>

\* The key that is stored now is kept
Merge(t) ==
    /\ task[t].step = "merge"
    /\ task' = [task EXCEPT ![t].step = "upsert",
                            ![t].entry.key = store[task[t].id].key]
    /\ UNCHANGED <<store, routes, file, tmp, disturbed>>

Upsert(t) ==
    /\ task[t].step = "upsert"
    /\ Change(t, task[t], task[t].entry)
    /\ UNCHANGED <<routes, file, tmp>>

\* DELETE /api/backends/{id}: 404 for an id that is not stored
Delete(t) ==
    /\ task[t].step = "idle"
    /\ \E i \in Ids : /\ store[i] # Absent
                      /\ Change(t, [NoTask EXCEPT !.op = "delete", !.id = i], Absent)
    /\ UNCHANGED <<routes, file, tmp>>

(***************************************************************************)
(* BackendStore::save                                                      *)
(***************************************************************************)
\* Mutant: the old file is removed before the new one is written
RemoveFirst(t) ==
    /\ task[t].step = "snapshot"
    /\ task' = [task EXCEPT ![t].step = "truncate", ![t].snap = store]
    /\ file' = Missing
    /\ UNCHANGED <<store, routes, tmp, disturbed>>

\* Mutant: requests are routed by the new table before it is saved
ServeFirst(t) ==
    /\ task[t].step = "snapshot"
    /\ task' = [task EXCEPT ![t].step = "truncate", ![t].snap = store]
    /\ routes' = store
    /\ UNCHANGED <<store, file, tmp, disturbed>>

Snapshot(t) ==
    /\ task[t].step = "snapshot"
    /\ task' = [task EXCEPT ![t].step = "truncate", ![t].snap = store]
    /\ UNCHANGED <<store, routes, file, tmp, disturbed>>

\* Mutant: the file itself is written
WriteInPlace(t) ==
    /\ task[t].step = "truncate"
    /\ file' = Partial
    /\ task' = [task EXCEPT ![t].step = "fill", ![t].fd = "file"]
    /\ UNCHANGED <<store, routes, tmp, disturbed>>

\* fs::write opens the temporary file, cutting what is there ...
Truncate(t) ==
    /\ task[t].step = "truncate"
    /\ tmp' = Partial
    /\ task' = [task EXCEPT ![t].step = "fill", ![t].fd = "tmp"]
    /\ UNCHANGED <<store, routes, file, disturbed>>

\* Written over what another task wrote since, a file can be a mix of both
Written(old, new) == {new} \cup IF old \in {Partial, new} THEN {} ELSE {Partial}

\* ... and writes to it, wherever it was moved meanwhile
Fill(t) ==
    /\ task[t].step = "fill"
    /\ tmp' \in IF task[t].fd = "tmp" THEN Written(tmp, Whole(task[t].snap)) ELSE {tmp}
    /\ file' \in IF task[t].fd = "file" THEN Written(file, Whole(task[t].snap)) ELSE {file}
    /\ task' = [task EXCEPT ![t].step = "remove", ![t].fd = "closed"]
    /\ UNCHANGED <<store, routes, disturbed>>

\* The open files after those at `from` went `to`
Moved(from, to) == [u \in Tasks |-> IF task[u].fd = from THEN [task[u] EXCEPT !.fd = to]
                                    ELSE task[u]]

\* remove_file, whose result is ignored
Remove(t) ==
    /\ task[t].step = "remove"
    /\ file' = Missing
    /\ task' = [Moved("file", "gone") EXCEPT ![t].step = "rename"]
    /\ UNCHANGED <<store, routes, tmp, disturbed>>

Rename(t) ==
    /\ task[t].step = "rename"
    /\ tmp # Missing
    /\ file' = tmp
    /\ tmp' = Missing
    /\ task' = [u \in Tasks |->
                  IF u = t THEN [task[t] EXCEPT !.step = "list", !.snap = Empty]
                  ELSE CASE task[u].fd = "file" -> [task[u] EXCEPT !.fd = "gone"]
                         [] task[u].fd = "tmp"  -> [task[u] EXCEPT !.fd = "file"]
                         [] OTHER -> task[u]]
    /\ UNCHANGED <<store, routes, disturbed>>

\* save returns an error: the file cannot be opened, written or renamed, as when
\* another task renamed it away.  A handler answers 500; the fetched models are
\* applied all the same.
SaveFails(t) ==
    /\ task[t].step \in {"truncate", "fill", "rename"}
    /\ task' = [task EXCEPT ![t] =
                  IF @.op # "fetch" THEN NoTask
                  ELSE [@ EXCEPT !.step = "list", !.snap = Empty, !.fd = "closed",
                                 !.alone = FALSE]]
    /\ disturbed' = TRUE
    /\ UNCHANGED <<store, routes, file, tmp>>

(***************************************************************************)
(* apply_backend_config: the table is read again, then swapped in          *)
(***************************************************************************)
List(t) ==
    /\ task[t].step = "list"
    /\ task' = [task EXCEPT ![t].step = "replace", ![t].snap = store]
    /\ UNCHANGED <<store, routes, file, tmp, disturbed>>

\* Mutant: a deletion does not rebuild the registry
SetReplaces(t) ==
    /\ task[t].step = "replace"
    /\ routes' = IF task[t].op = "delete" THEN routes ELSE task[t].snap
    /\ task' = [task EXCEPT ![t] = NoTask]
    /\ disturbed' = (disturbed /\ ~task[t].alone)
    /\ UNCHANGED <<store, file, tmp>>

\* A save is answered and its entry probed; other tasks end
Replace(t) ==
    /\ task[t].step = "replace"
    /\ routes' = task[t].snap
    /\ task' = [task EXCEPT ![t] =
                  IF @.op # "set" THEN NoTask
                  ELSE [NoTask EXCEPT !.step = "probe", !.op = "fetch",
                                      !.id = task[t].id, !.entry = task[t].entry]]
    /\ disturbed' = (disturbed /\ ~task[t].alone)
    /\ UNCHANGED <<store, file, tmp>>

(***************************************************************************)
(* The probe of a saved entry                                              *)
(***************************************************************************)
ProbeEnds(t) ==
    /\ task[t].step = "probe"
    /\ task' = [task EXCEPT ![t] = NoTask]
    /\ UNCHANGED <<store, routes, file, tmp, disturbed>>

\* The server returned its models, and the entry had none
Fetched(t) ==
    /\ task[t].step = "probe"
    /\ task[t].entry.models = "none"
    /\ task' = [task EXCEPT ![t].step = "check", ![t].entry.models = "fetched"]
    /\ UNCHANGED <<store, routes, file, tmp, disturbed>>

\* The entry is written back if there is one of its id
Check(t) ==
    /\ task[t].step = "check"
    /\ task' = [task EXCEPT ![t] = IF store[@.id] = Absent THEN NoTask
                                   ELSE [@ EXCEPT !.step = "upsert"]]
    /\ UNCHANGED <<store, routes, file, tmp, disturbed>>

(***************************************************************************)
(* A crash, and the start that follows: load_entries takes a file that is  *)
(* not there or does not parse for an empty one                            *)
(***************************************************************************)
LoadEntries == IF file.kind = "table" THEN file.table ELSE Empty

Restart ==
    /\ store' = LoadEntries
    /\ routes' = LoadEntries
    /\ task' = [t \in Tasks |-> NoTask]
    /\ UNCHANGED <<file, tmp, disturbed>>

-----------------------------------------------------------------------------
Step(t) == \/ Set(t) \/ Merge(t) \/ Upsert(t) \/ Delete(t)
           \/ Snapshot(t) \/ Truncate(t) \/ Fill(t) \/ Remove(t) \/ Rename(t)
           \/ SaveFails(t) \/ List(t) \/ Replace(t)
           \/ ProbeEnds(t) \/ Fetched(t) \/ Check(t)

Next == (\E t \in Tasks : Step(t)) \/ Restart

Spec == Init /\ [][Next]_vars

(***************************************************************************)
(* Properties                                                              *)
(***************************************************************************)

\* "Hot, without a restart": when no update is under way, requests are routed
\* by the table that is stored, and the file holds it too, unless the last
\* updates overlapped or failed.  One update that runs alone puts all three
\* right again.
AgreedAtRest ==
    disturbed \/ (\E t \in Tasks : Updating(t)) \/
        /\ routes = store
        /\ file = Whole(store) \/ (file.kind = "missing" /\ store = Empty)

\* The temporary file does its work: unless updates overlapped, backends.yaml is
\* never cut short, whenever the leader crashes.
NeverHalfWritten == disturbed \/ file.kind # "partial"

\* A crash during an update leaves the table of before it or of after it, except
\* between the removal of the old file and the rename of the new one.
CrashKeepsTable ==
    [][Restart /\ ~disturbed => \/ store' \in {store, routes}
                                \/ \E t \in Tasks : task[t].step = "rename"]_vars

(***************************************************************************)
(* What the three together promise: AtomicTable, where a start loads what  *)
(* LoadEntries makes of the file.                                          *)
(***************************************************************************)
At(steps) == \E t \in Tasks : task[t].step \in steps

Phase == IF disturbed THEN "unknown"
         ELSE IF At({"snapshot", "truncate", "fill", "remove"}) THEN "changed"
         ELSE IF At({"rename"}) THEN "lost"
         ELSE IF At({"list", "replace"}) THEN "saved"
         ELSE "rest"

Atomic == INSTANCE AtomicTable
    WITH Values <- Entry \cup {Absent}, Blank <- Absent,
         table <- store, saved <- LoadEntries, served <- routes, phase <- Phase

\* Handlers, failing writes, probes that write back and crashes, seen from outside:
\* an update is one change of one entry that memory, file and routes go through in
\* this order, and as long as no two of them overlap and no save fails, nothing
\* else ever changes what is stored, loaded or routed by.  After that nothing is
\* promised until an update that ran alone has brought the three together again.
TableIsAtomic == Atomic!Spec
=============================================================================
