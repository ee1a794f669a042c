---------------------------- MODULE BackendProofs ----------------------------
(***************************************************************************)
(* Proofs about Backends: an update that runs alone leaves store, file and *)
(* routes in agreement, no crash finds half a file, and the three together *)
(* are an AtomicTable.                                                     *)
(***************************************************************************)
EXTENDS Backends, TLAPS

-----------------------------------------------------------------------------
(* Types *)

\* A frame that is at work knows its id, and one that writes an entry has it
TaskOK(k) ==
    /\ k.step # "idle" => k.id \in Ids
    /\ k.op \in {"set", "fetch"} => k.entry \in Entry
    /\ k.step \in {"merge", "upsert", "probe", "check"} => k.op \in {"set", "fetch"}

TaskTypes == task \in [Tasks -> Task] /\ \A t \in Tasks : TaskOK(task[t])

DataTypes == store \in Table /\ routes \in Table /\ file \in File /\ tmp \in File
             /\ disturbed \in BOOLEAN

LEMMA TypeParts ==
    /\ TypeOK <=> TaskTypes /\ DataTypes
    /\ TypeOK' <=> TaskTypes' /\ DataTypes'
BY DEF TypeOK, TaskTypes, DataTypes, TaskOK

Steps == {"idle", "merge", "upsert", "snapshot", "truncate", "fill",
          "remove", "rename", "list", "replace", "probe", "check"}

LEMMA FieldTyped ==
    ASSUME NEW k \in Task
    PROVE  /\ \A x \in Steps : [k EXCEPT !.step = x] \in Task
           /\ \A x \in {"none", "set", "delete", "fetch"} : [k EXCEPT !.op = x] \in Task
           /\ \A x \in Ids \cup {NoId} : [k EXCEPT !.id = x] \in Task
           /\ \A x \in Entry \cup {Absent} : [k EXCEPT !.entry = x] \in Task
           /\ \A x \in Table : [k EXCEPT !.snap = x] \in Task
           /\ \A x \in {"closed", "tmp", "file", "gone"} : [k EXCEPT !.fd = x] \in Task
           /\ \A x \in BOOLEAN : [k EXCEPT !.alone = x] \in Task
<1>1. \A x \in Steps : [k EXCEPT !.step = x] \in Task
  BY DEF Task, Steps
<1>2. \A x \in {"none", "set", "delete", "fetch"} : [k EXCEPT !.op = x] \in Task
  BY DEF Task
<1>3. \A x \in Ids \cup {NoId} : [k EXCEPT !.id = x] \in Task
  BY DEF Task
<1>4. \A x \in Entry \cup {Absent} : [k EXCEPT !.entry = x] \in Task
  BY DEF Task
<1>5. \A x \in Table : [k EXCEPT !.snap = x] \in Task
  BY DEF Task
<1>6. \A x \in {"closed", "tmp", "file", "gone"} : [k EXCEPT !.fd = x] \in Task
  BY DEF Task
<1>7. \A x \in BOOLEAN : [k EXCEPT !.alone = x] \in Task
  BY DEF Task
<1> QED
  BY <1>1, <1>2, <1>3, <1>4, <1>5, <1>6, <1>7

LEMMA TaskFields ==
    ASSUME NEW k \in Task
    PROVE  /\ k.step \in Steps /\ k.op \in {"none", "set", "delete", "fetch"}
           /\ k.id \in Ids \cup {NoId} /\ k.entry \in Entry \cup {Absent} /\ k.snap \in Table
           /\ k.fd \in {"closed", "tmp", "file", "gone"} /\ k.alone \in BOOLEAN
BY DEF Task, Steps

LEMMA EmptyTyped == Empty \in Table
BY DEF Empty, Table

LEMMA NoTaskTyped ==
    /\ NoTask \in Task /\ TaskOK(NoTask)
    /\ NoTask.step = "idle" /\ NoTask.op = "none" /\ NoTask.fd = "closed" /\ NoTask.alone = FALSE
<1>1. NoTask \in Task
  BY EmptyTyped DEF NoTask, Task
<1>2. /\ NoTask.step = "idle" /\ NoTask.op = "none" /\ NoTask.fd = "closed"
      /\ NoTask.alone = FALSE
  BY DEF NoTask
<1> QED
  BY <1>1, <1>2 DEF TaskOK

LEMMA InitTyped == Init => TypeOK
<1> SUFFICES ASSUME Init PROVE TypeOK
  OBVIOUS
<1>1. TaskTypes
  BY NoTaskTyped DEF Init, TaskTypes
<1>2. DataTypes
  BY EmptyTyped DEF Init, DataTypes, File, Missing
<1> QED
  BY <1>1, <1>2, TypeParts

-----------------------------------------------------------------------------
(* What each step does to the frames *)

Others(t) == \A u \in Tasks \ {t} : task'[u] = task[u]

\* One frame is replaced
LEMMA PutTyped ==
    ASSUME TaskTypes, NEW t \in Tasks, NEW k \in Task, TaskOK(k),
           task' = [task EXCEPT ![t] = k]
    PROVE  TaskTypes' /\ Others(t) /\ task'[t] = k
BY DEF TaskTypes, Others

\* A frame that goes on with the same request
LEMMA GoesOn ==
    ASSUME NEW f \in Task, NEW k \in Task, TaskOK(f), f.step # "idle",
           k.id = f.id, k.op = f.op, k.entry = f.entry,
           k.step \in {"merge", "upsert", "probe", "check"} => f.op \in {"set", "fetch"}
    PROVE  TaskOK(k)
BY DEF TaskOK

LEMMA SetDoes ==
    ASSUME TaskTypes, NEW t \in Tasks, Set(t)
    PROVE  /\ TaskTypes' /\ Others(t)
           /\ task'[t].step \in {"merge", "upsert"} /\ task'[t].fd = "closed"
<1>1. PICK i \in Ids, key \in Keys \cup {NoKey}, m \in {"explicit", "none"} :
        task' = [task EXCEPT ![t] = [NoTask EXCEPT
                   !.step = IF key = NoKey THEN "merge" ELSE "upsert", !.op = "set", !.id = i,
                   !.entry = [key |-> key, models |-> m]]]
  BY DEF Set
<1> DEFINE s == IF key = NoKey THEN "merge" ELSE "upsert"
           e == [key |-> key, models |-> m]
           k1 == [NoTask EXCEPT !.step = s]
           k2 == [k1 EXCEPT !.op = "set"]
           k3 == [k2 EXCEPT !.id = i]
           k4 == [k3 EXCEPT !.entry = e]
<1>2. e \in Entry
  BY DEF Entry
<1>3. s \in Steps /\ s \in {"merge", "upsert"}
  BY DEF Steps
<1>4. task' = [task EXCEPT ![t] = k4]
  BY <1>1
<1> HIDE DEF e, s
<1>5. k4.step = s /\ k4.op = "set" /\ k4.id = i /\ k4.entry = e /\ k4.fd = "closed"
  BY NoTaskTyped DEF Task
<1>6. k1 \in Task
  BY <1>3, NoTaskTyped, FieldTyped
<1> HIDE DEF k1
<1>7. k2 \in Task
  BY <1>6, FieldTyped
<1> HIDE DEF k2
<1>8. k3 \in Task
  BY <1>7, FieldTyped
<1> HIDE DEF k3
<1>9. k4 \in Task
  BY <1>8, <1>2, FieldTyped
<1>10. TaskOK(k4)
  BY <1>5, <1>2 DEF TaskOK
<1> HIDE DEF k4
<1> QED
  BY <1>3, <1>4, <1>5, <1>9, <1>10, PutTyped

LEMMA MergeDoes ==
    ASSUME TaskTypes, store \in Table, NEW t \in Tasks, Merge(t)
    PROVE  /\ TaskTypes' /\ Others(t)
           /\ task'[t].step = "upsert" /\ task'[t].fd = task[t].fd
<1> DEFINE f == task[t]
           e == [f.entry EXCEPT !.key = store[f.id].key]
           k1 == [f EXCEPT !.step = "upsert"]
           k2 == [k1 EXCEPT !.entry = e]
<1>1. f \in Task /\ TaskOK(f) /\ f.step = "merge"
  BY DEF TaskTypes, Merge
<1>2. f.id \in Ids /\ f.entry \in Entry /\ f.op \in {"set", "fetch"}
  BY <1>1 DEF TaskOK
<1>3. store[f.id] \in Entry \cup {Absent}
  BY <1>2 DEF Table
<1>4. store[f.id].key \in Keys \cup {NoKey}
  BY <1>3 DEF Entry, Absent
<1>5. e \in Entry
  BY <1>2, <1>4 DEF Entry
<1>6. task' = [task EXCEPT ![t] = k2]
  BY <1>1 DEF Merge, TaskTypes, Task
<1> HIDE DEF e
<1>7. k2.step = "upsert" /\ k2.op = f.op /\ k2.id = f.id /\ k2.entry = e /\ k2.fd = f.fd
  BY <1>1 DEF Task
<1>8. k1 \in Task
  BY <1>1, FieldTyped DEF Steps
<1> HIDE DEF k1
<1>9. k2 \in Task
  BY <1>8, <1>5, FieldTyped
<1>10. TaskOK(k2)
  BY <1>2, <1>5, <1>7 DEF TaskOK
<1> HIDE DEF k2
<1> QED
  BY <1>6, <1>7, <1>9, <1>10, PutTyped

LEMMA SnapshotDoes ==
    ASSUME TaskTypes, store \in Table, NEW t \in Tasks, Snapshot(t)
    PROVE  /\ TaskTypes' /\ Others(t)
           /\ task'[t].step = "truncate" /\ task'[t].snap = store
           /\ task'[t].fd = task[t].fd /\ task'[t].alone = task[t].alone
<1> DEFINE f == task[t]
           k1 == [f EXCEPT !.step = "truncate"]
           k2 == [k1 EXCEPT !.snap = store]
<1>1. f \in Task /\ TaskOK(f) /\ f.step = "snapshot"
  BY DEF TaskTypes, Snapshot
<1>2. task' = [task EXCEPT ![t] = k2]
  BY <1>1 DEF Snapshot, TaskTypes
<1>3. /\ k2.step = "truncate" /\ k2.op = f.op /\ k2.id = f.id /\ k2.entry = f.entry
      /\ k2.snap = store /\ k2.fd = f.fd /\ k2.alone = f.alone
  BY <1>1 DEF Task
<1>4. k1 \in Task
  BY <1>1, FieldTyped DEF Steps
<1> HIDE DEF k1
<1>5. k2 \in Task
  BY <1>4, FieldTyped
<1> HIDE DEF k2
<1>6. TaskOK(k2)
  BY <1>1, <1>3, <1>5, GoesOn
<1> QED
  BY <1>2, <1>3, <1>5, <1>6, PutTyped

LEMMA ListDoes ==
    ASSUME TaskTypes, store \in Table, NEW t \in Tasks, List(t)
    PROVE  /\ TaskTypes' /\ Others(t)
           /\ task'[t].step = "replace" /\ task'[t].snap = store
           /\ task'[t].fd = task[t].fd /\ task'[t].alone = task[t].alone
<1> DEFINE f == task[t]
           k1 == [f EXCEPT !.step = "replace"]
           k2 == [k1 EXCEPT !.snap = store]
<1>1. f \in Task /\ TaskOK(f) /\ f.step = "list"
  BY DEF TaskTypes, List
<1>2. task' = [task EXCEPT ![t] = k2]
  BY <1>1 DEF List, TaskTypes
<1>3. /\ k2.step = "replace" /\ k2.op = f.op /\ k2.id = f.id /\ k2.entry = f.entry
      /\ k2.snap = store /\ k2.fd = f.fd /\ k2.alone = f.alone
  BY <1>1 DEF Task
<1>4. k1 \in Task
  BY <1>1, FieldTyped DEF Steps
<1> HIDE DEF k1
<1>5. k2 \in Task
  BY <1>4, FieldTyped
<1> HIDE DEF k2
<1>6. TaskOK(k2)
  BY <1>1, <1>3, <1>5, GoesOn
<1> QED
  BY <1>2, <1>3, <1>5, <1>6, PutTyped

LEMMA TruncateDoes ==
    ASSUME TaskTypes, NEW t \in Tasks, Truncate(t)
    PROVE  /\ TaskTypes' /\ Others(t)
           /\ task'[t].step = "fill" /\ task'[t].fd = "tmp"
           /\ task'[t].snap = task[t].snap /\ task'[t].alone = task[t].alone
<1> DEFINE f == task[t]
           k1 == [f EXCEPT !.step = "fill"]
           k2 == [k1 EXCEPT !.fd = "tmp"]
<1>1. f \in Task /\ TaskOK(f) /\ f.step = "truncate"
  BY DEF TaskTypes, Truncate
<1>2. task' = [task EXCEPT ![t] = k2]
  BY <1>1 DEF Truncate, TaskTypes
<1>3. /\ k2.step = "fill" /\ k2.op = f.op /\ k2.id = f.id /\ k2.entry = f.entry
      /\ k2.snap = f.snap /\ k2.fd = "tmp" /\ k2.alone = f.alone
  BY <1>1 DEF Task
<1>4. k1 \in Task
  BY <1>1, FieldTyped DEF Steps
<1> HIDE DEF k1
<1>5. k2 \in Task
  BY <1>4, FieldTyped
<1> HIDE DEF k2
<1>6. TaskOK(k2)
  BY <1>1, <1>3, <1>5, GoesOn
<1> QED
  BY <1>2, <1>3, <1>5, <1>6, PutTyped

LEMMA FillDoes ==
    ASSUME TaskTypes, NEW t \in Tasks, Fill(t)
    PROVE  /\ TaskTypes' /\ Others(t)
           /\ task'[t].step = "remove" /\ task'[t].fd = "closed"
           /\ task'[t].alone = task[t].alone
<1> DEFINE f == task[t]
           k1 == [f EXCEPT !.step = "remove"]
           k2 == [k1 EXCEPT !.fd = "closed"]
<1>1. f \in Task /\ TaskOK(f) /\ f.step = "fill"
  BY DEF TaskTypes, Fill
<1>2. task' = [task EXCEPT ![t] = k2]
  BY <1>1 DEF Fill, TaskTypes
<1>3. /\ k2.step = "remove" /\ k2.op = f.op /\ k2.id = f.id /\ k2.entry = f.entry
      /\ k2.fd = "closed" /\ k2.alone = f.alone
  BY <1>1 DEF Task
<1>4. k1 \in Task
  BY <1>1, FieldTyped DEF Steps
<1> HIDE DEF k1
<1>5. k2 \in Task
  BY <1>4, FieldTyped
<1> HIDE DEF k2
<1>6. TaskOK(k2)
  BY <1>1, <1>3, <1>5, GoesOn
<1> QED
  BY <1>2, <1>3, <1>5, <1>6, PutTyped

LEMMA FetchedDoes ==
    ASSUME TaskTypes, NEW t \in Tasks, Fetched(t)
    PROVE  /\ TaskTypes' /\ Others(t)
           /\ task'[t].step = "check" /\ task'[t].fd = task[t].fd
<1> DEFINE f == task[t]
           e == [f.entry EXCEPT !.models = "fetched"]
           k1 == [f EXCEPT !.step = "check"]
           k2 == [k1 EXCEPT !.entry = e]
<1>1. f \in Task /\ TaskOK(f) /\ f.step = "probe"
  BY DEF TaskTypes, Fetched
<1>2. f.id \in Ids /\ f.entry \in Entry /\ f.op \in {"set", "fetch"}
  BY <1>1 DEF TaskOK
<1>3. e \in Entry
  BY <1>2 DEF Entry
<1>4. task' = [task EXCEPT ![t] = k2]
  BY <1>1 DEF Fetched, TaskTypes, Task
<1> HIDE DEF e
<1>5. k2.step = "check" /\ k2.op = f.op /\ k2.id = f.id /\ k2.entry = e /\ k2.fd = f.fd
  BY <1>1 DEF Task
<1>6. k1 \in Task
  BY <1>1, FieldTyped DEF Steps
<1> HIDE DEF k1
<1>7. k2 \in Task
  BY <1>6, <1>3, FieldTyped
<1>8. TaskOK(k2)
  BY <1>2, <1>3, <1>5 DEF TaskOK
<1> HIDE DEF k2
<1> QED
  BY <1>4, <1>5, <1>7, <1>8, PutTyped

\* A task that ends
LEMMA EndTyped ==
    ASSUME TaskTypes, NEW t \in Tasks, task' = [task EXCEPT ![t] = NoTask]
    PROVE  TaskTypes' /\ Others(t) /\ task'[t].step = "idle" /\ task'[t].fd = "closed"
BY NoTaskTyped, PutTyped

LEMMA CheckDoes ==
    ASSUME TaskTypes, NEW t \in Tasks, Check(t)
    PROVE  /\ TaskTypes' /\ Others(t)
           /\ task'[t].step \in {"idle", "upsert"} /\ task'[t].fd \in {"closed", task[t].fd}
<1> DEFINE f == task[t]
           k == [f EXCEPT !.step = "upsert"]
<1>1. f \in Task /\ TaskOK(f) /\ f.step = "check"
  BY DEF TaskTypes, Check
<1>2. CASE store[f.id] = Absent
  <2>1. task' = [task EXCEPT ![t] = NoTask]
    BY <1>2 DEF Check, TaskTypes
  <2> QED
    BY <2>1, EndTyped
<1>3. CASE store[f.id] # Absent
  <2>1. task' = [task EXCEPT ![t] = k]
    BY <1>3 DEF Check, TaskTypes
  <2>2. k.step = "upsert" /\ k.op = f.op /\ k.id = f.id /\ k.entry = f.entry /\ k.fd = f.fd
    BY <1>1 DEF Task
  <2>3. k \in Task
    BY <1>1, FieldTyped DEF Steps
  <2> HIDE DEF k
  <2>4. f.op \in {"set", "fetch"}
    BY <1>1 DEF TaskOK
  <2>5. TaskOK(k)
    BY <1>1, <2>2, <2>3, <2>4, GoesOn
  <2> QED
    BY <2>1, <2>2, <2>3, <2>5, PutTyped
<1> QED
  BY <1>2, <1>3

LEMMA ReplaceDoes ==
    ASSUME TaskTypes, NEW t \in Tasks, Replace(t)
    PROVE  /\ TaskTypes' /\ Others(t)
           /\ task'[t].step \in {"idle", "probe"} /\ task'[t].fd = "closed"
<1> DEFINE f == task[t]
           k1 == [NoTask EXCEPT !.step = "probe"]
           k2 == [k1 EXCEPT !.op = "fetch"]
           k3 == [k2 EXCEPT !.id = f.id]
           k4 == [k3 EXCEPT !.entry = f.entry]
<1>1. f \in Task /\ TaskOK(f) /\ f.step = "replace"
  BY DEF TaskTypes, Replace
<1>2. CASE f.op # "set"
  <2>1. task' = [task EXCEPT ![t] = NoTask]
    BY <1>2 DEF Replace, TaskTypes
  <2> QED
    BY <2>1, EndTyped
<1>3. CASE f.op = "set"
  <2>1. task' = [task EXCEPT ![t] = k4]
    BY <1>3 DEF Replace, TaskTypes
  <2>2. f.id \in Ids /\ f.entry \in Entry
    BY <1>1, <1>3 DEF TaskOK
  <2>3. k4.step = "probe" /\ k4.op = "fetch" /\ k4.id = f.id /\ k4.entry = f.entry
        /\ k4.fd = "closed"
    BY NoTaskTyped DEF Task
  <2>4. k1 \in Task
    BY NoTaskTyped, FieldTyped DEF Steps
  <2> HIDE DEF k1
  <2>5. k2 \in Task
    BY <2>4, FieldTyped
  <2> HIDE DEF k2
  <2>6. k3 \in Task
    BY <2>5, <2>2, FieldTyped
  <2> HIDE DEF k3
  <2>7. k4 \in Task
    BY <2>6, <2>2, FieldTyped
  <2>8. TaskOK(k4)
    BY <2>2, <2>3 DEF TaskOK
  <2> HIDE DEF k4
  <2> QED
    BY <2>1, <2>3, <2>7, <2>8, PutTyped
<1> QED
  BY <1>2, <1>3

LEMMA SaveFailsDoes ==
    ASSUME TaskTypes, NEW t \in Tasks, SaveFails(t)
    PROVE  /\ TaskTypes' /\ Others(t)
           /\ task'[t].step \in {"idle", "list"} /\ task'[t].fd = "closed"
           /\ task'[t].alone = FALSE
<1> DEFINE f == task[t]
           k1 == [f EXCEPT !.step = "list"]
           k2 == [k1 EXCEPT !.snap = Empty]
           k3 == [k2 EXCEPT !.fd = "closed"]
           k4 == [k3 EXCEPT !.alone = FALSE]
<1>1. f \in Task /\ TaskOK(f) /\ f.step # "idle"
  BY DEF TaskTypes, SaveFails
<1>2. CASE f.op # "fetch"
  <2>1. task' = [task EXCEPT ![t] = NoTask]
    BY <1>2 DEF SaveFails, TaskTypes
  <2> QED
    BY <2>1, PutTyped, NoTaskTyped
<1>3. CASE f.op = "fetch"
  <2>1. task' = [task EXCEPT ![t] = k4]
    BY <1>3 DEF SaveFails, TaskTypes
  <2>2. k4.step = "list" /\ k4.op = f.op /\ k4.id = f.id /\ k4.entry = f.entry
        /\ k4.fd = "closed" /\ k4.alone = FALSE
    BY <1>1 DEF Task
  <2>3. k1 \in Task
    BY <1>1, FieldTyped DEF Steps
  <2> HIDE DEF k1
  <2>4. k2 \in Task
    BY <2>3, EmptyTyped, FieldTyped
  <2> HIDE DEF k2
  <2>5. k3 \in Task
    BY <2>4, FieldTyped
  <2> HIDE DEF k3
  <2>6. k4 \in Task
    BY <2>5, FieldTyped
  <2> HIDE DEF k4
  <2>7. TaskOK(k4)
    BY <1>1, <2>2, <2>6, GoesOn
  <2> QED
    BY <2>1, <2>2, <2>6, <2>7, PutTyped
<1> QED
  BY <1>2, <1>3

-----------------------------------------------------------------------------
(* The steps that touch the frames of other tasks *)

\* A change takes its turn alone from every other update
Alone(t) == \A u \in Tasks \ {t} : ~Updating(u)

\* The others go on where they were
Same(u) == task'[u].step = task[u].step /\ task'[u].snap = task[u].snap

LEMMA ChangeDoes ==
    ASSUME TaskTypes, store \in Table, NEW t \in Tasks, NEW f \in Task, f.id \in Ids,
           f.op \in {"set", "fetch"} => f.entry \in Entry,
           NEW e \in Entry \cup {Absent}, Change(t, f, e)
    PROVE  /\ TaskTypes' /\ store' \in Table
           /\ task'[t].step = "snapshot" /\ task'[t].fd = f.fd
           /\ task'[t].alone \in BOOLEAN /\ (task'[t].alone = TRUE <=> Alone(t))
           /\ \A u \in Tasks \ {t} :
                Same(u) /\ task'[u].fd = task[u].fd /\ task'[u].alone = FALSE
           /\ disturbed' = (disturbed \/ ~Alone(t))
<1> DEFINE others == {u \in Tasks \ {t} : Updating(u)}
           a == others = {}
           k1 == [f EXCEPT !.step = "snapshot"]
           k2 == [k1 EXCEPT !.alone = a]
           g(u) == [task[u] EXCEPT !.alone = FALSE]
<1>1. a <=> Alone(t)
  BY DEF Alone
<1>2. task' = [u \in Tasks |-> IF u = t THEN k2 ELSE g(u)]
  BY DEF Change
<1>3. disturbed' = (disturbed \/ ~a)
  BY DEF Change
<1>4. a \in BOOLEAN
  OBVIOUS
<1> HIDE DEF others, a
<1>5. k2.step = "snapshot" /\ k2.op = f.op /\ k2.id = f.id /\ k2.entry = f.entry
      /\ k2.fd = f.fd /\ k2.alone = a
  BY DEF Task
<1>6. k1 \in Task
  BY FieldTyped DEF Steps
<1> HIDE DEF k1
<1>7. k2 \in Task
  BY <1>4, <1>6, FieldTyped
<1> HIDE DEF k2
<1>8. TaskOK(k2)
  BY <1>5 DEF TaskOK
<1>9. ASSUME NEW u \in Tasks
      PROVE  /\ g(u) \in Task /\ TaskOK(g(u))
             /\ g(u).step = task[u].step /\ g(u).snap = task[u].snap
             /\ g(u).fd = task[u].fd /\ g(u).alone = FALSE
  <2>1. task[u] \in Task /\ TaskOK(task[u])
    BY DEF TaskTypes
  <2>2. g(u) \in Task
    BY <2>1, FieldTyped
  <2>3. /\ g(u).step = task[u].step /\ g(u).op = task[u].op /\ g(u).id = task[u].id
        /\ g(u).entry = task[u].entry /\ g(u).snap = task[u].snap
        /\ g(u).fd = task[u].fd /\ g(u).alone = FALSE
    BY <2>1 DEF Task
  <2>4. TaskOK(g(u))
    BY <2>1, <2>3 DEF TaskOK
  <2> QED
    BY <2>2, <2>3, <2>4
<1> HIDE DEF g
<1>10. TaskTypes'
  BY <1>2, <1>7, <1>8, <1>9 DEF TaskTypes
<1>11. store' \in Table
  BY DEF Change, Table
<1>12. task'[t] = k2 /\ \A u \in Tasks \ {t} : task'[u] = g(u)
  BY <1>2
<1>13. k2.alone \in BOOLEAN /\ (k2.alone = TRUE <=> Alone(t))
  BY <1>1, <1>4, <1>5
<1>14. disturbed' = (disturbed \/ ~Alone(t))
  BY <1>1, <1>3, Zenon
<1> QED
  BY <1>5, <1>9, <1>10, <1>11, <1>12, <1>13, <1>14 DEF Same

LEMMA UpsertDoes ==
    ASSUME TaskTypes, store \in Table, NEW t \in Tasks, Upsert(t)
    PROVE  /\ TaskTypes' /\ store' \in Table
           /\ ~Updating(t) /\ task'[t].step = "snapshot" /\ task'[t].fd = task[t].fd
           /\ task'[t].alone \in BOOLEAN /\ (task'[t].alone = TRUE <=> Alone(t))
           /\ \A u \in Tasks \ {t} :
                Same(u) /\ task'[u].fd = task[u].fd /\ task'[u].alone = FALSE
           /\ disturbed' = (disturbed \/ ~Alone(t))
<1> DEFINE f == task[t]
<1>1. f \in Task /\ TaskOK(f) /\ f.step = "upsert"
  BY DEF TaskTypes, Upsert
<1>2. f.id \in Ids /\ f.entry \in Entry
  BY <1>1 DEF TaskOK
<1>3. Change(t, f, f.entry) /\ ~Updating(t)
  BY <1>1 DEF Upsert, Updating
<1> HIDE DEF f
<1>4. f.entry \in Entry \cup {Absent}
  BY <1>2
<1> QED
  BY <1>1, <1>2, <1>3, <1>4, ChangeDoes DEF f

LEMMA DeleteDoes ==
    ASSUME TaskTypes, store \in Table, NEW t \in Tasks, Delete(t)
    PROVE  /\ TaskTypes' /\ store' \in Table
           /\ ~Updating(t) /\ task'[t].step = "snapshot" /\ task'[t].fd = "closed"
           /\ task'[t].alone \in BOOLEAN /\ (task'[t].alone = TRUE <=> Alone(t))
           /\ \A u \in Tasks \ {t} :
                Same(u) /\ task'[u].fd = task[u].fd /\ task'[u].alone = FALSE
           /\ disturbed' = (disturbed \/ ~Alone(t))
<1>1. PICK i \in Ids : Change(t, [NoTask EXCEPT !.op = "delete", !.id = i], Absent)
  BY DEF Delete
<1> DEFINE k1 == [NoTask EXCEPT !.op = "delete"]
           f == [k1 EXCEPT !.id = i]
<1>2. Change(t, f, Absent)
  BY <1>1
<1>3. f.id \in Ids /\ f.op = "delete" /\ f.fd = "closed"
  BY NoTaskTyped DEF Task
<1>4. k1 \in Task
  BY NoTaskTyped, FieldTyped
<1> HIDE DEF k1
<1>5. f \in Task
  BY <1>4, FieldTyped
<1> HIDE DEF f
<1>6. ~Updating(t)
  BY DEF Delete, Updating
<1>7. Absent \in Entry \cup {Absent}
  OBVIOUS
<1> QED
  BY <1>2, <1>3, <1>5, <1>6, <1>7, ChangeDoes

\* The files that are open move with the file
LEMMA RemoveDoes ==
    ASSUME TaskTypes, NEW t \in Tasks, Remove(t)
    PROVE  /\ TaskTypes'
           /\ task'[t].step = "rename" /\ task'[t].snap = task[t].snap
           /\ \A u \in Tasks \ {t} : Same(u)
           /\ \A u \in Tasks : /\ task'[u].alone = task[u].alone
                               /\ task[u].fd = "closed" => task'[u].fd = "closed"
<1> DEFINE g(u) == IF task[u].fd = "file" THEN [task[u] EXCEPT !.fd = "gone"] ELSE task[u]
           k == [g(t) EXCEPT !.step = "rename"]
<1>1. ASSUME NEW u \in Tasks
      PROVE  /\ g(u) \in Task /\ TaskOK(g(u))
             /\ g(u).step = task[u].step /\ g(u).snap = task[u].snap
             /\ g(u).alone = task[u].alone
             /\ task[u].fd = "closed" => g(u).fd = "closed"
  <2>1. task[u] \in Task /\ TaskOK(task[u])
    BY DEF TaskTypes
  <2>2. g(u) \in Task
    BY <2>1, FieldTyped
  <2>3. /\ g(u).step = task[u].step /\ g(u).op = task[u].op /\ g(u).id = task[u].id
        /\ g(u).entry = task[u].entry /\ g(u).snap = task[u].snap
        /\ g(u).alone = task[u].alone
        /\ task[u].fd = "closed" => g(u).fd = "closed"
    BY <2>1 DEF Task
  <2>4. TaskOK(g(u))
    BY <2>1, <2>3 DEF TaskOK
  <2> QED
    BY <2>2, <2>3, <2>4
<1>2. task' = [[u \in Tasks |-> g(u)] EXCEPT ![t] = k]
  BY DEF Remove, Moved
<1>3. task[t].step = "remove"
  BY DEF Remove
<1> HIDE DEF g
<1>4. k \in Task
  BY <1>1, FieldTyped DEF Steps
<1>5. /\ k.step = "rename" /\ k.snap = g(t).snap /\ k.alone = g(t).alone /\ k.fd = g(t).fd
      /\ k.op = g(t).op /\ k.id = g(t).id /\ k.entry = g(t).entry
  BY <1>1 DEF Task
<1> HIDE DEF k
<1>6. g(t) \in Task /\ TaskOK(g(t)) /\ g(t).step # "idle"
  BY <1>1, <1>3
<1>7. TaskOK(k)
  BY <1>4, <1>5, <1>6, GoesOn
<1>8. task' = [u \in Tasks |-> IF u = t THEN k ELSE g(u)]
  BY <1>2
<1>9. TaskTypes'
  BY <1>1, <1>4, <1>7, <1>8 DEF TaskTypes
<1>10. task'[t] = k /\ \A u \in Tasks \ {t} : task'[u] = g(u)
  BY <1>8
<1> QED
  BY <1>1, <1>5, <1>9, <1>10 DEF Same

LEMMA RenameDoes ==
    ASSUME TaskTypes, NEW t \in Tasks, Rename(t)
    PROVE  /\ TaskTypes'
           /\ task'[t].step = "list" /\ task'[t].fd = task[t].fd
           /\ \A u \in Tasks \ {t} : Same(u)
           /\ \A u \in Tasks : /\ task'[u].alone = task[u].alone
                               /\ task[u].fd = "closed" => task'[u].fd = "closed"
<1> DEFINE g(u) == CASE task[u].fd = "file" -> [task[u] EXCEPT !.fd = "gone"]
                     [] task[u].fd = "tmp"  -> [task[u] EXCEPT !.fd = "file"]
                     [] OTHER -> task[u]
           f == task[t]
           k1 == [f EXCEPT !.step = "list"]
           k == [k1 EXCEPT !.snap = Empty]
<1>1. ASSUME NEW u \in Tasks
      PROVE  /\ g(u) \in Task /\ TaskOK(g(u))
             /\ g(u).step = task[u].step /\ g(u).snap = task[u].snap
             /\ g(u).alone = task[u].alone
             /\ task[u].fd = "closed" => g(u).fd = "closed"
  <2>1. task[u] \in Task /\ TaskOK(task[u])
    BY DEF TaskTypes
  <2>2. g(u) \in Task
    BY <2>1, FieldTyped
  <2>3. /\ g(u).step = task[u].step /\ g(u).op = task[u].op /\ g(u).id = task[u].id
        /\ g(u).entry = task[u].entry /\ g(u).snap = task[u].snap
        /\ g(u).alone = task[u].alone
        /\ task[u].fd = "closed" => g(u).fd = "closed"
    BY <2>1 DEF Task
  <2>4. TaskOK(g(u))
    BY <2>1, <2>3 DEF TaskOK
  <2> QED
    BY <2>2, <2>3, <2>4
<1>2. task' = [u \in Tasks |-> IF u = t THEN k ELSE g(u)]
  BY DEF Rename
<1> HIDE DEF g
<1>3. f \in Task /\ TaskOK(f) /\ f.step = "rename"
  BY DEF TaskTypes, Rename
<1>4. k.step = "list" /\ k.alone = f.alone /\ k.fd = f.fd
      /\ k.op = f.op /\ k.id = f.id /\ k.entry = f.entry
  BY <1>3 DEF Task
<1>5. k1 \in Task
  BY <1>3, FieldTyped DEF Steps
<1> HIDE DEF k1
<1>6. k \in Task
  BY <1>5, EmptyTyped, FieldTyped
<1> HIDE DEF k
<1>7. TaskOK(k)
  BY <1>3, <1>4, <1>6, GoesOn
<1>8. TaskTypes'
  BY <1>1, <1>2, <1>6, <1>7 DEF TaskTypes
<1>9. task'[t] = k /\ \A u \in Tasks \ {t} : task'[u] = g(u)
  BY <1>2
<1> QED
  BY <1>1, <1>4, <1>8, <1>9 DEF Same

-----------------------------------------------------------------------------
(* Type correctness *)

LEMMA TablesTyped ==
    ASSUME TaskTypes, DataTypes, NEW t \in Tasks
    PROVE  /\ Whole(task[t].snap) \in File /\ Partial \in File /\ Missing \in File
           /\ task[t].snap \in Table
<1>1. task[t].snap \in Table
  BY TaskFields DEF TaskTypes
<1> QED
  BY <1>1 DEF Whole, Partial, Missing, File

LEMMA WholeTyped == \A x \in Table : Whole(x) \in File
BY DEF Whole, File

LEMMA LoadTyped == ASSUME file \in File PROVE LoadEntries \in Table
BY EmptyTyped DEF LoadEntries, File

LEMMA StepTyped ==
    ASSUME TypeOK, NEW t \in Tasks, Step(t) PROVE TypeOK'
<1> USE TypeParts
<1>0. TaskTypes /\ DataTypes /\ store \in Table
  BY DEF DataTypes
<1>1. CASE Set(t)
  BY <1>0, <1>1, SetDoes DEF Set, DataTypes
<1>2. CASE Merge(t)
  BY <1>0, <1>2, MergeDoes DEF Merge, DataTypes
<1>3. CASE Upsert(t)
  <2>1. TaskTypes' /\ store' \in Table /\ disturbed' = (disturbed \/ ~Alone(t))
    BY <1>0, <1>3, UpsertDoes
  <2> QED
    BY <1>0, <1>3, <2>1 DEF Upsert, DataTypes
<1>4. CASE Delete(t)
  <2>1. TaskTypes' /\ store' \in Table /\ disturbed' = (disturbed \/ ~Alone(t))
    BY <1>0, <1>4, DeleteDoes
  <2> QED
    BY <1>0, <1>4, <2>1 DEF Delete, DataTypes
<1>5. CASE Snapshot(t)
  BY <1>0, <1>5, SnapshotDoes DEF Snapshot, DataTypes
<1>6. CASE Truncate(t)
  BY <1>0, <1>6, TruncateDoes, TablesTyped DEF Truncate, DataTypes
<1>7. CASE Fill(t)
  <2>1. tmp' \in {tmp, Partial, Whole(task[t].snap)} /\ file' \in {file, Partial, Whole(task[t].snap)}
    BY <1>7 DEF Fill, Written
  <2> QED
    BY <1>0, <1>7, <2>1, FillDoes, TablesTyped DEF Fill, DataTypes
<1>8. CASE Remove(t)
  BY <1>0, <1>8, RemoveDoes, TablesTyped DEF Remove, DataTypes
<1>9. CASE Rename(t)
  BY <1>0, <1>9, RenameDoes, TablesTyped DEF Rename, DataTypes
<1>10. CASE SaveFails(t)
  BY <1>0, <1>10, SaveFailsDoes DEF SaveFails, DataTypes
<1>11. CASE List(t)
  BY <1>0, <1>11, ListDoes DEF List, DataTypes
<1>12. CASE Replace(t)
  <2>1. routes' \in Table /\ disturbed' \in BOOLEAN
    BY <1>0, <1>12, TablesTyped DEF Replace, DataTypes
  <2> QED
    BY <1>0, <1>12, <2>1, ReplaceDoes DEF Replace, DataTypes
<1>13. CASE ProbeEnds(t)
  BY <1>0, <1>13, EndTyped DEF ProbeEnds, DataTypes
<1>14. CASE Fetched(t)
  BY <1>0, <1>14, FetchedDoes DEF Fetched, DataTypes
<1>15. CASE Check(t)
  BY <1>0, <1>15, CheckDoes DEF Check, DataTypes
<1> QED
  BY <1>1, <1>2, <1>3, <1>4, <1>5, <1>6, <1>7, <1>8, <1>9, <1>10, <1>11, <1>12, <1>13,
     <1>14, <1>15 DEF Step

LEMMA RestartTyped == ASSUME TypeOK, Restart PROVE TypeOK'
<1>1. TaskTypes'
  BY NoTaskTyped DEF Restart, TaskTypes
<1>2. DataTypes'
  BY TypeParts, LoadTyped DEF Restart, DataTypes
<1> QED
  BY <1>1, <1>2, TypeParts

LEMMA NextTyped == TypeOK /\ [Next]_vars => TypeOK'
<1> SUFFICES ASSUME TypeOK, [Next]_vars PROVE TypeOK'
  OBVIOUS
<1>1. CASE vars' = vars
  BY <1>1 DEF vars, TypeOK
<1> QED
  BY <1>1, StepTyped, RestartTyped DEF Next

\* The table, the registry, the files and every frame keep their types, and a
\* frame that is at work knows its id.
THEOREM BackendTypes == Spec => []TypeOK
BY InitTyped, NextTyped, PTL DEF Spec

-----------------------------------------------------------------------------
(* The invariant *)

\* The file holds table x: no file stands for the empty table
Holds(x) == file = Whole(x) \/ (file = Missing /\ x = Empty)

\* Only a task that writes has a file open
FdOK == \A t \in Tasks : task[t].fd # "closed" => task[t].step = "fill"

\* An update that nothing has overlapped: what it has written is what is stored
Solo(t) ==
    /\ Alone(t)
    /\ task[t].step \in {"truncate", "fill"} => task[t].snap = store
    /\ task[t].step = "fill" => task[t].fd = "tmp" /\ tmp = Partial
    /\ task[t].step \in {"remove", "rename"} => tmp = Whole(store)
    /\ task[t].step \in {"list", "replace"} => file = Whole(store)
    /\ task[t].step = "replace" => task[t].snap = store

SoloOK == \A t \in Tasks : Updating(t) /\ task[t].alone = TRUE => Solo(t)

\* As long as nothing has overlapped or failed, the file has the old table
\* until the new one takes its place
CalmTask(t) ==
    /\ Updating(t) => task[t].alone = TRUE
    /\ task[t].step \in {"snapshot", "truncate", "fill", "remove"} => Holds(routes)
    /\ task[t].step = "rename" => file = Missing

AtRest == (\A t \in Tasks : ~Updating(t)) => routes = store /\ Holds(store)

CalmOK == disturbed = FALSE => AtRest /\ \A t \in Tasks : CalmTask(t)

IInv == TypeOK /\ FdOK /\ SoloOK /\ CalmOK

LEMMA InitInv == Init => IInv
<1> SUFFICES ASSUME Init PROVE IInv
  OBVIOUS
<1>1. \A t \in Tasks : task[t].step = "idle" /\ task[t].fd = "closed"
  BY NoTaskTyped DEF Init
<1>2. Holds(store) /\ routes = store
  BY DEF Init, Holds
<1> QED
  BY <1>1, <1>2, InitTyped DEF IInv, FdOK, SoloOK, CalmOK, AtRest, CalmTask, Updating

\* A step of a task that is updating neither before nor after
LEMMA QuietKeeps ==
    ASSUME IInv, NEW t \in Tasks, Others(t), ~Updating(t), task'[t].fd = "closed",
           task'[t].step \notin {"snapshot", "truncate", "fill", "remove", "rename", "list",
                                 "replace"},
           UNCHANGED <<store, routes, file, tmp, disturbed>>
    PROVE  FdOK' /\ SoloOK' /\ CalmOK'
<1>1. \A u \in Tasks : Updating(u)' <=> Updating(u)
  BY DEF Updating, Others
<1>2. \A u \in Tasks : Updating(u) => u # t /\ task'[u] = task[u]
  BY DEF Others
<1>3. FdOK'
  BY DEF IInv, FdOK, Others
<1>4. SoloOK'
  <2> SUFFICES ASSUME NEW u \in Tasks, Updating(u)', task'[u].alone = TRUE PROVE Solo(u)'
    BY DEF SoloOK
  <2>1. Updating(u) /\ task'[u] = task[u]
    BY <1>1, <1>2
  <2>2. Solo(u)
    BY <2>1 DEF IInv, SoloOK
  <2>3. Alone(u)'
    BY <1>1, <2>2 DEF Solo, Alone
  <2> QED
    BY <2>1, <2>2, <2>3 DEF Solo
<1>5. CalmOK'
  <2> SUFFICES ASSUME disturbed = FALSE PROVE AtRest' /\ \A u \in Tasks : CalmTask(u)'
    BY DEF CalmOK
  <2>1. AtRest /\ \A u \in Tasks : CalmTask(u)
    BY DEF IInv, CalmOK
  <2>2. AtRest'
    BY <1>1, <2>1 DEF AtRest, Holds
  <2>3. ASSUME NEW u \in Tasks PROVE CalmTask(u)'
    <3>1. CASE Updating(u)
      BY <1>2, <2>1, <3>1 DEF CalmTask, Holds, Updating
    <3>2. CASE ~Updating(u)
      <4>1. ~Updating(u)'
        BY <1>1, <3>2
      <4> QED
        BY <4>1 DEF CalmTask, Updating
    <3> QED
      BY <3>1, <3>2
  <2> QED
    BY <2>2, <2>3
<1> QED
  BY <1>3, <1>4, <1>5

\* A task begins to update
LEMMA ChangeKeeps ==
    ASSUME IInv, NEW t \in Tasks, ~Updating(t),
           task'[t].step = "snapshot", task'[t].fd = "closed", task'[t].alone = TRUE <=> Alone(t),
           \A u \in Tasks \ {t} :
             Same(u) /\ task'[u].fd = task[u].fd /\ task'[u].alone = FALSE,
           disturbed' = (disturbed \/ ~Alone(t)),
           UNCHANGED <<routes, file, tmp>>
    PROVE  FdOK' /\ SoloOK' /\ CalmOK'
<1>1. \A u \in Tasks \ {t} : Updating(u)' <=> Updating(u)
  BY DEF Updating, Same
<1>2. FdOK'
  BY DEF IInv, FdOK, Same
<1>3. SoloOK'
  <2> SUFFICES ASSUME NEW u \in Tasks, Updating(u)', task'[u].alone = TRUE PROVE Solo(u)'
    BY DEF SoloOK
  <2>1. u = t
    OBVIOUS
  <2>2. Alone(t)
    BY <2>1
  <2>3. Alone(u)'
    BY <1>1, <2>1, <2>2 DEF Alone
  <2> QED
    BY <2>1, <2>3 DEF Solo
<1>4. CalmOK'
  <2> SUFFICES ASSUME disturbed' = FALSE PROVE AtRest' /\ \A u \in Tasks : CalmTask(u)'
    BY DEF CalmOK
  <2>1. disturbed = FALSE /\ Alone(t)
    BY DEF IInv, TypeOK
  <2>2. AtRest'
    BY DEF AtRest, Updating
  <2>3. routes = store /\ Holds(store)
    BY <2>1 DEF IInv, CalmOK, AtRest, Alone
  <2>4. CalmTask(t)'
    BY <2>1, <2>3 DEF CalmTask, Holds
  <2>5. ASSUME NEW u \in Tasks \ {t} PROVE CalmTask(u)'
    <3>1. ~Updating(u)'
      BY <1>1, <2>1 DEF Alone
    <3> QED
      BY <3>1 DEF CalmTask, Updating
  <2> QED
    BY <2>2, <2>4, <2>5
<1> QED
  BY <1>2, <1>3, <1>4

\* A step of a task that goes on updating: what is owed of it, and of the others
\* only that they are not alone
LEMMA WriteKeeps ==
    ASSUME IInv, NEW t \in Tasks, Updating(t), Updating(t)',
           \A u \in Tasks \ {t} : Same(u),
           \A u \in Tasks : task'[u].alone = task[u].alone,
           FdOK', store' = store, routes' = routes, disturbed' = disturbed,
           Solo(t) /\ task[t].alone = TRUE /\ Alone(t)' => Solo(t)',
           disturbed = FALSE /\ task[t].alone = TRUE /\ Solo(t) /\ CalmTask(t)
             => CalmTask(t)'
    PROVE  FdOK' /\ SoloOK' /\ CalmOK'
<1>1. \A u \in Tasks \ {t} : Updating(u)' <=> Updating(u)
  BY DEF Updating, Same
<1>2. SoloOK'
  <2> SUFFICES ASSUME NEW u \in Tasks, Updating(u)', task'[u].alone = TRUE PROVE Solo(u)'
    BY DEF SoloOK
  <2>1. task[u].alone = TRUE /\ Updating(u)
    BY <1>1
  <2>2. Solo(u)
    BY <2>1 DEF IInv, SoloOK
  <2>3. u = t
    BY <2>2 DEF Solo, Alone
  <2>4. Alone(t)'
    BY <1>1, <2>2, <2>3 DEF Solo, Alone
  <2> QED
    BY <2>1, <2>2, <2>3, <2>4
<1>3. CalmOK'
  <2> SUFFICES ASSUME disturbed = FALSE PROVE AtRest' /\ \A u \in Tasks : CalmTask(u)'
    BY DEF CalmOK
  <2>1. CalmTask(t)
    BY DEF IInv, CalmOK
  <2>2. task[t].alone = TRUE
    BY <2>1 DEF CalmTask
  <2>3. Solo(t)
    BY <2>2 DEF IInv, SoloOK
  <2>4. CalmTask(t)'
    BY <2>1, <2>2, <2>3
  <2>5. ASSUME NEW u \in Tasks \ {t} PROVE CalmTask(u)'
    <3>1. ~Updating(u)'
      BY <1>1, <2>3 DEF Solo, Alone
    <3> QED
      BY <3>1 DEF CalmTask, Updating
  <2>6. AtRest'
    BY DEF AtRest
  <2> QED
    BY <2>4, <2>5, <2>6
<1> QED
  BY <1>2, <1>3

LEMMA LoadHeld == \A x : Holds(x) => LoadEntries = x
<1> TAKE x
<1>1. Whole(x).kind = "table" /\ Whole(x).table = x /\ Missing.kind # "table"
  BY DEF Whole, Missing
<1> QED
  BY <1>1 DEF Holds, LoadEntries

\* Without a disturbance the file holds the table of before the update or of
\* after it, or is about to be put in place
LEMMA CalmFile ==
    IInv /\ disturbed = FALSE
      => \/ Holds(store) \/ Holds(routes)
         \/ file = Missing /\ \E t \in Tasks : task[t].step = "rename"
<1> SUFFICES ASSUME IInv, disturbed = FALSE
             PROVE  \/ Holds(store) \/ Holds(routes)
                    \/ file = Missing /\ \E t \in Tasks : task[t].step = "rename"
  OBVIOUS
<1>1. AtRest /\ \A t \in Tasks : CalmTask(t)
  BY DEF IInv, CalmOK
<1>2. CASE \A t \in Tasks : ~Updating(t)
  BY <1>1, <1>2 DEF AtRest
<1>3. CASE \E t \in Tasks : Updating(t)
  <2>1. PICK t \in Tasks : Updating(t)
    BY <1>3
  <2>2. CalmTask(t) /\ task[t].alone = TRUE
    BY <1>1, <2>1 DEF CalmTask
  <2>3. Solo(t)
    BY <2>1, <2>2 DEF IInv, SoloOK
  <2> QED
    BY <2>1, <2>2, <2>3 DEF CalmTask, Solo, Holds, Updating
<1> QED
  BY <1>2, <1>3

LEMMA RestartKeeps == ASSUME IInv, Restart PROVE FdOK' /\ SoloOK' /\ CalmOK'
<1>1. \A t \in Tasks : task'[t].step = "idle" /\ task'[t].fd = "closed" /\ ~Updating(t)'
  BY NoTaskTyped DEF Restart, Updating
<1>2. disturbed = FALSE => file = Whole(LoadEntries) \/ (file = Missing /\ LoadEntries = Empty)
  <2> SUFFICES ASSUME disturbed = FALSE
               PROVE file = Whole(LoadEntries) \/ (file = Missing /\ LoadEntries = Empty)
    OBVIOUS
  <2>1. Missing.kind # "table"
    BY DEF Missing
  <2>2. file = Missing => LoadEntries = Empty
    BY <2>1 DEF LoadEntries
  <2>3. \A x : Holds(x) => LoadEntries = x
    BY LoadHeld
  <2> QED
    BY <2>2, <2>3, CalmFile DEF Holds
<1>3. disturbed' = FALSE => Holds(store)' /\ routes' = store'
  BY <1>2 DEF Restart, Holds
<1> QED
  BY <1>1, <1>3 DEF FdOK, SoloOK, CalmOK, AtRest, CalmTask, Updating

LEMMA SnapshotKeeps == ASSUME IInv, NEW t \in Tasks, Snapshot(t) PROVE FdOK' /\ SoloOK' /\ CalmOK'
<1>1. /\ Others(t) /\ task'[t].step = "truncate" /\ task'[t].snap = store
      /\ task'[t].fd = task[t].fd /\ task'[t].alone = task[t].alone
  BY SnapshotDoes, TypeParts DEF IInv, DataTypes
<1>2. task[t].step = "snapshot" /\ UNCHANGED <<store, routes, file, tmp, disturbed>>
  BY DEF Snapshot
<1>3. FdOK'
  BY <1>1, <1>2 DEF IInv, FdOK, Others
<1>4. Updating(t) /\ Updating(t)'
  BY <1>1, <1>2 DEF Updating
<1>5. Alone(t)' => Solo(t)'
  BY <1>1, <1>2 DEF Solo
<1>6. CalmTask(t) => CalmTask(t)'
  BY <1>1, <1>2, <1>4 DEF CalmTask, Holds
<1> QED
  BY <1>1, <1>2, <1>3, <1>4, <1>5, <1>6, WriteKeeps DEF Others, Same

LEMMA TruncateKeeps == ASSUME IInv, NEW t \in Tasks, Truncate(t) PROVE FdOK' /\ SoloOK' /\ CalmOK'
<1>1. /\ Others(t) /\ task'[t].step = "fill" /\ task'[t].fd = "tmp"
      /\ task'[t].snap = task[t].snap /\ task'[t].alone = task[t].alone
  BY TruncateDoes, TypeParts DEF IInv
<1>2. /\ task[t].step = "truncate" /\ tmp' = Partial
      /\ UNCHANGED <<store, routes, file, disturbed>>
  BY DEF Truncate
<1>3. FdOK'
  BY <1>1, <1>2 DEF IInv, FdOK, Others
<1>4. Updating(t) /\ Updating(t)'
  BY <1>1, <1>2 DEF Updating
<1>5. Solo(t) /\ Alone(t)' => Solo(t)'
  BY <1>1, <1>2 DEF Solo
<1>6. CalmTask(t) => CalmTask(t)'
  BY <1>1, <1>2, <1>4 DEF CalmTask, Holds
<1> QED
  BY <1>1, <1>2, <1>3, <1>4, <1>5, <1>6, WriteKeeps DEF Others, Same

LEMMA FillKeeps == ASSUME IInv, NEW t \in Tasks, Fill(t) PROVE FdOK' /\ SoloOK' /\ CalmOK'
<1>1. /\ Others(t) /\ task'[t].step = "remove" /\ task'[t].fd = "closed"
      /\ task'[t].alone = task[t].alone
  BY FillDoes, TypeParts DEF IInv
<1>2. task[t].step = "fill" /\ UNCHANGED <<store, routes, disturbed>>
  BY DEF Fill
<1>3. FdOK'
  BY <1>1, <1>2 DEF IInv, FdOK, Others
<1>4. Updating(t) /\ Updating(t)'
  BY <1>1, <1>2 DEF Updating
<1>5. Solo(t) => tmp' = Whole(store) /\ file' = file
  BY <1>2 DEF Solo, Fill, Written
<1>6. Solo(t) /\ Alone(t)' => Solo(t)'
  BY <1>1, <1>2, <1>5 DEF Solo
<1>7. Solo(t) /\ CalmTask(t) => CalmTask(t)'
  BY <1>1, <1>2, <1>4, <1>5 DEF CalmTask, Holds
<1> QED
  BY <1>1, <1>2, <1>3, <1>4, <1>6, <1>7, WriteKeeps DEF Others, Same

LEMMA RemoveKeeps == ASSUME IInv, NEW t \in Tasks, Remove(t) PROVE FdOK' /\ SoloOK' /\ CalmOK'
<1>1. /\ task'[t].step = "rename" /\ task'[t].snap = task[t].snap
      /\ \A u \in Tasks \ {t} : Same(u)
      /\ \A u \in Tasks : /\ task'[u].alone = task[u].alone
                          /\ task[u].fd = "closed" => task'[u].fd = "closed"
  BY RemoveDoes, TypeParts DEF IInv
<1>2. /\ task[t].step = "remove" /\ file' = Missing
      /\ UNCHANGED <<store, routes, tmp, disturbed>>
  BY DEF Remove
<1>3. FdOK'
  BY <1>1, <1>2 DEF IInv, FdOK, Same
<1>4. Updating(t) /\ Updating(t)'
  BY <1>1, <1>2 DEF Updating
<1>5. Solo(t) /\ Alone(t)' => Solo(t)'
  BY <1>1, <1>2 DEF Solo
<1>6. CalmTask(t) => CalmTask(t)'
  BY <1>1, <1>2, <1>4 DEF CalmTask, Holds
<1> QED
  BY <1>1, <1>2, <1>3, <1>4, <1>5, <1>6, WriteKeeps

LEMMA RenameKeeps == ASSUME IInv, NEW t \in Tasks, Rename(t) PROVE FdOK' /\ SoloOK' /\ CalmOK'
<1>1. /\ task'[t].step = "list" /\ task'[t].fd = task[t].fd
      /\ \A u \in Tasks \ {t} : Same(u)
      /\ \A u \in Tasks : /\ task'[u].alone = task[u].alone
                          /\ task[u].fd = "closed" => task'[u].fd = "closed"
  BY RenameDoes, TypeParts DEF IInv
<1>2. /\ task[t].step = "rename" /\ file' = tmp
      /\ UNCHANGED <<store, routes, disturbed>>
  BY DEF Rename
<1>3. FdOK'
  BY <1>1, <1>2 DEF IInv, FdOK, Same
<1>4. Updating(t) /\ Updating(t)'
  BY <1>1, <1>2 DEF Updating
<1>5. Solo(t) /\ Alone(t)' => Solo(t)'
  BY <1>1, <1>2 DEF Solo
<1>6. CalmTask(t) => CalmTask(t)'
  BY <1>1, <1>2, <1>4 DEF CalmTask
<1> QED
  BY <1>1, <1>2, <1>3, <1>4, <1>5, <1>6, WriteKeeps

LEMMA ListKeeps == ASSUME IInv, NEW t \in Tasks, List(t) PROVE FdOK' /\ SoloOK' /\ CalmOK'
<1>1. /\ Others(t) /\ task'[t].step = "replace" /\ task'[t].snap = store
      /\ task'[t].fd = task[t].fd /\ task'[t].alone = task[t].alone
  BY ListDoes, TypeParts DEF IInv, DataTypes
<1>2. task[t].step = "list" /\ UNCHANGED <<store, routes, file, tmp, disturbed>>
  BY DEF List
<1>3. FdOK'
  BY <1>1, <1>2 DEF IInv, FdOK, Others
<1>4. Updating(t) /\ Updating(t)'
  BY <1>1, <1>2 DEF Updating
<1>5. Solo(t) /\ Alone(t)' => Solo(t)'
  BY <1>1, <1>2 DEF Solo
<1>6. CalmTask(t) => CalmTask(t)'
  BY <1>1, <1>2, <1>4 DEF CalmTask
<1> QED
  BY <1>1, <1>2, <1>3, <1>4, <1>5, <1>6, WriteKeeps DEF Others, Same

\* The update ends: if it was alone, it leaves everything in agreement
LEMMA ReplaceKeeps == ASSUME IInv, NEW t \in Tasks, Replace(t) PROVE FdOK' /\ SoloOK' /\ CalmOK'
<1>1. Others(t) /\ task'[t].step \in {"idle", "probe"} /\ task'[t].fd = "closed"
  BY ReplaceDoes, TypeParts DEF IInv
<1>2. /\ task[t].step = "replace" /\ routes' = task[t].snap
      /\ disturbed' = (disturbed /\ ~task[t].alone)
      /\ UNCHANGED <<store, file, tmp>>
  BY DEF Replace
<1>3. FdOK'
  BY <1>1, <1>2 DEF IInv, FdOK, Others
<1>4. ~Updating(t)' /\ Updating(t) /\ \A u \in Tasks \ {t} : Updating(u)' <=> Updating(u)
  BY <1>1, <1>2 DEF Updating, Others
<1>5. SoloOK'
  <2> SUFFICES ASSUME NEW u \in Tasks, Updating(u)', task'[u].alone = TRUE PROVE Solo(u)'
    BY DEF SoloOK
  <2>1. u # t /\ Updating(u) /\ task'[u] = task[u]
    BY <1>1, <1>4 DEF Others
  <2>2. Solo(u)
    BY <2>1 DEF IInv, SoloOK
  <2> QED
    BY <2>1, <2>2, <1>4 DEF Solo, Alone
<1>6. CalmOK'
  <2> SUFFICES ASSUME disturbed' = FALSE PROVE AtRest' /\ \A u \in Tasks : CalmTask(u)'
    BY DEF CalmOK
  <2>1. disturbed = FALSE \/ task[t].alone = TRUE
    <3>1. disturbed \in BOOLEAN
      BY TypeParts DEF IInv, DataTypes
    <3>2. task[t].alone \in BOOLEAN
      BY TypeParts, TaskFields DEF IInv, TaskTypes
    <3> QED
      BY <1>2, <3>1, <3>2
  <2>2. task[t].alone = TRUE
    BY <1>4, <2>1 DEF IInv, CalmOK, CalmTask
  <2>3. Solo(t)
    BY <1>4, <2>2 DEF IInv, SoloOK
  <2>4. routes' = store' /\ Holds(store)'
    BY <1>2, <2>3 DEF Solo, Holds
  <2>5. \A u \in Tasks : ~Updating(u)'
    BY <1>4, <2>3 DEF Solo, Alone
  <2> QED
    BY <2>4, <2>5 DEF AtRest, CalmTask, Updating
<1> QED
  BY <1>3, <1>5, <1>6

LEMMA SaveFailsKeeps == ASSUME IInv, NEW t \in Tasks, SaveFails(t) PROVE FdOK' /\ SoloOK' /\ CalmOK'
<1>1. /\ Others(t) /\ task'[t].step \in {"idle", "list"} /\ task'[t].fd = "closed"
      /\ task'[t].alone = FALSE
  BY SaveFailsDoes, TypeParts DEF IInv
<1>2. /\ task[t].step \in {"truncate", "fill", "rename"} /\ disturbed' = TRUE
  BY DEF SaveFails
<1>3. FdOK'
  BY <1>1, <1>2 DEF IInv, FdOK, Others
<1>4. Updating(t)
  BY <1>2 DEF Updating
<1>5. SoloOK'
  <2> SUFFICES ASSUME NEW u \in Tasks, Updating(u)', task'[u].alone = TRUE PROVE FALSE
    BY DEF SoloOK
  <2>1. u # t /\ task'[u] = task[u]
    BY <1>1 DEF Others
  <2>2. Updating(u) /\ task[u].alone = TRUE
    BY <2>1 DEF Updating
  <2>3. Alone(u)
    BY <2>2 DEF IInv, SoloOK, Solo
  <2> QED
    BY <1>4, <2>1, <2>3 DEF Alone
<1>6. CalmOK'
  BY <1>2 DEF CalmOK
<1> QED
  BY <1>3, <1>5, <1>6

LEMMA NextInv == IInv /\ [Next]_vars => IInv'
<1> SUFFICES ASSUME IInv, [Next]_vars PROVE IInv'
  OBVIOUS
<1>1. TypeOK'
  BY NextTyped DEF IInv
<1>2. TaskTypes /\ DataTypes /\ store \in Table
  BY TypeParts DEF IInv, DataTypes
<1>3. \A t \in Tasks : task[t].step # "fill" => task[t].fd = "closed"
  BY DEF IInv, FdOK
<1>4. ASSUME NEW t \in Tasks, Step(t) PROVE FdOK' /\ SoloOK' /\ CalmOK'
  <2>1. CASE Set(t)
    <3>1. ~Updating(t) /\ UNCHANGED <<store, routes, file, tmp, disturbed>>
      BY <2>1 DEF Set, Updating
    <3> QED
      BY <1>2, <2>1, <3>1, SetDoes, QuietKeeps
  <2>2. CASE Merge(t)
    <3>1. ~Updating(t) /\ task[t].fd = "closed" /\ UNCHANGED <<store, routes, file, tmp, disturbed>>
      BY <1>3, <2>2 DEF Merge, Updating
    <3> QED
      BY <1>2, <2>2, <3>1, MergeDoes, QuietKeeps
  <2>3. CASE Upsert(t)
    <3>1. task[t].fd = "closed" /\ UNCHANGED <<routes, file, tmp>>
      BY <1>3, <2>3 DEF Upsert
    <3> QED
      BY <1>2, <2>3, <3>1, UpsertDoes, ChangeKeeps
  <2>4. CASE Delete(t)
    <3>1. UNCHANGED <<routes, file, tmp>>
      BY <2>4 DEF Delete
    <3> QED
      BY <1>2, <2>4, <3>1, DeleteDoes, ChangeKeeps
  <2>5. CASE ProbeEnds(t)
    <3>1. ~Updating(t) /\ UNCHANGED <<store, routes, file, tmp, disturbed>>
      BY <2>5 DEF ProbeEnds, Updating
    <3>2. task' = [task EXCEPT ![t] = NoTask]
      BY <2>5 DEF ProbeEnds
    <3> QED
      BY <1>2, <3>1, <3>2, EndTyped, QuietKeeps
  <2>6. CASE Fetched(t)
    <3>1. ~Updating(t) /\ task[t].fd = "closed" /\ UNCHANGED <<store, routes, file, tmp, disturbed>>
      BY <1>3, <2>6 DEF Fetched, Updating
    <3> QED
      BY <1>2, <2>6, <3>1, FetchedDoes, QuietKeeps
  <2>7. CASE Check(t)
    <3>1. ~Updating(t) /\ task[t].fd = "closed" /\ UNCHANGED <<store, routes, file, tmp, disturbed>>
      BY <1>3, <2>7 DEF Check, Updating
    <3> QED
      BY <1>2, <2>7, <3>1, CheckDoes, QuietKeeps
  <2> QED
    BY <1>4, <2>1, <2>2, <2>3, <2>4, <2>5, <2>6, <2>7, SnapshotKeeps, TruncateKeeps,
       FillKeeps, RemoveKeeps, RenameKeeps, SaveFailsKeeps, ListKeeps, ReplaceKeeps DEF Step
<1>5. ASSUME vars' = vars PROVE FdOK' /\ SoloOK' /\ CalmOK'
  BY <1>5 DEF vars, IInv, FdOK, SoloOK, Solo, Alone, CalmOK, AtRest, CalmTask, Holds, Updating
<1> QED
  BY <1>1, <1>4, <1>5, RestartKeeps DEF IInv, Next

-----------------------------------------------------------------------------
(* The results *)

LEMMA InvHolds == Spec => []IInv
BY InitInv, NextInv, PTL DEF Spec

\* Hot, without a restart: whatever the ids, keys and tasks, requests are routed
\* by the table that is stored and the file holds it whenever no update is under
\* way, unless the last updates overlapped or failed.
THEOREM AgreesAtRest == Spec => []AgreedAtRest
<1>1. IInv => AgreedAtRest
  <2> SUFFICES ASSUME IInv, disturbed = FALSE, \A t \in Tasks : ~Updating(t)
               PROVE routes = store /\ (file = Whole(store) \/ (file.kind = "missing" /\ store = Empty))
    BY DEF AgreedAtRest, IInv, TypeOK
  <2>1. routes = store /\ Holds(store)
    BY DEF IInv, CalmOK, AtRest
  <2>2. Missing.kind = "missing"
    BY DEF Missing
  <2> QED
    BY <2>1, <2>2 DEF Holds
<1> QED
  BY <1>1, InvHolds, PTL

\* The temporary file does its work: unless updates overlapped or failed,
\* backends.yaml is never cut short.
THEOREM FileIsWhole == Spec => []NeverHalfWritten
<1>1. IInv => NeverHalfWritten
  <2> SUFFICES ASSUME IInv, disturbed = FALSE PROVE file.kind # "partial"
    BY DEF NeverHalfWritten, IInv, TypeOK
  <2>1. Missing.kind = "missing" /\ \A x : Whole(x).kind = "table"
    BY DEF Missing, Whole
  <2> QED
    BY <2>1, CalmFile DEF Holds
<1> QED
  BY <1>1, InvHolds, PTL

\* A crash during an update leaves the table of before it or of after it, except
\* between the removal of the old file and the rename of the new one.
THEOREM CrashIsHarmless == Spec => CrashKeepsTable
<1>1. IInv /\ [Next]_vars
        => [Restart /\ ~disturbed => \/ store' \in {store, routes}
                                     \/ \E t \in Tasks : task[t].step = "rename"]_vars
  <2> SUFFICES ASSUME IInv, Restart, disturbed = FALSE
               PROVE  \/ store' \in {store, routes}
                      \/ \E t \in Tasks : task[t].step = "rename"
    BY DEF IInv, TypeOK
  <2>1. store' = LoadEntries
    BY DEF Restart
  <2>2. \A x : Holds(x) => LoadEntries = x
    BY LoadHeld
  <2> QED
    BY <2>1, <2>2, CalmFile
<1> QED
  BY <1>1, InvHolds, PTL DEF Spec, CrashKeepsTable


-----------------------------------------------------------------------------
(* Refinement of AtomicTable *)

\* The phase, seen from a task that updates alone
LEMMA PhaseAlone ==
    ASSUME disturbed = FALSE, NEW t \in Tasks, Alone(t)
    PROVE  Phase = IF task[t].step \in {"snapshot", "truncate", "fill", "remove"} THEN "changed"
                   ELSE IF task[t].step = "rename" THEN "lost"
                   ELSE IF task[t].step \in {"list", "replace"} THEN "saved" ELSE "rest"
<1>1. \A u \in Tasks \ {t} : task[u].step \notin {"snapshot", "truncate", "fill", "remove",
                                                 "rename", "list", "replace"}
  BY DEF Alone, Updating
<1>2. \A S \in SUBSET {"snapshot", "truncate", "fill", "remove", "rename", "list",
                       "replace"} :
        At(S) <=> task[t].step \in S
  BY <1>1 DEF At
<1>3. /\ At({"snapshot", "truncate", "fill", "remove"})
            <=> task[t].step \in {"snapshot", "truncate", "fill", "remove"}
      /\ At({"rename"}) <=> task[t].step \in {"rename"}
      /\ At({"list", "replace"}) <=> task[t].step \in {"list", "replace"}
  BY <1>2
<1> QED
  BY <1>3 DEF Phase

LEMMA PhaseAloneNext ==
    ASSUME disturbed' = FALSE, NEW t \in Tasks, Alone(t)'
    PROVE  Phase' = IF task'[t].step \in {"snapshot", "truncate", "fill", "remove"} THEN "changed"
                    ELSE IF task'[t].step = "rename" THEN "lost"
                    ELSE IF task'[t].step \in {"list", "replace"} THEN "saved" ELSE "rest"
<1>1. \A u \in Tasks \ {t} : task'[u].step \notin {"snapshot", "truncate", "fill", "remove",
                                                  "rename", "list", "replace"}
  BY DEF Alone, Updating
<1>2. \A S \in SUBSET {"snapshot", "truncate", "fill", "remove", "rename", "list",
                       "replace"} :
        (\E u \in Tasks : task'[u].step \in S) <=> task'[t].step \in S
  BY <1>1
<1>3. /\ (\E u \in Tasks : task'[u].step \in {"snapshot", "truncate", "fill", "remove"})
            <=> task'[t].step \in {"snapshot", "truncate", "fill", "remove"}
      /\ (\E u \in Tasks : task'[u].step \in {"rename"}) <=> task'[t].step \in {"rename"}
      /\ (\E u \in Tasks : task'[u].step \in {"list", "replace"})
            <=> task'[t].step \in {"list", "replace"}
  BY <1>2
<1> QED
  BY <1>3 DEF Phase, At

LEMMA PhaseKept == ASSUME disturbed' = disturbed, \A u \in Tasks : task'[u].step = task[u].step
                   PROVE  Phase' = Phase
BY DEF Phase, At

\* After an update met another one, or failed, nothing is promised
LEMMA Disturbed == ASSUME disturbed' = TRUE PROVE Atomic!Next
BY DEF Phase, Atomic!Next, Atomic!Disturb

\* A step that is none of an update
LEMMA QuietStep ==
    ASSUME NEW t \in Tasks, Others(t), ~Updating(t), ~Updating(t)',
           UNCHANGED <<store, routes, file, disturbed>>
    PROVE  UNCHANGED Atomic!vars
<1>1. \A u \in Tasks : u # t => task'[u].step = task[u].step
  BY DEF Others
<1>2. \A S \in SUBSET {"snapshot", "truncate", "fill", "remove", "rename", "list",
                       "replace"} : At(S)' <=> At(S)
  BY <1>1 DEF At, Updating
<1>3. /\ At({"snapshot", "truncate", "fill", "remove"})'
            <=> At({"snapshot", "truncate", "fill", "remove"})
      /\ At({"rename"})' <=> At({"rename"})
      /\ At({"list", "replace"})' <=> At({"list", "replace"})
  BY <1>2
<1> QED
  BY <1>3 DEF Atomic!vars, Phase, LoadEntries

\* An update that starts undisturbed, and finds no other, changes one entry
LEMMA ChangeStep ==
    ASSUME IInv, disturbed' = FALSE, NEW t \in Tasks, ~Updating(t),
           task'[t].step = "snapshot", \A u \in Tasks \ {t} : Same(u),
           disturbed' = (disturbed \/ ~Alone(t)), UNCHANGED <<routes, file, tmp>>,
           NEW i \in Ids, NEW e \in Entry \cup {Absent}, store' = [store EXCEPT ![i] = e]
    PROVE  Atomic!Change
<1>1. disturbed = FALSE /\ Alone(t)
  BY DEF IInv, TypeOK
<1>2. Alone(t)'
  BY <1>1 DEF Alone, Updating, Same
<1>3. Phase = "rest"
  BY <1>1, PhaseAlone DEF Updating
<1>4. Phase' = "changed"
  BY <1>2, PhaseAloneNext
<1>5. LoadEntries' = LoadEntries
  BY DEF LoadEntries
<1> QED
  BY <1>3, <1>4, <1>5 DEF Atomic!Change, Atomic!From

LEMMA UpsertStep ==
    ASSUME IInv, disturbed' = FALSE, NEW t \in Tasks, Upsert(t)
    PROVE  Atomic!Change
<1>1. TaskTypes /\ store \in Table
  BY TypeParts DEF IInv, DataTypes
<1>2. task[t].step = "upsert" /\ TaskOK(task[t])
  BY <1>1 DEF Upsert, TaskTypes
<1>3. PICK i \in Ids, e \in Entry \cup {Absent} : i = task[t].id /\ e = task[t].entry
  BY <1>2 DEF TaskOK
<1>4. store' = [store EXCEPT ![i] = e]
  BY <1>3 DEF Upsert, Change
<1>5. UNCHANGED <<routes, file, tmp>>
  BY DEF Upsert
<1> QED
  BY <1>1, <1>4, <1>5, UpsertDoes, ChangeStep

LEMMA DeleteStep ==
    ASSUME IInv, disturbed' = FALSE, NEW t \in Tasks, Delete(t)
    PROVE  Atomic!Change
<1>1. TaskTypes /\ store \in Table
  BY TypeParts DEF IInv, DataTypes
<1>2. PICK i \in Ids : Change(t, [NoTask EXCEPT !.op = "delete", !.id = i], Absent)
  BY DEF Delete
<1>3. store' = [store EXCEPT ![i] = Absent]
  BY <1>2 DEF Change, NoTask
<1>4. UNCHANGED <<routes, file, tmp>>
  BY DEF Delete
<1> QED
  BY <1>1, <1>3, <1>4, DeleteDoes, ChangeStep

\* An update under way, undisturbed, runs alone
LEMMA CalmAlone ==
    ASSUME IInv, disturbed = FALSE, NEW t \in Tasks, Updating(t)
    PROVE  Solo(t) /\ CalmTask(t) /\ Alone(t)
<1>1. CalmTask(t) /\ task[t].alone = TRUE
  BY DEF IInv, CalmOK, CalmTask
<1>2. Solo(t)
  BY <1>1 DEF IInv, SoloOK
<1> QED
  BY <1>1, <1>2 DEF Solo

\* Steps of an update that only write the temporary file, or read
LEMMA WriteStep ==
    ASSUME IInv, disturbed = FALSE, NEW t \in Tasks,
           Snapshot(t) \/ Truncate(t) \/ Fill(t) \/ List(t)
    PROVE  UNCHANGED Atomic!vars
<1>1. TaskTypes /\ store \in Table /\ Updating(t)
  BY TypeParts DEF IInv, DataTypes, Snapshot, Truncate, Fill, List, Updating
<1>2. Solo(t) /\ Alone(t)
  BY <1>1, CalmAlone
<1>3. UNCHANGED <<store, routes, disturbed>>
  BY DEF Snapshot, Truncate, Fill, List
<1>4. file' = file
  BY <1>2 DEF Snapshot, Truncate, Fill, List, Solo
<1>5. /\ Others(t)
      /\ \/ /\ task[t].step \in {"snapshot", "truncate", "fill"}
            /\ task'[t].step \in {"truncate", "fill", "remove"}
         \/ task[t].step = "list" /\ task'[t].step = "replace"
  BY <1>1, SnapshotDoes, TruncateDoes, FillDoes, ListDoes
     DEF Snapshot, Truncate, Fill, List
<1>6. Alone(t)'
  BY <1>2, <1>5 DEF Alone, Updating, Others
<1>7. disturbed' = FALSE
  BY <1>3
<1>8. Phase' = Phase
  BY <1>2, <1>5, <1>6, <1>7, PhaseAlone, PhaseAloneNext
<1> QED
  BY <1>3, <1>4, <1>8 DEF Atomic!vars, LoadEntries

LEMMA LoadMissing == file = Missing => LoadEntries = Empty
BY DEF LoadEntries, Missing

LEMMA RemoveStep ==
    ASSUME IInv, disturbed = FALSE, NEW t \in Tasks, Remove(t)
    PROVE  Atomic!Lose
<1>1. TaskTypes /\ Updating(t) /\ task[t].step = "remove"
  BY TypeParts DEF IInv, Remove, Updating
<1>2. Alone(t)
  BY <1>1, CalmAlone
<1>3. task'[t].step = "rename" /\ \A u \in Tasks \ {t} : Same(u)
  BY <1>1, RemoveDoes
<1>4. UNCHANGED <<store, routes, disturbed>> /\ file' = Missing
  BY DEF Remove
<1>5. Alone(t)'
  BY <1>2, <1>3 DEF Alone, Updating, Same
<1>6. disturbed' = FALSE
  BY <1>4
<1>7. Phase = "changed" /\ Phase' = "lost"
  BY <1>1, <1>2, <1>3, <1>5, <1>6, PhaseAlone, PhaseAloneNext
<1>8. LoadEntries' = Atomic!Empty
  BY <1>4 DEF LoadEntries, Missing, Empty, Atomic!Empty
<1> QED
  BY <1>4, <1>7, <1>8 DEF Atomic!Lose, Atomic!From

LEMMA RenameStep ==
    ASSUME IInv, disturbed = FALSE, NEW t \in Tasks, Rename(t)
    PROVE  Atomic!Save
<1>1. TaskTypes /\ Updating(t) /\ task[t].step = "rename"
  BY TypeParts DEF IInv, Rename, Updating
<1>2. Alone(t) /\ tmp = Whole(store)
  BY <1>1, CalmAlone DEF Solo
<1>3. task'[t].step = "list" /\ \A u \in Tasks \ {t} : Same(u)
  BY <1>1, RenameDoes
<1>4. UNCHANGED <<store, routes, disturbed>> /\ file' = Whole(store)
  BY <1>2 DEF Rename
<1>5. Alone(t)'
  BY <1>2, <1>3 DEF Alone, Updating, Same
<1>6. disturbed' = FALSE
  BY <1>4
<1>7. Phase = "lost" /\ Phase' = "saved"
  BY <1>1, <1>2, <1>3, <1>5, <1>6, PhaseAlone, PhaseAloneNext
<1>8. LoadEntries' = store
  BY <1>4 DEF LoadEntries, Whole
<1> QED
  BY <1>4, <1>7, <1>8 DEF Atomic!Save, Atomic!From

\* The update ends; alone, it ends a disturbance as well
LEMMA ReplaceStep ==
    ASSUME IInv, disturbed' = FALSE, NEW t \in Tasks, Replace(t)
    PROVE  Atomic!Serve \/ Atomic!Recover
<1>1. TaskTypes /\ Updating(t) /\ task[t].step = "replace"
  BY TypeParts DEF IInv, Replace, Updating
<1>2. /\ routes' = task[t].snap /\ disturbed' = (disturbed /\ ~task[t].alone)
      /\ UNCHANGED <<store, file, tmp>>
  BY DEF Replace
<1>3. Others(t) /\ task'[t].step \in {"idle", "probe"}
  BY <1>1, ReplaceDoes
<1>4. task[t].alone = TRUE
  <2>1. disturbed \in BOOLEAN
    BY TypeParts DEF IInv, DataTypes
  <2>2. task[t].alone \in BOOLEAN
    BY <1>1, TaskFields DEF TaskTypes
  <2>3. CASE disturbed = FALSE
    BY <1>1, <2>3 DEF IInv, CalmOK, CalmTask
  <2>4. CASE disturbed = TRUE
    BY <1>2, <2>2, <2>4
  <2> QED
    BY <2>1, <2>3, <2>4
<1>5. Solo(t) /\ Alone(t)
  BY <1>1, <1>4 DEF IInv, SoloOK, Solo
<1>6. routes' = store /\ LoadEntries = store /\ LoadEntries' = store
  BY <1>1, <1>2, <1>5 DEF Solo, LoadEntries, Whole
<1>7. Alone(t)'
  BY <1>3, <1>5 DEF Alone, Updating, Others
<1>8. Phase' = "rest"
  BY <1>3, <1>7, PhaseAloneNext
<1>9. CASE disturbed = FALSE
  <2>1. Phase = "saved"
    BY <1>1, <1>5, <1>9, PhaseAlone
  <2> QED
    BY <1>2, <1>6, <1>8, <2>1 DEF Atomic!Serve, Atomic!From
<1>10. CASE disturbed = TRUE
  <2>1. Phase = "unknown"
    BY <1>10 DEF Phase
  <2> QED
    BY <1>2, <1>6, <1>8, <2>1 DEF Atomic!Recover, Atomic!From
<1> QED
  BY <1>9, <1>10 DEF IInv, TypeOK

LEMMA RestartStep ==
    ASSUME IInv, disturbed' = FALSE, Restart
    PROVE  Atomic!Crash
<1>1. \A t \in Tasks : task'[t].step = "idle"
  BY NoTaskTyped DEF Restart
<1>2. Phase' = "rest"
  BY <1>1 DEF Phase, At
<1>3. Phase # "unknown"
  BY DEF Phase, Restart
<1>4. store' = LoadEntries /\ routes' = LoadEntries /\ LoadEntries' = LoadEntries
  BY DEF Restart, LoadEntries
<1> QED
  BY <1>2, <1>3, <1>4 DEF Atomic!Crash

LEMMA AtomicStep == IInv /\ [Next]_vars => [Atomic!Next]_(Atomic!vars)
<1> SUFFICES ASSUME IInv, [Next]_vars PROVE Atomic!Next \/ UNCHANGED Atomic!vars
  OBVIOUS
<1>0. TaskTypes /\ DataTypes /\ store \in Table /\ disturbed \in BOOLEAN
  BY TypeParts DEF IInv, DataTypes
<1>1. CASE UNCHANGED vars
  BY <1>1 DEF vars, Atomic!vars, Phase, At, LoadEntries
<1>2. CASE disturbed' = TRUE
  BY <1>2, Disturbed
<1>3. ASSUME disturbed' = FALSE, NEW t \in Tasks, Step(t)
      PROVE  Atomic!Next \/ UNCHANGED Atomic!vars
  <2>1. CASE Upsert(t) \/ Delete(t)
    BY <1>3, <2>1, UpsertStep, DeleteStep DEF Atomic!Next
  <2>2. CASE Replace(t)
    BY <1>3, <2>2, ReplaceStep DEF Atomic!Next
  <2>3. CASE SaveFails(t)
    BY <1>3, <2>3 DEF SaveFails
  <2>4. CASE Snapshot(t) \/ Truncate(t) \/ Fill(t) \/ List(t) \/ Remove(t) \/ Rename(t)
    <3>1. disturbed = FALSE
      BY <1>3, <2>4 DEF Snapshot, Truncate, Fill, List, Remove, Rename
    <3> QED
      BY <2>4, <3>1, WriteStep, RemoveStep, RenameStep DEF Atomic!Next
  <2>5. CASE Set(t) \/ Merge(t) \/ ProbeEnds(t) \/ Fetched(t) \/ Check(t)
    <3>1. UNCHANGED <<store, routes, file, disturbed>> /\ ~Updating(t)
      BY <2>5 DEF Set, Merge, ProbeEnds, Fetched, Check, Updating
    <3>2. /\ Others(t)
          /\ task'[t].step \in {"idle", "merge", "upsert", "check"}
      <4>1. CASE Set(t)
        BY <1>0, <4>1, SetDoes
      <4>2. CASE Merge(t)
        BY <1>0, <4>2, MergeDoes
      <4>3. CASE ProbeEnds(t)
        BY <1>0, <4>3, EndTyped DEF ProbeEnds
      <4>4. CASE Fetched(t)
        BY <1>0, <4>4, FetchedDoes
      <4>5. CASE Check(t)
        BY <1>0, <4>5, CheckDoes
      <4> QED
        BY <2>5, <4>1, <4>2, <4>3, <4>4, <4>5
    <3>3. ~Updating(t)'
      BY <3>2 DEF Updating
    <3> QED
      BY <3>1, <3>2, <3>3, QuietStep
  <2> QED
    BY <1>3, <2>1, <2>2, <2>3, <2>4, <2>5 DEF Step
<1>4. ASSUME disturbed' = FALSE, Restart PROVE Atomic!Next
  BY <1>4, RestartStep DEF Atomic!Next
<1>5. disturbed' \in BOOLEAN
  BY NextTyped, TypeParts DEF IInv, DataTypes
<1> QED
  BY <1>1, <1>2, <1>3, <1>4, <1>5 DEF Next

\* For any back ends, keys and tasks, with failing writes and crashes at every step:
\* store, file and routes together go through the steps of AtomicTable and no others
THEOREM Atomicity == Spec => TableIsAtomic
<1>1. Init => Atomic!Init
  <2> SUFFICES ASSUME Init PROVE Atomic!Init
    OBVIOUS
  <2>1. \A t \in Tasks : task[t].step = "idle"
    BY NoTaskTyped DEF Init
  <2>2. Phase = "rest"
    BY <2>1 DEF Init, Phase, At
  <2>3. LoadEntries = Empty
    BY LoadMissing DEF Init
  <2> QED
    BY <2>2, <2>3 DEF Init, Atomic!Init, Atomic!Empty, Empty
<1> QED
  BY <1>1, InvHolds, AtomicStep, PTL DEF Spec, TableIsAtomic, Atomic!Spec
=============================================================================
