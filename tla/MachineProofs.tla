---------------------------- MODULE MachineProofs ----------------------------
(***************************************************************************)
(* Proofs about Machine: its types, one gateway per lock, secrets that stay *)
(* readable, bindings that are true, logouts and roles that hold, for any   *)
(* number of processes, starts and accounts.                                *)
(***************************************************************************)
EXTENDS Machine, TLAPS

Pcs == {"idle", "lock", "resolve", "config", "makeKey", "writeKey",
        "open", "set", "disable", "wait", "save", "write"}

Late == {"wait", "save", "write"}

\* What the types need beside TypeOK, of one process
ProcOK(k) ==
    k.pc # "idle" =>
      /\ k.cmd \in Commands
      /\ k.id \in 1..MaxStarts
      /\ k.pc = "lock" => k.cmd \in Gateways
      /\ k.pc = "set" => k.cmd \in {"enable", "login"}
      /\ k.cmd = "login" => k.user \in Users
      /\ k.cmd = "bind" /\ k.pc \in Late => k.session \in Sessions

Typed == TypeOK /\ \A p \in Procs : ProcOK(proc[p])

-----------------------------------------------------------------------------
(***************************************************************************)
(* Types                                                                   *)
(***************************************************************************)
LEMMA IdleOK == Idle \in Process /\ ProcOK(Idle)
BY MachineConstants DEF ProcOK, Idle, Process

LEMMA InitTyped == Init => Typed
<1> SUFFICES ASSUME Init PROVE Typed
  OBVIOUS
<1>1. bound \in [Users -> Devices \cup {None}] /\ enabled \in BOOLEAN
  BY DEF Init
<1>2. 0 \in Devices /\ starts \in 0..MaxStarts
  BY MachineConstants DEF Init, Devices
<1>3. DataOK
  BY <1>1, <1>2 DEF Init, DataOK
<1> QED
  BY <1>3, IdleOK DEF Init, Typed, TypeOK

\* A step of one process, into a state that is well typed
LEMMA StepTyped ==
    ASSUME Typed, NEW p \in Procs, DataOK',
           NEW k \in Process, ProcOK(k), proc' = [proc EXCEPT ![p] = k]
    PROVE  Typed'
BY DEF Typed, TypeOK

\* The three ways a process goes on
LEMMA GoesOn ==
    ASSUME NEW k \in Process, ProcOK(k), k.pc # "idle", NEW pc \in Pcs \ {"idle", "lock"},
           pc = "set" => k.cmd \in {"enable", "login"},
           k.cmd = "bind" /\ pc \in Late => k.session \in Sessions
    PROVE  [k EXCEPT !.pc = pc] \in Process /\ ProcOK([k EXCEPT !.pc = pc])
BY DEF Process, ProcOK, Pcs

LEMMA Opens ==
    ASSUME NEW k \in Process, ProcOK(k), k.pc # "idle", NEW n \in 0..MaxStarts, NEW b \in BOOLEAN
    PROVE  LET o == [k EXCEPT !.pc = "open", !.key = n, !.sure = b]
           IN  o \in Process /\ ProcOK(o)
<1>1. [k EXCEPT !.pc = "open", !.key = n, !.sure = b] \in Process
  BY DEF Process
<1> QED
  BY <1>1 DEF Process, ProcOK, Late

LEMMA GetsSession ==
    ASSUME NEW k \in Process, ProcOK(k), k.pc # "idle", NEW pc \in Late, NEW s \in Sessions
    PROVE  LET o == [k EXCEPT !.pc = pc, !.session = s]
           IN  o \in Process /\ ProcOK(o)
BY DEF Process, ProcOK, Late

\* A process that starts
LEMMA Begins ==
    ASSUME NEW c \in Commands, NEW pc \in Pcs \ ({"idle", "set"} \cup Late), NEW n \in 1..MaxStarts,
           NEW b \in BOOLEAN, NEW u \in Users \cup {None},
           pc = "lock" => c \in Gateways, c = "login" => u \in Users
    PROVE  LET k == [Idle EXCEPT !.cmd = c, !.pc = pc, !.id = n, !.sound = b, !.user = u]
           IN  k \in Process /\ ProcOK(k)
<1> DEFINE k == [Idle EXCEPT !.cmd = c, !.pc = pc, !.id = n, !.sound = b, !.user = u]
<1>1. n \in 0..MaxStarts
  BY MachineConstants
<1>2. k \in Process
  BY <1>1, IdleOK DEF Process, Pcs
<1>3. k.cmd = c /\ k.pc = pc /\ k.id = n /\ k.user = u
  BY DEF Idle
<1>4. ProcOK(k)
  <2> HIDE DEF k
  <2> QED
    BY <1>3 DEF ProcOK, Late
<1> QED
  BY <1>2, <1>4

LEMMA StartTyped ==
    ASSUME Typed, NEW p \in Procs, NEW c \in Commands, NEW u \in Users \cup {None},
           Start(p, c, u)
    PROVE  Typed'
<1> DEFINE others == {q \in Procs : ~At(q, "idle") /\ Family(proc[q].cmd) = Family(c)}
           pc == CASE c \in Gateways -> "lock"
                   [] c \in RoleCmds -> "resolve"
                   [] c = "autostart" -> "open"
                   [] OTHER -> "config"
           k == [Idle EXCEPT !.cmd = c, !.pc = pc, !.id = starts + 1,
                             !.sound = others = {}, !.user = u]
           kept1(q) == [proc[q] EXCEPT !.sound = proc[q].sound /\ q \notin others]
<1>0. /\ starts < MaxStarts /\ starts' = starts + 1
      /\ kept' = IF c \in {"clone", "rm"} THEN None ELSE kept
      /\ out' = IF c = "login" \/ (c = "enable" /\ out = "disabled") THEN "no" ELSE out
      /\ shown' \in {None, shown}
      /\ UNCHANGED <<locking, config, enabled, account, device, bound, role, boot>>
  BY Zenon DEF Start
<1>1. starts + 1 \in 1..MaxStarts
  BY <1>0, MachineConstants DEF Typed, TypeOK, DataOK
<1>2. DataOK'
  BY <1>0, <1>1 DEF Typed, TypeOK, DataOK, locking, config
<1>3. /\ pc \in {"lock", "resolve", "open", "config"}
      /\ pc = "lock" <=> c \in Gateways
  BY DEF Gateways, RoleCmds
<1>4. k \in Process /\ ProcOK(k)
  <2>1. (others = {}) \in BOOLEAN /\ c = "login" => u \in Users
    BY Zenon DEF Start
  <2>2. pc \in Pcs \ ({"idle", "set"} \cup Late)
    BY <1>3 DEF Pcs, Late
  <2> HIDE DEF others, pc
  <2> QED
    BY <1>1, <1>3, <2>1, <2>2, Begins
<1>5. ASSUME NEW q \in Procs
      PROVE  kept1(q) \in Process /\ ProcOK(kept1(q))
  <2> DEFINE b == proc[q].sound /\ q \notin others
  <2>1. b \in BOOLEAN
    OBVIOUS
  <2> QED
    <3>1. kept1(q) = [proc[q] EXCEPT !.sound = b]
      BY DEF b
    <3> HIDE DEF kept1, b
    <3> QED
      BY <2>1, <3>1 DEF Typed, TypeOK, Process, ProcOK
<1>6. proc' = [q \in Procs |-> IF q = p THEN k ELSE kept1(q)]
  BY Zenon DEF Start
<1> HIDE DEF k, kept1
<1> QED
  BY <1>2, <1>4, <1>5, <1>6 DEF Typed, TypeOK

LEMMA RebootTyped == ASSUME Typed, Reboot PROVE Typed'
<1> DEFINE k == [Idle EXCEPT !.cmd = boot, !.pc = "lock", !.id = starts + 1]
<1>1. starts + 1 \in 1..MaxStarts /\ starts' = starts + 1 /\ boot \in Gateways
  BY MachineConstants DEF Reboot, Typed, TypeOK, DataOK
<1>2. DataOK'
  BY <1>1 DEF Reboot, Typed, TypeOK, DataOK, config, accounts, roles
<1>3. k \in Process /\ ProcOK(k)
  <2>1. boot \in Commands /\ boot \notin {"login", "bind"} /\ starts + 1 \in 0..MaxStarts
    BY <1>1, MachineConstants DEF Commands, Gateways
  <2>2. k \in Process
    BY <2>1, IdleOK DEF Process
  <2>3. k.cmd = boot /\ k.pc = "lock" /\ k.id = starts + 1
    BY DEF Idle
  <2> HIDE DEF k
  <2> QED
    BY <1>1, <2>1, <2>2, <2>3 DEF ProcOK, Late
<1>4. PICK p \in Procs : proc' = [q \in Procs |-> IF q = p THEN k ELSE Idle]
  BY DEF Reboot
<1> HIDE DEF k
<1> QED
  BY <1>2, <1>3, <1>4, IdleOK DEF Typed, TypeOK

\* A process that ends, or is killed
LEMMA GoneTyped ==
    ASSUME Typed, NEW p \in Procs, Killed(p) \/ SetAutostart(p) \/ ResolveRole(p)
    PROVE  Typed'
<1>1. DataOK'
  BY DEF Typed, TypeOK, DataOK, Killed, SetAutostart, AutoLaunch, ResolveRole, Gone,
         locking, config, accounts, roles
<1>2. CASE ResolveRole(p) /\ EnabledModules
  BY <1>1, <1>2, GoesOn, StepTyped DEF Typed, TypeOK, ResolveRole, Running, At, Goto, Pcs, Late
<1>3. CASE ~(ResolveRole(p) /\ EnabledModules)
  <2>1. proc' = [proc EXCEPT ![p] = Idle]
    BY <1>3 DEF Killed, SetAutostart, ResolveRole, Gone, Exit
  <2> QED
    BY <1>1, <2>1, IdleOK, StepTyped
<1> QED
  BY <1>2, <1>3

LEMMA TriedLocks ==
    ASSUME NEW p \in Procs, NEW l \in Tried(p)
    PROVE  /\ l \in Locks /\ l.name = Lock(proc[p].cmd)
           /\ l.space \in IF windows THEN {"Global", "Local"} ELSE {"file"}
BY DEF Tried

LEMMA AcquireTyped == ASSUME Typed, NEW p \in Procs, Acquire(p) PROVE Typed'
<1>1. CASE Exit(p) /\ UNCHANGED <<locks, unheld>>
  <2>1. DataOK'
    BY <1>1 DEF Acquire, Typed, TypeOK, DataOK, config, accounts, roles
  <2> QED
    BY <1>1, <2>1, IdleOK, StepTyped DEF Exit
<1>2. ASSUME NEW l \in Tried(p), Refused(p, l), UNCHANGED locks
      PROVE  Typed'
  <2>1. l.name \in {Lock(c) : c \in Gateways}
    BY TriedLocks DEF Locks
  <2>2. unheld' \in {unheld, unheld \cup {l.name}}
    BY <1>2 DEF Refused
  <2>3. DataOK'
    BY <1>2, <2>1, <2>2 DEF Acquire, Typed, TypeOK, DataOK, config, accounts, roles
  <2> QED
    BY <1>2, <2>3, IdleOK, StepTyped DEF Refused, Exit
<1>3. ASSUME NEW l \in Tried(p), Take(p, l)
      PROVE  Typed'
  <2> DEFINE next == IF proc[p].cmd = "custom" THEN "resolve" ELSE "config"
             k == [proc[p] EXCEPT !.lock = l, !.pc = next]
  <2>1. l \in Locks
    BY TriedLocks
  <2>2. DataOK'
    <3>1. locks' = locks \cup {l} /\ UNCHANGED unheld
      BY <1>3, Zenon DEF Take
    <3>2. UNCHANGED <<windows, config, accounts, roles, boot, starts>>
      BY Zenon DEF Acquire
    <3> QED
      BY <2>1, <3>1, <3>2 DEF Typed, TypeOK, DataOK, config, accounts, roles
  <2>3. next \in {"resolve", "config"} /\ proc[p].pc # "idle"
    BY DEF Acquire, At
  <2>4. proc' = [proc EXCEPT ![p] = k]
    BY <1>3, Zenon DEF Take
  <2> HIDE DEF next
  <2>5. k \in Process /\ ProcOK(k)
    BY <2>1, <2>3 DEF Typed, TypeOK, Process, ProcOK, Late
  <2> HIDE DEF k
  <2> QED
    BY <2>2, <2>4, <2>5, StepTyped
<1> QED
  BY <1>1, <1>2, <1>3 DEF Acquire

LEMMA KeyTyped ==
    ASSUME Typed, NEW p \in Procs,
           FindKey(p) \/ MakeKey(p) \/ WriteKey(p) \/ SetSecret(p)
    PROVE  Typed'
<1> DEFINE k == proc[p]
           Opened(n, b) == [k EXCEPT !.pc = "open", !.key = n, !.sure = b]
<1>0. k \in Process /\ ProcOK(k) /\ k.pc # "idle" /\ k.sure \in BOOLEAN
  BY DEF Typed, TypeOK, Process, FindKey, MakeKey, WriteKey, SetSecret, Running, At
<1>1. k.key \in 0..MaxStarts /\ k.id \in 0..MaxStarts
  BY <1>0 DEF Process
<1>2. DataOK'
  <2>1. CASE FindKey(p)
    BY <2>1 DEF FindKey, Typed, TypeOK, DataOK, locking, config, accounts, roles
  <2>2. CASE SetSecret(p)
    BY <1>0, <1>1, <2>2
       DEF SetSecret, Encrypted, Typed, TypeOK, DataOK, locking, accounts, roles
  <2>3. CASE MakeKey(p) \/ WriteKey(p)
    <3>1. keyfile' \in 0..MaxStarts \cup {None}
      BY <1>1, <2>3, MachineConstants DEF MakeKey, WriteKey, Typed, TypeOK, DataOK
    <3>2. UNCHANGED <<locking, secret, accounts, roles, boot, starts>>
      BY <2>3 DEF MakeKey, WriteKey
    <3> QED
      BY <3>1, <3>2 DEF Typed, TypeOK, DataOK, locking, accounts, roles
  <2> QED
    BY <2>1, <2>2, <2>3
<1>3. CASE \E pc \in {"makeKey", "writeKey"} : proc' = [proc EXCEPT ![p].pc = pc]
  BY <1>0, <1>2, <1>3, GoesOn, StepTyped DEF Pcs, Late
<1>4. CASE \E n \in 0..MaxStarts, b \in BOOLEAN :
             proc' = [proc EXCEPT ![p] = Opened(n, b)]
  BY <1>0, <1>2, <1>4, Opens, StepTyped
<1>5. CASE proc' = [proc EXCEPT ![p] = Idle]
  BY <1>2, <1>5, IdleOK, StepTyped
<1>6. CASE FindKey(p)
  <2>1. Settled \in BOOLEAN
    BY DEF Settled
  <2>2. CASE keyfile = None
    BY <1>3, <1>6, <2>2 DEF FindKey, Goto
  <2>3. CASE keyfile # None
    <3>1. proc' = [proc EXCEPT ![p] = Opened(keyfile, Settled)] /\ keyfile \in 0..MaxStarts
      BY <1>6, <2>3 DEF FindKey, Typed, TypeOK, DataOK
    <3> QED
      BY <1>4, <2>1, <3>1
  <2> QED
    BY <2>2, <2>3
<1>7. CASE MakeKey(p)
  <2>1. CASE Goto(p, "writeKey")
    BY <1>3, <2>1 DEF Goto
  <2>2. CASE proc' = [proc EXCEPT ![p].pc = "open", ![p].key = proc[p].id]
    <3>1. Opened(k.id, k.sure) = [k EXCEPT !.pc = "open", !.key = k.id]
      BY <1>0 DEF Process
    <3>2. proc' = [proc EXCEPT ![p] = [k EXCEPT !.pc = "open", !.key = k.id]]
      BY <2>2
    <3> HIDE DEF Opened
    <3> QED
      BY <1>0, <1>1, <1>4, <3>1, <3>2
  <2> QED
    BY <1>7, <2>1, <2>2 DEF MakeKey
<1>8. CASE WriteKey(p)
  <2> DEFINE b == keyfile' = k.id /\ Making = {p}
  <2>1. b \in BOOLEAN
    OBVIOUS
  <2>2. proc' = [proc EXCEPT ![p] = Opened(k.id, b)]
    BY <1>8, Zenon DEF WriteKey
  <2> HIDE DEF b
  <2> QED
    BY <1>1, <1>4, <2>1, <2>2
<1>9. CASE SetSecret(p)
  BY <1>5, <1>9 DEF SetSecret, Exit
<1> QED
  BY <1>6, <1>7, <1>8, <1>9

LEMMA AccountTyped ==
    ASSUME Typed, NEW p \in Procs,
           \/ Register(p) \/ ReadEnabled(p) \/ SetEnabled(p) \/ Clear(p) \/ Disable(p)
           \/ LoginAnswer(p)
    PROVE  Typed'
<1> DEFINE k == proc[p]
<1>0. k \in Process /\ ProcOK(k)
  BY DEF Typed, TypeOK
<1>1. DataOK'
  <2>1. CASE Register(p)
    <3>1. k.id \in Devices
      BY <1>0 DEF Process, Devices
    <3> QED
      BY <2>1, <3>1 DEF Register, Typed, TypeOK, DataOK, locking, config, roles
  <2>2. CASE SetEnabled(p) \/ Disable(p)
    BY <2>2 DEF SetEnabled, Disable, Typed, TypeOK, DataOK, locking, config, roles
  <2>3. CASE Clear(p)
    BY <2>3 DEF Clear, Typed, TypeOK, DataOK, locking, config, roles
  <2>4. CASE LoginAnswer(p) \/ ReadEnabled(p)
    BY <2>4 DEF LoginAnswer, ReadEnabled, Typed, TypeOK, DataOK, locking, config, accounts, roles
  <2> QED
    BY <2>1, <2>2, <2>3, <2>4
<1>2. CASE Register(p)
  BY <1>1, <1>2 DEF Register, Typed, TypeOK
<1>3. CASE Exit(p)
  BY <1>1, <1>3, IdleOK, StepTyped DEF Exit
<1>4. CASE ReadEnabled(p) \/ SetEnabled(p)
  <2>1. k.pc # "idle" /\ k.cmd \in {"enable", "login"}
    BY <1>0, <1>4 DEF ReadEnabled, SetEnabled, Running, At, ProcOK
  <2>2. Exit(p) \/ \E pc \in {"set", "wait"} : Goto(p, pc)
    BY <1>4 DEF ReadEnabled, SetEnabled, EnabledOn
  <2>3. ASSUME NEW pc \in {"set", "wait"}, Goto(p, pc) PROVE Typed'
    <3>1. [k EXCEPT !.pc = pc] \in Process /\ ProcOK([k EXCEPT !.pc = pc])
      BY <1>0, <2>1, GoesOn DEF Pcs, Late
    <3> QED
      BY <1>1, <2>3, <3>1, StepTyped DEF Goto
  <2> QED
    BY <1>3, <2>2, <2>3
<1>5. CASE (Clear(p) \/ Disable(p)) /\ ~Exit(p)
  <2> DEFINE b == k.sound /\ account' = None
             n == [k EXCEPT !.pc = "disable", !.sound = b]
  <2>1. k.pc = "open" /\ proc' = [proc EXCEPT ![p] = n]
    BY <1>5, Zenon DEF Clear, Disable, Running, At
  <2>2. b \in BOOLEAN
    BY <1>0 DEF Process
  <2> HIDE DEF b
  <2>3. n \in Process /\ ProcOK(n)
    BY <1>0, <2>1, <2>2 DEF Process, ProcOK, Late
  <2> HIDE DEF n
  <2> QED
    BY <1>1, <2>1, <2>3, StepTyped
<1>6. CASE LoginAnswer(p)
  <2> DEFINE b == DeviceBound(k.user)
             d == IF Loaded = None THEN None ELSE Loaded.share
             n == [user |-> k.user, bound |-> b, share |-> d]
  <2>1. b \in BOOLEAN
    BY DEF DeviceBound
  <2>2. d \in Devices \cup {None}
    BY DEF Typed, TypeOK, DataOK, Loaded, Sessions
  <2>3. k.user \in Users /\ k.pc # "idle"
    BY <1>0, <1>6 DEF ProcOK, LoginAnswer, Running, At
  <2>4. proc' = [proc EXCEPT ![p] = [k EXCEPT !.pc = "save", !.session = n]]
    BY <1>6, Zenon DEF LoginAnswer
  <2> HIDE DEF b, d
  <2>5. n \in Sessions
    BY <2>1, <2>2, <2>3 DEF Sessions
  <2> HIDE DEF n
  <2> QED
    BY <1>0, <1>1, <2>3, <2>4, <2>5, GetsSession, StepTyped DEF Late
<1> QED
  BY <1>2, <1>3, <1>4, <1>5, <1>6 DEF Disable

LEMMA BindTyped ==
    ASSUME Typed, NEW p \in Procs, BindCall(p) \/ BindAnswer(p) \/ SaveSession(p)
    PROVE  Typed'
<1> DEFINE k == proc[p]
<1>0. k \in Process /\ ProcOK(k)
  BY DEF Typed, TypeOK
<1>1. CASE proc' = [proc EXCEPT ![p] = Idle] /\ DataOK'
  BY <1>1, IdleOK, StepTyped
<1>2. CASE BindCall(p)
  <2>1. DataOK'
    BY <1>2 DEF BindCall, Typed, TypeOK, DataOK, locking, config, accounts, roles
  <2>2. CASE Loaded = None \/ ~Registered
    BY <1>1, <1>2, <2>1, <2>2 DEF BindCall, Exit
  <2>3. CASE Loaded # None /\ Registered
    <3> DEFINE n == [Loaded EXCEPT !.share = device]
    <3>1. n \in Sessions
      <4>1. Loaded \in Sessions /\ device \in Devices
        BY <2>3 DEF Typed, TypeOK, DataOK, Loaded, Registered
      <4> QED
        BY <4>1 DEF Sessions
    <3>2. proc' = [proc EXCEPT ![p] = [k EXCEPT !.pc = "wait", !.session = n]]
      BY <1>2, <2>3, Zenon DEF BindCall
    <3>3. k.pc # "idle"
      BY <1>2 DEF BindCall, Running, At
    <3> HIDE DEF n
    <3> QED
      BY <1>0, <2>1, <3>1, <3>2, <3>3, GetsSession, StepTyped DEF Late
  <2> QED
    BY <2>2, <2>3
<1>3. CASE BindAnswer(p)
  <2>1. k.session \in Sessions /\ k.pc # "idle"
    BY <1>0, <1>3 DEF ProcOK, Late, BindAnswer, Running, At
  <2>2. DataOK'
    BY <1>3, <2>1 DEF BindAnswer, Typed, TypeOK, DataOK, Sessions, locking, config, roles
  <2> DEFINE n == [k.session EXCEPT !.bound = TRUE]
  <2>3. n \in Sessions
    BY <2>1 DEF Sessions
  <2>4. \/ proc' = [proc EXCEPT ![p] = [k EXCEPT !.pc = "save", !.session = n]]
        \/ proc' = [proc EXCEPT ![p] = Idle]
    <3>1. [k EXCEPT !.pc = "save", !.session.bound = TRUE]
            = [k EXCEPT !.pc = "save", !.session = n]
      BY <1>0 DEF Process
    <3>2. \/ proc' = [proc EXCEPT ![p] = [k EXCEPT !.pc = "save", !.session.bound = TRUE]]
          \/ proc' = [proc EXCEPT ![p] = Idle]
      BY <1>3 DEF BindAnswer, Exit
    <3> QED
      BY <3>1, <3>2
  <2> HIDE DEF n
  <2> QED
    BY <1>0, <1>1, <2>1, <2>2, <2>3, <2>4, GetsSession, StepTyped DEF Late
<1>4. CASE SaveSession(p)
  <2>1. DataOK'
    <3>1. account' \in Sessions \cup {None, Torn}
      BY <1>0, <1>4 DEF SaveSession, Overwritten, Process
    <3>2. shown' \in Users \cup {None}
      BY <1>0, <1>4, MachineConstants
         DEF SaveSession, Typed, TypeOK, DataOK, ProcOK, Sessions, At, Late
    <3> QED
      BY <1>4, <3>1, <3>2 DEF SaveSession, Typed, TypeOK, DataOK, locking, config, roles
  <2>2. CASE Goto(p, "write") /\ At(p, "save")
    BY <1>0, <2>1, <2>2, GoesOn, StepTyped DEF ProcOK, Goto, At, Pcs, Late
  <2>3. CASE Exit(p)
    BY <1>1, <2>1, <2>3 DEF Exit
  <2> QED
    BY <1>4, <2>2, <2>3 DEF SaveSession
<1> QED
  BY <1>2, <1>3, <1>4

LEMMA RoleTyped ==
    ASSUME Typed, NEW p \in Procs, CreateRole(p) \/ SaveRole(p) \/ RemoveRole(p)
    PROVE  Typed'
<1> DEFINE k == proc[p]
<1>0. k \in Process /\ ProcOK(k) /\ k.pc # "idle" /\ k.cmd # "bind"
  BY DEF Typed, TypeOK, CreateRole, SaveRole, RemoveRole, Running, At
<1>1. DataOK'
  BY DEF CreateRole, SaveRole, RemoveRole, Overwritten, Modules, Typed, TypeOK, DataOK,
         locking, config, accounts, roles
<1>2. CASE \E pc \in {"save", "write"} : Goto(p, pc)
  BY <1>0, <1>1, <1>2, GoesOn, StepTyped DEF Goto, Pcs, Late
<1>3. CASE Exit(p)
  BY <1>1, <1>3, IdleOK, StepTyped DEF Exit
<1> QED
  BY <1>2, <1>3 DEF CreateRole, SaveRole, RemoveRole

LEMMA NextTyped == Typed /\ [Next]_vars => Typed'
<1> SUFFICES ASSUME Typed, [Next]_vars PROVE Typed'
  OBVIOUS
<1>1. CASE UNCHANGED vars
  BY <1>1 DEF vars, locking, config, accounts, roles, Typed, TypeOK, DataOK
<1>2. CASE Next
  BY <1>2, RebootTyped, StartTyped, GoneTyped, AcquireTyped, KeyTyped, AccountTyped,
     BindTyped, RoleTyped DEF Next
<1> QED
  BY <1>1, <1>2

\* Whatever processes are started and killed, and wherever their steps fall between
\* those of others, the files hold what the code takes them for
THEOREM MachineTypes == Spec => []TypeOK
<1>1. Typed => TypeOK
  BY DEF Typed
<1> QED
  BY <1>1, InitTyped, NextTyped, PTL DEF Spec

-----------------------------------------------------------------------------
(***************************************************************************)
(* A step of a process that runs leaves the others alone.                   *)
(***************************************************************************)
OwnStep(p) ==
    \/ Killed(p) \/ SetAutostart(p) \/ Acquire(p) \/ ResolveRole(p) \/ Register(p)
    \/ FindKey(p) \/ MakeKey(p) \/ WriteKey(p) \/ SetSecret(p)
    \/ ReadEnabled(p) \/ SetEnabled(p) \/ Clear(p) \/ Disable(p)
    \/ LoginAnswer(p) \/ BindCall(p) \/ BindAnswer(p) \/ SaveSession(p)
    \/ CreateRole(p) \/ SaveRole(p) \/ RemoveRole(p)

LEMMA NextSteps ==
    Next <=> \/ Reboot
             \/ \E p \in Procs : \/ \E c \in Commands, u \in Users \cup {None} : Start(p, c, u)
                                 \/ OwnStep(p)
BY DEF Next, OwnStep

\* It goes on as the command it is, or ends; only a process that ends was or gets idle
Moves(p) ==
    /\ proc[p].pc # "idle"
    /\ \A q \in Procs \ {p} : proc'[q] = proc[q]
    /\ \/ proc'[p] = Idle
       \/ /\ proc'[p].pc \notin {"idle", "lock"}
          /\ proc'[p].cmd = proc[p].cmd /\ (proc'[p].sound => proc[p].sound)
          /\ proc[p].pc # "lock" => proc'[p].lock = proc[p].lock

\* What a process keeps that goes on
Keeps(p) ==
    /\ proc'[p].cmd = proc[p].cmd /\ proc'[p].user = proc[p].user
    /\ proc'[p].key = proc[p].key /\ proc'[p].sure = proc[p].sure
    /\ proc'[p].session = proc[p].session

LEMMA AcquireMoves ==
    ASSUME Typed, NEW p \in Procs, Acquire(p)
    PROVE  /\ \A q \in Procs \ {p} : proc'[q] = proc[q]
           /\ \/ proc'[p] = Idle
              \/ /\ proc'[p].pc \in {"resolve", "config"} /\ Keeps(p)
                 /\ proc'[p].sound = proc[p].sound
<1>0. proc \in [Procs -> Process]
  BY DEF Typed, TypeOK
<1>1. CASE Exit(p)
  BY <1>0, <1>1 DEF Exit
<1>2. ASSUME NEW l, Take(p, l)
      PROVE  /\ \A q \in Procs \ {p} : proc'[q] = proc[q]
             /\ proc'[p].pc \in {"resolve", "config"} /\ Keeps(p)
             /\ proc'[p].sound = proc[p].sound
  <2> DEFINE next == IF proc[p].cmd = "custom" THEN "resolve" ELSE "config"
  <2>1. proc' = [proc EXCEPT ![p].lock = l, ![p].pc = next]
    BY <1>2, Zenon DEF Take
  <2>2. next \in {"resolve", "config"}
    OBVIOUS
  <2> HIDE DEF next
  <2> QED
    BY <1>0, <2>1, <2>2 DEF Process, Keeps
<1> QED
  BY <1>1, <1>2 DEF Acquire, Refused

LEMMA ClearMoves ==
    ASSUME Typed, NEW p \in Procs, Clear(p)
    PROVE  /\ \A q \in Procs \ {p} : proc'[q] = proc[q]
           /\ \/ proc'[p] = Idle /\ proc[p].cmd = "logout"
              \/ /\ proc'[p].pc = "disable" /\ proc[p].cmd = "disable" /\ Keeps(p)
                 /\ proc'[p].lock = proc[p].lock
                 /\ proc'[p].sound => proc[p].sound /\ account' = None
<1>0. proc \in [Procs -> Process]
  BY DEF Typed, TypeOK
<1>1. CASE proc[p].cmd # "disable"
  BY <1>0, <1>1 DEF Clear, Exit, Running
<1>2. CASE proc[p].cmd = "disable"
  <2> DEFINE b == proc[p].sound /\ account' = None
  <2>1. proc' = [proc EXCEPT ![p].pc = "disable", ![p].sound = b]
    BY <1>2, Zenon DEF Clear
  <2>2. b => proc[p].sound /\ account' = None
    OBVIOUS
  <2> HIDE DEF b
  <2> QED
    BY <1>0, <1>2, <2>1, <2>2 DEF Process, Keeps
<1> QED
  BY <1>1, <1>2

LEMMA OneMoves == ASSUME Typed, NEW p \in Procs, OwnStep(p) PROVE Moves(p)
<1>0. proc \in [Procs -> Process] /\ proc[p] \in Process
  BY DEF Typed, TypeOK
<1>1. ASSUME Exit(p) PROVE proc'[p] = Idle /\ \A q \in Procs \ {p} : proc'[q] = proc[q]
  BY <1>0, <1>1 DEF Exit
<1>2. ASSUME NEW pc \in Pcs \ {"idle", "lock"}, Goto(p, pc)
      PROVE  /\ \A q \in Procs \ {p} : proc'[q] = proc[q]
             /\ proc'[p].pc \notin {"idle", "lock"}
             /\ proc'[p].cmd = proc[p].cmd /\ proc'[p].sound = proc[p].sound
             /\ proc'[p].lock = proc[p].lock
  BY <1>0, <1>2 DEF Goto, Process
<1>3. CASE Killed(p) \/ SetAutostart(p) \/ SetSecret(p) \/ Disable(p) \/ RemoveRole(p)
  BY <1>1, <1>3 DEF Moves, Killed, Gone, SetAutostart, SetSecret, Disable,
     RemoveRole, Running, At
<1>4. CASE Acquire(p)
  BY <1>4, AcquireMoves DEF Moves, Acquire, At, Keeps
<1>5. CASE ResolveRole(p) \/ ReadEnabled(p) \/ SetEnabled(p) \/ SaveSession(p)
           \/ CreateRole(p) \/ SaveRole(p)
  BY <1>1, <1>2, <1>5 DEF Moves, ResolveRole, Gone, ReadEnabled, SetEnabled, EnabledOn,
     SaveSession, CreateRole, SaveRole, Running, At, Pcs
<1>10. CASE Clear(p)
  BY <1>10, ClearMoves DEF Moves, Clear, Running, At, Keeps
<1>6. CASE Register(p)
  BY <1>0, <1>6 DEF Moves, Register, Leads, Running, At, Process
<1>7. CASE FindKey(p) \/ MakeKey(p)
  BY <1>0, <1>2, <1>7 DEF Moves, FindKey, MakeKey, At, Pcs, Process
<1>8. CASE WriteKey(p) \/ LoginAnswer(p)
  BY <1>0, <1>8 DEF Moves, WriteKey, LoginAnswer, Running, At, Process
<1>9. CASE BindCall(p) \/ BindAnswer(p)
  BY <1>0, <1>1, <1>9 DEF Moves, BindCall, BindAnswer, Running, At, Process
<1> QED
  BY <1>3, <1>4, <1>5, <1>6, <1>7, <1>8, <1>9, <1>10 DEF OwnStep

\* A process that starts ends that those of its family are sound, and changes
\* nothing else of the others
Starts(p, c, u) ==
    /\ proc[p].pc = "idle" /\ proc'[p].pc \in {"lock", "resolve", "open", "config"}
    /\ c \in Gateways => proc'[p].pc = "lock"
    /\ c \in AccountCmds => proc'[p].pc = "config"
    /\ c \in RoleCmds => proc'[p].pc = "resolve"
    /\ proc'[p].cmd = c /\ ~proc'[p].sure /\ proc'[p].session = None
    /\ proc'[p].lock = None /\ proc'[p].user = u
    /\ \A q \in Procs \ {p} :
         /\ proc'[q].cmd = proc[q].cmd /\ proc'[q].pc = proc[q].pc
         /\ proc'[q].lock = proc[q].lock /\ proc'[q].user = proc[q].user
         /\ proc'[q].sure = proc[q].sure /\ proc'[q].key = proc[q].key
         /\ proc'[q].session = proc[q].session
         /\ proc'[q].sound => proc[q].sound
         /\ proc[q].pc # "idle" /\ Family(proc[q].cmd) = Family(c)
              => ~proc'[p].sound /\ ~proc'[q].sound

LEMMA OneStarts ==
    ASSUME Typed, NEW p \in Procs, NEW c \in Commands, NEW u \in Users \cup {None},
           Start(p, c, u)
    PROVE  Starts(p, c, u)
<1> DEFINE others == {q \in Procs : ~At(q, "idle") /\ Family(proc[q].cmd) = Family(c)}
           pc == CASE c \in Gateways -> "lock"
                   [] c \in RoleCmds -> "resolve"
                   [] c = "autostart" -> "open"
                   [] OTHER -> "config"
           k == [Idle EXCEPT !.cmd = c, !.pc = pc, !.id = starts + 1,
                             !.sound = others = {}, !.user = u]
           Left(q) == [proc[q] EXCEPT !.sound = proc[q].sound /\ q \notin others]
<1>1. proc' = [q \in Procs |-> IF q = p THEN k ELSE Left(q)] /\ proc[p].pc = "idle"
  BY Zenon DEF Start, At
<1>2. /\ pc \in {"lock", "resolve", "open", "config"}
      /\ c \in Gateways => pc = "lock"
      /\ c \in AccountCmds => pc = "config"
      /\ c \in RoleCmds => pc = "resolve"
  BY DEF Gateways, RoleCmds, AccountCmds
<1>3. /\ k.pc = pc /\ k.cmd = c /\ ~k.sure /\ k.session = None /\ (k.sound <=> others = {})
      /\ k.lock = None /\ k.user = u
  <2> DEFINE b == others = {}
  <2>1. b \in BOOLEAN
    OBVIOUS
  <2> HIDE DEF b, pc
  <2> QED
    BY <2>1 DEF Idle
<1>4. ASSUME NEW q \in Procs
      PROVE  /\ Left(q).cmd = proc[q].cmd /\ Left(q).pc = proc[q].pc
             /\ Left(q).sure = proc[q].sure /\ Left(q).key = proc[q].key
             /\ Left(q).session = proc[q].session
             /\ Left(q).lock = proc[q].lock /\ Left(q).user = proc[q].user
             /\ Left(q).sound <=> proc[q].sound /\ q \notin others
  <2> DEFINE b == proc[q].sound /\ q \notin others
  <2>1. b \in BOOLEAN
    OBVIOUS
  <2>2. Left(q) = [proc[q] EXCEPT !.sound = b]
    BY DEF b
  <2>3. proc[q] \in Process
    BY DEF Typed, TypeOK
  <2> HIDE DEF Left, b
  <2>4. /\ Left(q).cmd = proc[q].cmd /\ Left(q).pc = proc[q].pc
        /\ Left(q).sure = proc[q].sure /\ Left(q).key = proc[q].key
        /\ Left(q).session = proc[q].session /\ Left(q).sound = b
        /\ Left(q).lock = proc[q].lock /\ Left(q).user = proc[q].user
    BY <2>2, <2>3 DEF Process
  <2> QED
    BY <2>4, Zenon DEF b
<1>5. \A q \in Procs : proc[q].pc # "idle" /\ Family(proc[q].cmd) = Family(c) => q \in others
  BY DEF At
<1> HIDE DEF k, Left, others, pc
<1>6. proc'[p] = k /\ \A q \in Procs \ {p} : proc'[q] = Left(q)
  BY <1>1
<1> QED
  BY <1>1, <1>2, <1>3, <1>4, <1>5, <1>6, Zenon DEF Starts

-----------------------------------------------------------------------------
(***************************************************************************)
(* One gateway per lock: whoever is past its lock finds it in the set.      *)
(***************************************************************************)
LockInv ==
    /\ \A p \in Procs : Holder(p) =>
         /\ proc[p].lock \in locks
         /\ proc[p].lock.name = Lock(proc[p].cmd)
         /\ proc[p].lock.space \in IF windows THEN {"Global", "Local"} ELSE {"file"}
         /\ proc[p].pc \notin {"idle", "lock"}
    /\ \A p, q \in Procs : Holder(p) /\ p # q => proc[p].lock # proc[q].lock

LEMMA NextLocks == Typed /\ LockInv /\ [Next]_vars => LockInv'
<1> SUFFICES ASSUME Typed, LockInv, [Next]_vars PROVE LockInv'
  OBVIOUS
<1>1. CASE UNCHANGED vars
  BY <1>1 DEF vars, locking, LockInv, Holder
<1>2. CASE Reboot
  <2>1. \A p \in Procs : ~Holder(p)'
    BY <1>2 DEF Reboot, Holder, Idle
  <2> QED
    BY <2>1 DEF LockInv
<1>3. ASSUME NEW p \in Procs, NEW c \in Commands, NEW u \in Users \cup {None}, Start(p, c, u)
      PROVE  LockInv'
  <2>1. Starts(p, c, u) /\ locks' = locks /\ windows' = windows
    BY <1>3, OneStarts, Zenon DEF Start, locking
  <2>2. \A q \in Procs : Holder(q)' => q # p
    BY <2>1 DEF Starts, Holder
  <2>3. \A q \in Procs \ {p} : /\ proc'[q].cmd = proc[q].cmd /\ proc'[q].pc = proc[q].pc
                               /\ proc'[q].lock = proc[q].lock
    BY <2>1 DEF Starts
  <2>4. proc'[p].lock = None
    BY <2>1 DEF Starts
  <2> QED
    BY <2>1, <2>2, <2>3, <2>4 DEF LockInv, Holder
<1>4. ASSUME NEW p \in Procs, OwnStep(p) PROVE LockInv'
  <2>0. Moves(p)
    BY <1>4, OneMoves
  <2>1. CASE proc'[p] = Idle /\ (locks' = locks \/ locks' = locks \ {proc[p].lock})
             /\ windows' = windows
    <3>1. proc'[p].lock = None
      BY <2>1 DEF Idle
    <3>2. \A q \in Procs \ {p} : proc'[q] = proc[q]
      BY <2>0 DEF Moves
    <3> QED
      BY <2>1, <3>1, <3>2 DEF LockInv, Holder
  <2>2. ASSUME NEW l \in Tried(p), Take(p, l), windows' = windows PROVE LockInv'
    <3> DEFINE next == IF proc[p].cmd = "custom" THEN "resolve" ELSE "config"
    <3>1. proc' = [proc EXCEPT ![p].lock = l, ![p].pc = next]
      BY <2>2, Zenon DEF Take
    <3>2. next \in {"resolve", "config"}
      OBVIOUS
    <3> HIDE DEF next
    <3>3. /\ proc'[p].lock = l /\ proc'[p].cmd = proc[p].cmd /\ proc'[p].pc = next
          /\ \A q \in Procs \ {p} : proc'[q] = proc[q]
      BY <3>1 DEF Typed, TypeOK, Process
    <3>4. l \notin locks /\ locks' = locks \cup {l}
      BY <2>2 DEF Take
    <3>5. l # None
      BY TriedLocks, MachineConstants
    <3> QED
      BY <2>2, <3>2, <3>3, <3>4, <3>5, TriedLocks DEF LockInv, Holder
  <2>3. CASE locks' = locks /\ windows' = windows /\ proc'[p] # Idle /\ proc[p].pc # "lock"
    BY <2>0, <2>3 DEF LockInv, Holder, Moves
  <2>4. CASE Acquire(p)
    <3>1. windows' = windows
      BY <2>4 DEF Acquire
    <3>2. CASE Exit(p) /\ locks' = locks
      <4>1. proc'[p] = Idle
        BY <3>2 DEF Exit, Typed, TypeOK
      <4> QED
        BY <2>1, <3>1, <3>2, <4>1
    <3> QED
      BY <2>2, <2>4, <3>1, <3>2 DEF Acquire, Refused
  <2>5. CASE Killed(p) \/ ResolveRole(p)
    <3>1. CASE Gone(p)
      <4>1. proc'[p] = Idle /\ windows' = windows
        BY <3>1 DEF Gone, Exit, Typed, TypeOK
      <4>2. locks' = locks \/ locks' = locks \ {proc[p].lock}
        BY <3>1 DEF Gone
      <4> QED
        BY <2>1, <4>1, <4>2
    <3>2. CASE ~Gone(p)
      <4>1. locks' = locks /\ windows' = windows /\ proc[p].pc # "lock"
        BY <2>5, <3>2 DEF Killed, ResolveRole, Running, At, locking
      <4> QED
        BY <2>1, <2>3, <4>1
    <3> QED
      BY <3>1, <3>2
  <2>6. CASE ~(Killed(p) \/ ResolveRole(p) \/ Acquire(p))
    <3>1. locks' = locks /\ windows' = windows /\ proc[p].pc # "lock"
      BY <1>4, <2>6 DEF OwnStep, SetAutostart, Register, FindKey, MakeKey, WriteKey,
         SetSecret, ReadEnabled, SetEnabled, Clear, Disable, LoginAnswer, BindCall, BindAnswer,
         SaveSession, CreateRole, SaveRole, RemoveRole, Leads, Running, At, locking
    <3> QED
      BY <2>1, <2>3, <3>1
  <2> QED
    BY <2>4, <2>5, <2>6
<1> QED
  BY <1>1, <1>2, <1>3, <1>4, NextSteps

\* Of the leader and of the member never two gateways have the same lock, for any
\* number of starts, kills and reboots: where the lock is a file, at most one is past
\* it; on Windows at most one has the global mutex and at most one that of the session
THEOREM OneGateway == Spec => []OneGatewayPerLock
<1>1. Init => LockInv
  BY DEF Init, LockInv, Holder, Idle
<1>2. Typed /\ LockInv => OneGatewayPerLock
  <2> SUFFICES ASSUME Typed, LockInv, NEW p \in Procs, NEW q \in Procs,
                      Holder(p), Holder(q), p # q, Lock(proc[p].cmd) = Lock(proc[q].cmd)
               PROVE  windows /\ proc[p].lock.space # proc[q].lock.space
    BY DEF OneGatewayPerLock
  <2>1. proc[p].lock \in Locks /\ proc[q].lock \in Locks
    BY DEF Typed, TypeOK, Process, Holder
  <2>2. proc[p].lock # proc[q].lock /\ proc[p].lock.name = proc[q].lock.name
    BY DEF LockInv
  <2>3. proc[p].lock.space # proc[q].lock.space
    BY <2>1, <2>2 DEF Locks
  <2> QED
    BY <2>3 DEF LockInv
<1> QED
  BY <1>1, <1>2, InitTyped, NextTyped, NextLocks, PTL DEF Spec

-----------------------------------------------------------------------------
(***************************************************************************)
(* Secrets: once somebody is sure of the key, nobody makes another.         *)
(***************************************************************************)
KeyInv ==
    /\ \A p \in Procs : proc[p].sure => Settled /\ proc[p].key = keyfile
    /\ secret # None /\ secret.sure => Settled /\ secret.key = keyfile

\* A step that makes no key
LEMMA KeyKept ==
    ASSUME KeyInv, keyfile' = keyfile,
           \A q \in Procs :
             /\ proc'[q].pc \in {"makeKey", "writeKey"} => proc[q].pc = proc'[q].pc
             /\ proc'[q].sure => proc[q].sure /\ proc'[q].key = proc[q].key,
           \/ secret' = secret
           \/ \E p \in Procs : secret' = [key |-> proc[p].key, sure |-> proc[p].sure]
    PROVE  KeyInv'
<1>1. Settled => Settled'
  BY DEF Settled, Making
<1>2. CASE secret' = secret
  BY <1>1, <1>2 DEF KeyInv
<1>3. ASSUME NEW p \in Procs, secret' = [key |-> proc[p].key, sure |-> proc[p].sure]
      PROVE  KeyInv'
  <2>1. secret'.key = proc[p].key /\ secret'.sure = proc[p].sure
    BY <1>3
  <2> QED
    BY <1>1, <2>1 DEF KeyInv
<1> QED
  BY <1>2, <1>3

LEMMA NextKeys == Typed /\ KeyInv /\ [Next]_vars => KeyInv'
<1> SUFFICES ASSUME Typed, KeyInv, [Next]_vars PROVE KeyInv'
  OBVIOUS
<1>1. CASE UNCHANGED vars
  BY <1>1 DEF vars, config, KeyInv, Settled, Making
<1>2. CASE Reboot
  BY <1>2, KeyKept DEF Reboot, config, Idle
<1>3. ASSUME NEW p \in Procs, NEW c \in Commands, NEW u \in Users \cup {None}, Start(p, c, u)
      PROVE  KeyInv'
  <2>1. Starts(p, c, u) /\ UNCHANGED config
    BY <1>3, OneStarts, Zenon DEF Start
  <2> QED
    BY <2>1, KeyKept DEF Starts, config
<1>4. ASSUME NEW p \in Procs, OwnStep(p) PROVE KeyInv'
  <2>0. Moves(p) /\ proc \in [Procs -> Process] /\ ProcOK(proc[p])
    BY <1>4, OneMoves DEF Typed, TypeOK
  <2>1. CASE FindKey(p) /\ keyfile = None
    <3>1. ~Settled /\ keyfile' = keyfile /\ secret' = secret
      BY <2>1 DEF FindKey, Settled, config
    <3>2. ~proc'[p].sure
      BY <2>0, <2>1, <3>1 DEF FindKey, Goto, Process, KeyInv
    <3> QED
      BY <2>0, <3>1, <3>2 DEF KeyInv, Moves
  <2>2. CASE FindKey(p) /\ keyfile # None
    <3> DEFINE b == Settled
    <3>1. proc' = [proc EXCEPT ![p] = [proc[p] EXCEPT !.pc = "open", !.key = keyfile, !.sure = b]]
      BY <2>2, Zenon DEF FindKey
    <3>2. b \in BOOLEAN
      BY DEF Settled
    <3> HIDE DEF b
    <3>3. proc'[p].pc = "open" /\ proc'[p].key = keyfile /\ proc'[p].sure = b
      BY <2>0, <3>1, <3>2 DEF Process
    <3>4. keyfile' = keyfile /\ secret' = secret /\ Making' \subseteq Making
      BY <2>0, <2>2, <3>3 DEF FindKey, config, Making, Moves
    <3>5. b => Settled'
      BY <3>4 DEF Settled, b
    <3>6. b <=> Settled
      BY DEF b
    <3> QED
      BY <2>0, <3>3, <3>4, <3>5, <3>6 DEF KeyInv, Moves
  <2>3. CASE MakeKey(p) \/ WriteKey(p)
    <3>1. p \in Making /\ ~Settled /\ secret' = secret
      BY <2>3 DEF MakeKey, WriteKey, At, Making, Settled
    <3>2. \A q \in Procs \ {p} : ~proc'[q].sure
      BY <2>0, <3>1 DEF KeyInv, Moves
    <3>3. ~proc[p].sure /\ ~(secret # None /\ secret.sure)
      BY <3>1 DEF KeyInv
    <3>4. CASE MakeKey(p)
      <4>1. ~proc'[p].sure
        BY <2>0, <3>3, <3>4 DEF MakeKey, Goto, Process
      <4> QED
        BY <3>1, <3>2, <3>3, <4>1 DEF KeyInv
    <3>5. CASE WriteKey(p)
      <4> DEFINE b == keyfile' = proc[p].id /\ Making = {p}
      <4>1. proc' = [proc EXCEPT ![p] = [proc[p] EXCEPT !.pc = "open", !.key = proc[p].id, !.sure = b]]
        BY <3>5, Zenon DEF WriteKey
      <4>2. b \in BOOLEAN
        OBVIOUS
      <4> HIDE DEF b
      <4>3. proc'[p].pc = "open" /\ proc'[p].key = proc[p].id /\ proc'[p].sure = b
        BY <2>0, <4>1, <4>2 DEF Process
      <4>4. b => keyfile' = proc[p].id /\ Making' = {}
        BY <2>0, <4>3 DEF b, Making, Moves
      <4>5. proc[p].id \notin {0, None}
        BY <2>0, <3>5, MachineConstants DEF ProcOK, WriteKey, At, Devices
      <4>6. b => Settled'
        BY <4>4, <4>5 DEF Settled
      <4> QED
        BY <3>1, <3>2, <3>3, <4>3, <4>4, <4>6 DEF KeyInv
    <3> QED
      BY <2>3, <3>4, <3>5
  <2>4. CASE ~(FindKey(p) \/ MakeKey(p) \/ WriteKey(p))
    <3>1. /\ keyfile' = keyfile
          /\ secret' = secret \/ secret' = [key |-> proc[p].key, sure |-> proc[p].sure]
      BY <1>4, <2>4 DEF OwnStep, Killed, Gone, Acquire, SetAutostart, ResolveRole, Register,
         SetSecret, Encrypted, ReadEnabled, SetEnabled, Clear, Disable, LoginAnswer, BindCall,
         BindAnswer,
         SaveSession, CreateRole, SaveRole, RemoveRole, config
    <3>2. /\ proc'[p].pc \notin {"makeKey", "writeKey"}
          /\ proc'[p].sure => proc[p].sure /\ proc'[p].key = proc[p].key
      <4>1. \/ proc'[p] = Idle
            \/ /\ proc'[p].pc \in {"resolve", "config", "set", "disable", "wait", "save", "write"}
               /\ proc'[p].sure = proc[p].sure /\ proc'[p].key = proc[p].key
            \/ Register(p)
        <5>1. CASE Acquire(p)
          BY <5>1, AcquireMoves DEF Keeps
        <5>2. CASE Clear(p)
          BY <5>2, ClearMoves DEF Keeps
        <5>3. CASE ReadEnabled(p) \/ SetEnabled(p)
          BY <2>0, <5>3 DEF ReadEnabled, SetEnabled, EnabledOn, Exit, Goto, Process
        <5>4. CASE ResolveRole(p)
          BY <2>0, <5>4 DEF ResolveRole, Gone, Exit, Goto, Process
        <5>5. CASE LoginAnswer(p) \/ BindCall(p) \/ BindAnswer(p)
          BY <2>0, <5>5 DEF LoginAnswer, BindCall, BindAnswer, Exit, Process
        <5>6. CASE Killed(p) \/ SetAutostart(p) \/ SetSecret(p) \/ Disable(p) \/ RemoveRole(p)
          BY <2>0, <5>6 DEF Killed, Gone, SetAutostart, SetSecret, Disable, RemoveRole, Exit
        <5>7. CASE SaveSession(p) \/ CreateRole(p) \/ SaveRole(p)
          BY <2>0, <5>7 DEF SaveSession, CreateRole, SaveRole, Exit, Goto, Process
        <5> QED
          BY <1>4, <2>4, <5>1, <5>2, <5>3, <5>4, <5>5, <5>6, <5>7 DEF OwnStep
      <4>2. CASE Register(p)
        BY <4>2 DEF Register, Leads, Running, At
      <4> QED
        BY <4>1, <4>2 DEF Idle
    <3> QED
      BY <2>0, <3>1, <3>2, KeyKept DEF Moves
  <2> QED
    BY <2>1, <2>2, <2>3, <2>4
<1> QED
  BY <1>1, <1>2, <1>3, <1>4, NextSteps

\* Whichever processes start and stop, fail to write vault.key or are killed while
\* they write it, a secret stays readable if its writer came after the race of the
\* first starts, or won it alone
THEOREM SecretsStayReadable == Spec => []SecretsReadable
<1>1. Init => KeyInv
  BY DEF Init, KeyInv, Idle
<1>2. KeyInv => SecretsReadable
  BY DEF KeyInv, SecretsReadable, Readable
<1> QED
  BY <1>1, <1>2, InitTyped, NextTyped, NextKeys, PTL DEF Spec

-----------------------------------------------------------------------------
(***************************************************************************)
(* Bindings: a session says "bound" only after the account server has.      *)
(***************************************************************************)
Truthful(s, b) == s.bound => b[s.user] # None

BoundInv ==
    /\ account \in Sessions => Truthful(account, bound)
    /\ \A p \in Procs :
         /\ proc[p].session \in Sessions => Truthful(proc[p].session, bound)
         /\ Running(p, {"bind"}, "wait") => proc[p].session.share # None

\* A step that the account server and the account have no part in
LEMMA BoundKept ==
    ASSUME BoundInv, UNCHANGED <<account, bound>>,
           \A q \in Procs :
             \/ proc'[q].session = None /\ proc'[q].pc # "wait"
             \/ /\ proc'[q].session = proc[q].session
                /\ Running(q, {"bind"}, "wait")' => Running(q, {"bind"}, "wait")
    PROVE  BoundInv'
BY MachineConstants DEF BoundInv, Truthful, DeviceBound, Running, At

\* The steps that keep their session and call nobody
LEMMA SessionKept ==
    ASSUME Typed, NEW p \in Procs, OwnStep(p),
           ~(LoginAnswer(p) \/ BindCall(p) \/ BindAnswer(p))
    PROVE  \/ proc'[p] = Idle
           \/ /\ proc'[p].session = proc[p].session
              /\ Running(p, {"bind"}, "wait")' => Running(p, {"bind"}, "wait")
<1>0. proc \in [Procs -> Process]
  BY DEF Typed, TypeOK
<1>1. CASE Acquire(p) \/ Clear(p)
  BY <1>1, AcquireMoves, ClearMoves DEF Keeps, Running, At
<1>2. CASE Register(p)
  BY <1>2 DEF Register, Running, At
<1>3. CASE FindKey(p) \/ MakeKey(p) \/ WriteKey(p)
  <2>1. proc'[p].session = proc[p].session /\ proc'[p].pc # "wait"
    BY <1>0, <1>3 DEF FindKey, MakeKey, WriteKey, Goto, Process
  <2> QED
    BY <2>1 DEF Running, At
<1>4. CASE ReadEnabled(p) \/ SetEnabled(p)
  <2>1. proc[p].cmd # "bind"
    BY <1>4 DEF Typed, ProcOK, ReadEnabled, SetEnabled, Running, At
  <2> QED
    BY <1>0, <1>4, <2>1
       DEF ReadEnabled, SetEnabled, EnabledOn, Exit, Goto, Process, Running, At
<1>5. CASE ~(Acquire(p) \/ Clear(p) \/ Register(p) \/ FindKey(p) \/ MakeKey(p) \/ WriteKey(p)
             \/ ReadEnabled(p) \/ SetEnabled(p))
  <2>1. Exit(p) \/ \E pc \in {"config", "save", "write"} : Goto(p, pc)
    BY <1>5 DEF OwnStep, Killed, Gone, SetAutostart, ResolveRole, SetSecret,
       Disable, SaveSession, CreateRole, SaveRole, RemoveRole
  <2> QED
    BY <1>0, <2>1 DEF Exit, Goto, Process, Running, At
<1> QED
  BY <1>1, <1>2, <1>3, <1>4, <1>5

LEMMA NextBound == Typed /\ BoundInv /\ [Next]_vars => BoundInv'
<1> SUFFICES ASSUME Typed, BoundInv, [Next]_vars PROVE BoundInv'
  OBVIOUS
<1>1. CASE UNCHANGED vars
  BY <1>1 DEF vars, accounts, BoundInv, Truthful, DeviceBound, Running, At
<1>2. CASE Reboot
  BY <1>2, BoundKept DEF Reboot, accounts, Idle
<1>3. ASSUME NEW p \in Procs, NEW c \in Commands, NEW u \in Users \cup {None}, Start(p, c, u)
      PROVE  BoundInv'
  <2>1. Starts(p, c, u) /\ UNCHANGED <<account, bound>>
    BY <1>3, OneStarts, Zenon DEF Start
  <2> QED
    BY <2>1, BoundKept DEF Starts, Running, At
<1>4. ASSUME NEW p \in Procs, OwnStep(p) PROVE BoundInv'
  <2> DEFINE k == proc[p]
  <2>0. Moves(p) /\ k \in Process /\ ProcOK(k) /\ proc \in [Procs -> Process]
    BY <1>4, OneMoves DEF Typed, TypeOK
  <2>1. CASE LoginAnswer(p)
    <3> DEFINE b == DeviceBound(k.user)
               n == [user |-> k.user, bound |-> b,
                     share |-> IF Loaded = None THEN None ELSE Loaded.share]
    <3>1. proc' = [proc EXCEPT ![p] = [k EXCEPT !.pc = "save", !.session = n]]
      BY <2>1, Zenon DEF LoginAnswer
    <3>2. UNCHANGED <<account, bound>>
      BY <2>1 DEF LoginAnswer, accounts
    <3>3. n.bound <=> DeviceBound(n.user)
      <4>1. b \in BOOLEAN
        BY DEF DeviceBound
      <4>2. n.user = k.user /\ n.bound = b
        OBVIOUS
      <4> HIDE DEF n
      <4> QED
        BY <4>1, <4>2
    <3> HIDE DEF n
    <3>4. proc'[p].pc = "save" /\ proc'[p].session = n
      BY <2>0, <3>1 DEF Process
    <3> QED
      BY <2>0, <3>2, <3>3, <3>4 DEF BoundInv, Truthful, DeviceBound, Moves, Running, At
  <2>2. CASE BindCall(p)
    <3>1. UNCHANGED <<account, bound>>
      BY <2>2 DEF BindCall, accounts
    <3>2. CASE Loaded = None \/ ~Registered
      <4>1. proc'[p] = Idle
        BY <2>0, <2>2, <3>2 DEF BindCall, Exit
      <4> QED
        BY <2>0, <3>1, <4>1, BoundKept DEF Moves, Idle, Running, At
    <3>3. CASE Loaded # None /\ Registered
      <4> DEFINE n == [Loaded EXCEPT !.share = device]
      <4>1. Loaded = account /\ account \in Sessions /\ device # None
        BY <3>3 DEF Loaded, Registered, Typed, TypeOK, DataOK
      <4>2. n.share = device /\ n.bound = account.bound /\ n.user = account.user
        BY <4>1 DEF Sessions
      <4>3. proc' = [proc EXCEPT ![p] = [k EXCEPT !.pc = "wait", !.session = n]]
        BY <2>2, <3>3, Zenon DEF BindCall
      <4> HIDE DEF n
      <4>4. proc'[p].session = n
        BY <2>0, <4>3 DEF Process
      <4>5. Truthful(n, bound') /\ n.share # None
        BY <3>1, <4>1, <4>2 DEF BoundInv, Truthful, DeviceBound
      <4> QED
        BY <2>0, <3>1, <4>4, <4>5 DEF BoundInv, Truthful, DeviceBound, Moves, Running, At
    <3> QED
      BY <3>2, <3>3
  <2>3. CASE BindAnswer(p)
    <3> DEFINE n == [k.session EXCEPT !.bound = TRUE]
    <3>1. k.session \in Sessions /\ k.session.share # None
      BY <2>0, <2>3 DEF ProcOK, Late, BindAnswer, BoundInv, Running, At
    <3>2. /\ account' = account
          /\ bound' = [bound EXCEPT ![k.session.user] = k.session.share]
      BY <2>3 DEF BindAnswer
    <3>3. \A u \in Users : bound[u] # None => bound'[u] # None
      BY <3>1, <3>2 DEF Typed, TypeOK, DataOK
    <3>4. bound'[k.session.user] # None
      BY <3>1, <3>2 DEF Typed, TypeOK, DataOK, Sessions
    <3>5. proc'[p] = Idle \/ (proc'[p].session = n /\ proc'[p].pc = "save")
      <4>1. [k EXCEPT !.pc = "save", !.session.bound = TRUE]
              = [k EXCEPT !.pc = "save", !.session = n]
        BY <2>0 DEF Process
      <4>2. \/ proc' = [proc EXCEPT ![p] = [k EXCEPT !.pc = "save", !.session.bound = TRUE]]
            \/ proc' = [proc EXCEPT ![p] = Idle]
        BY <2>3 DEF BindAnswer, Exit
      <4> HIDE DEF n
      <4> QED
        BY <2>0, <4>1, <4>2 DEF Process
    <3>6. n.user = k.session.user
      BY <3>1 DEF Sessions
    <3>7. \A s \in Sessions : Truthful(s, bound) => Truthful(s, bound')
      BY <3>3 DEF Truthful, Sessions
    <3> HIDE DEF n
    <3>8. Truthful(proc'[p].session, bound') \/ proc'[p].session \notin Sessions
      BY <3>4, <3>5, <3>6, MachineConstants DEF Truthful, Idle
    <3>9. ~Running(p, {"bind"}, "wait")'
      BY <3>5 DEF Running, At, Idle
    <3> QED
      BY <2>0, <3>2, <3>7, <3>8, <3>9 DEF BoundInv, Moves, Running, At
  <2>4. CASE SaveSession(p)
    <3>1. account' \in {k.session, None, Torn} /\ bound' = bound
      BY <2>4 DEF SaveSession, Overwritten
    <3>2. account' \in Sessions => Truthful(account', bound')
      BY <3>1, MachineConstants DEF BoundInv, Truthful, DeviceBound
    <3>3. \/ proc'[p] = Idle
          \/ /\ proc'[p].session = k.session
             /\ Running(p, {"bind"}, "wait")' => Running(p, {"bind"}, "wait")
      BY <1>4, <2>4, SessionKept DEF SaveSession, LoginAnswer, BindCall, BindAnswer, Running, At
    <3> QED
      BY <2>0, <3>1, <3>2, <3>3, MachineConstants
         DEF BoundInv, Truthful, DeviceBound, Moves, Running, At, Idle
  <2>5. CASE Clear(p)
    <3>1. account' \in {account, None} /\ bound' = bound
      BY <2>5 DEF Clear
    <3>2. \/ proc'[p] = Idle
          \/ /\ proc'[p].session = k.session
             /\ Running(p, {"bind"}, "wait")' => Running(p, {"bind"}, "wait")
      BY <1>4, <2>5, SessionKept DEF Clear, LoginAnswer, BindCall, BindAnswer, Running, At
    <3> QED
      BY <2>0, <3>1, <3>2, MachineConstants
         DEF BoundInv, Truthful, DeviceBound, Moves, Running, At, Idle
  <2>6. CASE ~(LoginAnswer(p) \/ BindCall(p) \/ BindAnswer(p) \/ SaveSession(p) \/ Clear(p))
    <3>1. UNCHANGED <<account, bound>>
      BY <1>4, <2>6 DEF OwnStep, Killed, Gone, Acquire, SetAutostart, ResolveRole, Register,
         FindKey, MakeKey, WriteKey, SetSecret, ReadEnabled, SetEnabled, Disable,
         CreateRole, SaveRole, RemoveRole, accounts
    <3>2. \/ proc'[p] = Idle
          \/ /\ proc'[p].session = k.session
             /\ Running(p, {"bind"}, "wait")' => Running(p, {"bind"}, "wait")
      BY <1>4, <2>6, SessionKept
    <3> QED
      BY <2>0, <3>1, <3>2, BoundKept DEF Moves, Running, At, Idle
  <2> QED
    BY <2>1, <2>2, <2>3, <2>4, <2>5, <2>6
<1> QED
  BY <1>1, <1>2, <1>3, <1>4, NextSteps

-----------------------------------------------------------------------------
(***************************************************************************)
(* Commands that run alone: no other of their family has lived since they   *)
(* began.                                                                   *)
(***************************************************************************)
SoundInv ==
    \A p, q \in Procs :
        p # q /\ proc[p].pc # "idle" /\ proc[q].pc # "idle" /\ proc[p].sound
          => Family(proc[q].cmd) # Family(proc[p].cmd)

LEMMA Families ==
    /\ \A c \in AccountCmds : Family(c) = "account"
    /\ \A c \in RoleCmds : Family(c) = "role"
BY DEF Family, AccountCmds, RoleCmds

\* Who runs alone knows that no other command of its family is there
LEMMA NoOther ==
    ASSUME SoundInv, NEW p \in Procs, proc[p].pc # "idle", proc[p].sound
    PROVE  /\ proc[p].cmd \in AccountCmds => \A q \in Procs \ {p} :
                proc[q].pc # "idle" => proc[q].cmd \notin AccountCmds
           /\ proc[p].cmd \in RoleCmds => \A q \in Procs \ {p} :
                proc[q].pc # "idle" => proc[q].cmd \notin RoleCmds
<1>1. \A q \in Procs \ {p} : proc[q].pc # "idle" => Family(proc[q].cmd) # Family(proc[p].cmd)
  BY DEF SoundInv
<1> QED
  BY <1>1, Families

LEMMA NextSound == Typed /\ SoundInv /\ [Next]_vars => SoundInv'
<1> SUFFICES ASSUME Typed, SoundInv, [Next]_vars PROVE SoundInv'
  OBVIOUS
<1>1. CASE UNCHANGED vars
  BY <1>1 DEF vars, SoundInv
<1>2. CASE Reboot
  BY <1>2 DEF Reboot, SoundInv, Idle
<1>3. ASSUME NEW p \in Procs, NEW c \in Commands, NEW u \in Users \cup {None}, Start(p, c, u)
      PROVE  SoundInv'
  BY <1>3, OneStarts DEF Starts, SoundInv
<1>4. ASSUME NEW p \in Procs, OwnStep(p) PROVE SoundInv'
  BY <1>4, OneMoves DEF Moves, SoundInv, Idle
<1> QED
  BY <1>1, <1>2, <1>3, <1>4, NextSteps

(***************************************************************************)
(* What a session shows: as long as a bind is shown, only logins of its     *)
(* account are on their way, and they keep its share id.                    *)
(***************************************************************************)
Shows(s, u) == s.user = u /\ s.share \in {None, bound[u]}

ShownInv ==
    /\ shown # None =>
         /\ account \in Sessions => Shows(account, shown)
         /\ \A p \in Procs : proc[p].pc # "idle" /\ proc[p].cmd \in AccountCmds =>
              /\ proc[p].cmd \in {"enable", "login"}
              /\ proc[p].cmd = "login" =>
                   /\ proc[p].user = shown
                   /\ proc[p].pc \in {"save", "write"} => Shows(proc[p].session, shown)
    /\ \A p \in Procs :
         proc[p].cmd = "bind" /\ proc[p].pc \in {"save", "write"} /\ proc[p].sound
           => proc[p].session.share = bound[proc[p].session.user]

\* A step that the account server and the account have no part in
LEMMA ShownKept ==
    ASSUME ShownInv, NEW p \in Procs, Moves(p), UNCHANGED <<account, bound, shown>>,
           \/ proc'[p] = Idle
           \/ proc[p].cmd \notin AccountCmds
           \/ /\ proc'[p].user = proc[p].user /\ proc'[p].session = proc[p].session
              /\ proc'[p].pc \in {"save", "write"} => proc[p].pc \in {"save", "write"}
    PROVE  ShownInv'
<1>1. CASE proc'[p] = Idle
  BY <1>1 DEF ShownInv, Shows, Moves, Idle
<1>2. CASE proc'[p].cmd = proc[p].cmd /\ proc[p].cmd \notin AccountCmds
  BY <1>2 DEF ShownInv, Shows, Moves, AccountCmds
<1>3. CASE /\ proc'[p].cmd = proc[p].cmd /\ (proc'[p].sound => proc[p].sound)
           /\ proc'[p].user = proc[p].user /\ proc'[p].session = proc[p].session
           /\ proc'[p].pc \in {"save", "write"} => proc[p].pc \in {"save", "write"}
  BY <1>3 DEF ShownInv, Shows, Moves, AccountCmds
<1> QED
  BY <1>1, <1>2, <1>3 DEF Moves

\* No bind, logout or disable runs while one is shown
LEMMA NotShown ==
    ASSUME ShownInv, NEW p \in Procs, proc[p].pc # "idle",
           proc[p].cmd \in {"bind", "logout", "disable"}
    PROVE  shown = None
BY DEF ShownInv, AccountCmds

LEMMA NextShown == Typed /\ SoundInv /\ ShownInv /\ [Next]_vars => ShownInv'
<1> SUFFICES ASSUME Typed, SoundInv, ShownInv, [Next]_vars PROVE ShownInv'
  OBVIOUS
<1>1. CASE UNCHANGED vars
  BY <1>1 DEF vars, accounts, ShownInv, Shows
<1>2. CASE Reboot
  <2>1. \A q \in Procs : proc'[q].pc \in {"idle", "lock"} /\ proc'[q].cmd \in {None} \cup Gateways
    BY <1>2 DEF Reboot, Idle, Typed, TypeOK, DataOK
  <2>2. \A c \in {None} \cup Gateways : c \notin AccountCmds
    BY MachineConstants DEF Gateways, Commands, AccountCmds
  <2> QED
    BY <1>2, <2>1, <2>2 DEF Reboot, accounts, ShownInv, Shows
<1>3. ASSUME NEW p \in Procs, NEW c \in Commands, NEW u \in Users \cup {None}, Start(p, c, u)
      PROVE  ShownInv'
  <2>1. /\ Starts(p, c, u) /\ UNCHANGED <<account, bound>>
        /\ shown' = IF c \in AccountCmds \ {"enable"} /\ ~(c = "login" /\ u = shown)
                    THEN None ELSE shown
    BY <1>3, OneStarts, Zenon DEF Start
  <2>2. \A q \in Procs \ {p} :
          /\ proc'[q].cmd = proc[q].cmd /\ proc'[q].pc = proc[q].pc
          /\ proc'[q].user = proc[q].user /\ proc'[q].session = proc[q].session
          /\ proc'[q].sound => proc[q].sound
    BY <2>1 DEF Starts
  <2>3. proc'[p].cmd = c /\ proc'[p].user = u /\ proc'[p].pc \notin {"save", "write"}
    BY <2>1 DEF Starts
  <2>4. shown' # None =>
          shown' = shown /\ (c \in AccountCmds => c = "enable" \/ (c = "login" /\ u = shown))
    BY <2>1
  <2> QED
    BY <2>1, <2>2, <2>3, <2>4 DEF ShownInv, Shows
<1>4. ASSUME NEW p \in Procs, OwnStep(p) PROVE ShownInv'
  <2> DEFINE k == proc[p]
  <2>0. Moves(p) /\ k \in Process /\ ProcOK(k) /\ proc \in [Procs -> Process]
    BY <1>4, OneMoves DEF Typed, TypeOK
  <2>1. CASE LoginAnswer(p)
    <3> DEFINE b == DeviceBound(k.user)
               d == IF Loaded = None THEN None ELSE Loaded.share
               n == [user |-> k.user, bound |-> b, share |-> d]
    <3>1. proc' = [proc EXCEPT ![p] = [k EXCEPT !.pc = "save", !.session = n]]
      BY <2>1, Zenon DEF LoginAnswer
    <3>2. UNCHANGED <<account, bound, shown>> /\ k.cmd = "login" /\ k.pc # "idle"
      BY <2>1 DEF LoginAnswer, accounts, Running, At
    <3>3. shown # None => k.user = shown
      BY <3>2 DEF ShownInv, AccountCmds
    <3>4. shown # None => d \in {None, bound[shown]}
      BY DEF Loaded, ShownInv, Shows, Typed, TypeOK, DataOK
    <3>5. n.user = k.user /\ n.share = d
      OBVIOUS
    <3> HIDE DEF n, d
    <3>6. proc'[p].pc = "save" /\ proc'[p].session = n /\ proc'[p].user = k.user
      BY <2>0, <3>1 DEF Process
    <3>7. \A q \in Procs \ {p} : proc'[q] = proc[q]
      BY <2>0 DEF Moves
    <3>8. proc'[p].cmd = "login"
      BY <2>0, <3>1, <3>2 DEF Process
    <3>9. shown' # None => Shows(n, shown')
      BY <3>2, <3>3, <3>4, <3>5 DEF Shows
    <3>10. shown' # None => proc'[p].user = shown'
      BY <3>2, <3>3, <3>6
    <3> QED
      BY <3>2, <3>6, <3>7, <3>8, <3>9, <3>10 DEF ShownInv, Shows
  <2>2. CASE BindCall(p)
    <3>1. UNCHANGED <<account, bound, shown>> /\ shown = None
      BY <2>2, NotShown DEF BindCall, accounts, Running, At
    <3>2. proc'[p].pc \notin {"save", "write"}
      BY <2>0, <2>2 DEF BindCall, Exit, Process, Idle
    <3> QED
      BY <2>0, <3>1, <3>2 DEF ShownInv, Moves
  <2>3. CASE BindAnswer(p)
    <3> DEFINE n == [k.session EXCEPT !.bound = TRUE]
    <3>1. k.session \in Sessions /\ k.cmd = "bind" /\ k.pc # "idle"
      BY <2>0, <2>3 DEF ProcOK, Late, BindAnswer, Running, At
    <3>2. /\ bound' = [bound EXCEPT ![k.session.user] = k.session.share]
          /\ shown' = None
      BY <2>3, <3>1, NotShown DEF BindAnswer
    <3>3. proc'[p] = Idle \/ proc'[p].session = n
      <4>1. [k EXCEPT !.pc = "save", !.session.bound = TRUE]
              = [k EXCEPT !.pc = "save", !.session = n]
        BY <2>0 DEF Process
      <4>2. \/ proc' = [proc EXCEPT ![p] = [k EXCEPT !.pc = "save", !.session.bound = TRUE]]
            \/ proc' = [proc EXCEPT ![p] = Idle]
        BY <2>3 DEF BindAnswer, Exit
      <4> HIDE DEF n
      <4> QED
        BY <2>0, <4>1, <4>2 DEF Process
    <3>4. n.user = k.session.user /\ n.share = k.session.share
      BY <3>1 DEF Sessions
    <3>5. bound'[k.session.user] = k.session.share
      BY <3>1, <3>2 DEF Typed, TypeOK, DataOK, Sessions
    <3>6. \A q \in Procs \ {p} : proc[q].pc # "idle" /\ proc[q].cmd = "bind" => ~proc[q].sound
      BY <3>1, NoOther DEF AccountCmds
    <3> HIDE DEF n
    <3> QED
      BY <2>0, <3>2, <3>3, <3>4, <3>5, <3>6 DEF ShownInv, Moves, Idle
  <2>4. CASE SaveSession(p) /\ At(p, "save")
    <3>1. account' = Torn /\ UNCHANGED <<bound, shown>> /\ k.pc = "save"
      BY <2>4 DEF SaveSession, At
    <3>2. /\ proc'[p].pc = "write" /\ proc'[p].cmd = k.cmd /\ proc'[p].sound = k.sound
          /\ proc'[p].user = k.user /\ proc'[p].session = k.session
      BY <2>0, <2>4 DEF SaveSession, At, Goto, Process
    <3> QED
      BY <2>0, <3>1, <3>2, MachineConstants DEF ShownInv, Shows, Moves
  <2>5. CASE SaveSession(p) /\ At(p, "write")
    <3>1. /\ account' \in {k.session, None, Torn} /\ bound' = bound /\ k.pc = "write"
          /\ proc'[p] = Idle /\ k.cmd \in {"login", "bind"}
          /\ shown' = IF k.cmd = "bind" /\ k.sound THEN k.session.user ELSE shown
      BY <2>0, <2>5 DEF SaveSession, Overwritten, At, Exit
    <3>2. \A q \in Procs \ {p} : proc'[q] = proc[q]
      BY <2>0 DEF Moves
    <3>3. CASE k.cmd = "bind" /\ k.sound
      <4>1. \A q \in Procs \ {p} : proc[q].pc # "idle" => proc[q].cmd \notin AccountCmds
        BY <3>1, <3>3, NoOther DEF AccountCmds
      <4>2. Shows(k.session, k.session.user)
        BY <3>1, <3>3 DEF ShownInv, Shows
      <4> QED
        BY <3>1, <3>2, <3>3, <4>1, <4>2, MachineConstants
           DEF ShownInv, Shows, Idle, AccountCmds
    <3>4. CASE k.cmd = "bind" /\ ~k.sound
      <4>1. shown' = None
        BY <3>1, <3>4, NotShown
      <4> QED
        BY <3>1, <3>2, <4>1 DEF ShownInv, Idle
    <3>5. CASE k.cmd = "login"
      <4>1. shown # None => Shows(k.session, shown)
        BY <3>1, <3>5 DEF ShownInv, AccountCmds
      <4> QED
        BY <3>1, <3>2, <3>5, <4>1, MachineConstants DEF ShownInv, Shows, Idle
    <3> QED
      BY <3>1, <3>3, <3>4, <3>5
  <2>6. CASE Clear(p)
    <3>1. bound' = bound /\ shown' = None
      BY <2>6, NotShown DEF Clear, Running, At
    <3>2. proc'[p].pc \notin {"save", "write"}
      BY <2>6, ClearMoves DEF Idle
    <3> QED
      BY <2>0, <3>1, <3>2 DEF ShownInv, Moves
  <2>7. CASE Register(p)
    <3>1. UNCHANGED <<account, bound, shown, proc>>
      BY <2>7 DEF Register
    <3> QED
      BY <3>1 DEF ShownInv, Shows
  <2>8. CASE Acquire(p)
    <3>1. UNCHANGED <<account, bound, shown>>
      BY <2>8 DEF Acquire, accounts
    <3> QED
      BY <2>0, <2>8, <3>1, AcquireMoves, ShownKept DEF Keeps
  <2>9. CASE FindKey(p) \/ MakeKey(p) \/ WriteKey(p)
    <3>1. UNCHANGED <<account, bound, shown>>
      BY <2>9 DEF FindKey, MakeKey, WriteKey, accounts
    <3>2. /\ proc'[p].user = k.user /\ proc'[p].session = k.session
          /\ proc'[p].pc \notin {"save", "write"}
      BY <2>0, <2>9 DEF FindKey, MakeKey, WriteKey, Goto, Process
    <3> QED
      BY <2>0, <3>1, <3>2, ShownKept
  <2>10. CASE ReadEnabled(p) \/ SetEnabled(p) \/ ResolveRole(p)
    <3>1. UNCHANGED <<account, bound, shown>>
      BY <2>10 DEF ReadEnabled, SetEnabled, ResolveRole, accounts
    <3>2. \/ proc'[p] = Idle
          \/ /\ proc'[p].user = k.user /\ proc'[p].session = k.session
             /\ proc'[p].pc \notin {"save", "write"}
      <4>1. CASE ResolveRole(p)
        BY <2>0, <4>1 DEF ResolveRole, Gone, Exit, Goto, Process
      <4>2. CASE ReadEnabled(p) \/ SetEnabled(p)
        <5>1. Exit(p) \/ \E pc \in {"set", "wait"} : Goto(p, pc)
          BY <4>2, Zenon DEF ReadEnabled, SetEnabled, EnabledOn
        <5>2. ASSUME NEW pc \in {"set", "wait"}, Goto(p, pc)
              PROVE  /\ proc'[p].user = k.user /\ proc'[p].session = k.session
                     /\ proc'[p].pc \notin {"save", "write"}
          BY <2>0, <5>2 DEF Goto, Process
        <5> QED
          BY <2>0, <5>1, <5>2 DEF Exit
      <4> QED
        BY <2>10, <4>1, <4>2
    <3> QED
      BY <2>0, <3>1, <3>2, ShownKept
  <2>11. CASE Killed(p) \/ SetAutostart(p) \/ SetSecret(p) \/ Disable(p)
    <3>1. UNCHANGED <<account, bound, shown>> /\ proc'[p] = Idle
      BY <2>0, <2>11 DEF Killed, Gone, SetAutostart, SetSecret, Disable, Exit, accounts
    <3> QED
      BY <2>0, <3>1, ShownKept
  <2>12. CASE CreateRole(p) \/ SaveRole(p) \/ RemoveRole(p)
    <3>1. UNCHANGED <<account, bound, shown>> /\ k.cmd \in RoleCmds
      BY <2>12 DEF CreateRole, SaveRole, RemoveRole, Running, RoleCmds, accounts
    <3> QED
      BY <2>0, <3>1, ShownKept DEF RoleCmds, AccountCmds
  <2> QED
    BY <1>4, <2>1, <2>2, <2>3, <2>4, <2>5, <2>6, <2>7, <2>8, <2>9, <2>10, <2>11, <2>12
       DEF OwnStep, SaveSession
<1> QED
  BY <1>1, <1>2, <1>3, <1>4, NextSteps

\* However logins and binds of any number of accounts overlap, whatever answer is
\* lost and whatever file is torn: a session that says so is of an account that has a
\* device at the account server; and once a bind was saved that met no other command,
\* the session shows the very device, whatever leaders register and whichever logins
\* of that account follow
THEOREM BindingsAreTrue == Spec => []BoundIsBound
<1>1. Init => BoundInv /\ SoundInv /\ ShownInv
  BY MachineConstants DEF Init, BoundInv, SoundInv, ShownInv, Running, At, Idle
<1>2. BoundInv /\ ShownInv => BoundIsBound
  BY DEF BoundInv, BoundIsBound, Truthful, DeviceBound, ShownInv, Shows
<1> QED
  BY <1>1, <1>2, InitTyped, NextTyped, NextBound, NextSound, NextShown, PTL DEF Spec

(***************************************************************************)
(* Logouts: as long as one holds, nobody is on the way to a session.        *)
(***************************************************************************)
OutInv ==
    /\ LogoutHolds
    /\ \A p \in Procs : proc[p].pc # "idle" =>
         /\ out # "no" => proc[p].cmd # "login" /\ ~(proc[p].cmd = "bind" /\ proc[p].pc \in Late)
         /\ out = "disabled" => proc[p].cmd # "enable"
         /\ proc[p].pc = "disable" =>
              proc[p].cmd = "disable" /\ (proc[p].sound => account = None)

\* A step that goes on, to no login, no bind and no disable, by the account as it is
LEMMA OutKept ==
    ASSUME OutInv, NEW p \in Procs, Moves(p), UNCHANGED <<out, account, enabled>>,
           \/ proc'[p] = Idle
           \/ proc'[p].pc # "disable" /\ (out # "no" /\ proc[p].cmd = "bind" => proc'[p].pc \notin Late)
    PROVE  OutInv'
BY DEF OutInv, LogoutHolds, Moves, Idle, Late

LEMMA NextOut == Typed /\ SoundInv /\ OutInv /\ [Next]_vars => OutInv'
<1> SUFFICES ASSUME Typed, SoundInv, OutInv, [Next]_vars PROVE OutInv'
  OBVIOUS
<1>1. CASE UNCHANGED vars
  BY <1>1 DEF vars, accounts, OutInv, LogoutHolds
<1>2. CASE Reboot
  <2>1. \A q \in Procs : proc'[q].pc \in {"idle", "lock"} /\ proc'[q].cmd \in {None} \cup Gateways
    BY <1>2 DEF Reboot, Idle, Typed, TypeOK, DataOK
  <2> QED
    BY <1>2, <2>1, MachineConstants
       DEF Reboot, accounts, OutInv, LogoutHolds, Late, Gateways, Commands, AccountCmds
<1>3. ASSUME NEW p \in Procs, NEW c \in Commands, NEW u \in Users \cup {None}, Start(p, c, u)
      PROVE  OutInv'
  <2>1. /\ Starts(p, c, u) /\ UNCHANGED <<account, enabled>>
        /\ out' = IF c = "login" \/ (c = "enable" /\ out = "disabled") THEN "no" ELSE out
    BY <1>3, OneStarts, Zenon DEF Start
  <2>2. \A q \in Procs \ {p} : proc'[q].cmd = proc[q].cmd /\ proc'[q].pc = proc[q].pc
                                 /\ (proc'[q].sound => proc[q].sound)
    BY <2>1 DEF Starts
  <2>3. proc'[p].cmd = c /\ proc'[p].pc \notin Late \cup {"disable"}
    BY <2>1 DEF Starts, Late
  <2> QED
    BY <2>1, <2>2, <2>3 DEF OutInv, LogoutHolds
<1>4. ASSUME NEW p \in Procs, OwnStep(p) PROVE OutInv'
  <2> DEFINE k == proc[p]
  <2>0. Moves(p) /\ k \in Process /\ proc \in [Procs -> Process]
    BY <1>4, OneMoves DEF Typed, TypeOK
  <2>1. CASE Clear(p)
    <3>1. account' \in {account, None} /\ enabled' = enabled /\ k.pc = "open"
      BY <2>1 DEF Clear, config, Running, At
    <3>2. CASE k.cmd = "disable"
      <4>1. out' = out
        BY <2>1, <3>2 DEF Clear
      <4>2. /\ proc'[p].pc = "disable" /\ proc'[p].cmd = "disable"
            /\ proc'[p].sound => account' = None
        BY <2>1, <3>2, ClearMoves DEF Keeps
      <4> QED
        BY <2>0, <3>1, <4>1, <4>2 DEF OutInv, LogoutHolds, Moves, Late
    <3>3. CASE k.cmd # "disable"
      <4>1. proc'[p] = Idle /\ k.cmd = "logout"
        BY <2>1, <3>3, ClearMoves
      <4>2. out' = IF k.sound /\ account' = None /\ out = "no" THEN "loggedOut" ELSE out
        BY <2>1, <3>3, Zenon DEF Clear
      <4>3. k.sound => \A q \in Procs \ {p} :
                         proc[q].pc # "idle" => proc[q].cmd \notin AccountCmds
        BY <3>1, <4>1, NoOther DEF AccountCmds
      <4> QED
        BY <2>0, <3>1, <4>1, <4>2, <4>3 DEF OutInv, LogoutHolds, Moves, Idle, AccountCmds
    <3> QED
      BY <3>2, <3>3
  <2>2. CASE Disable(p)
    <3>1. /\ enabled' \in {enabled, FALSE} /\ account' = account /\ k.pc = "disable"
          /\ out' = IF k.sound /\ ~enabled' THEN "disabled" ELSE out
      BY <2>2 DEF Disable, At
    <3>2. proc'[p] = Idle /\ k.cmd = "disable"
      BY <2>0, <2>2, <3>1 DEF Disable, Exit, OutInv
    <3>3. k.sound => /\ account = None
                     /\ \A q \in Procs \ {p} :
                          proc[q].pc # "idle" => proc[q].cmd \notin AccountCmds
      BY <3>1, <3>2, NoOther DEF OutInv, AccountCmds
    <3>4. \A q \in Procs \ {p} : proc'[q] = proc[q]
      BY <2>0 DEF Moves
    <3>5. CASE k.sound /\ ~enabled'
      BY <3>1, <3>2, <3>3, <3>4, <3>5, MachineConstants
         DEF OutInv, LogoutHolds, Idle, AccountCmds
    <3>6. CASE ~(k.sound /\ ~enabled')
      <4>1. out' = out
        BY <3>1, <3>6
      <4>2. ~enabled => ~enabled'
        BY <3>1, Zenon
      <4>3. LogoutHolds'
        BY <3>1, <4>1, <4>2 DEF OutInv, LogoutHolds
      <4> QED
        BY <3>1, <3>2, <3>4, <4>1, <4>3 DEF OutInv, Idle
    <3> QED
      BY <3>5, <3>6
  <2>3. CASE ReadEnabled(p) \/ SetEnabled(p)
    <3>1. /\ out' = out /\ account' = account /\ k.pc \in {"open", "set"}
          /\ k.cmd \in {"enable", "login"} /\ enabled' \in {enabled, TRUE}
      BY <2>3 DEF ReadEnabled, SetEnabled, Running, At, accounts, Typed, ProcOK
    <3>2. \/ proc'[p] = Idle
          \/ proc'[p].pc = "set"
          \/ k.cmd = "login" /\ proc'[p].pc = "wait"
      BY <2>0, <2>3 DEF ReadEnabled, SetEnabled, EnabledOn, Exit, Goto, Process
    <3>3. out # "disabled"
      BY <3>1 DEF OutInv
    <3> QED
      BY <2>0, <3>1, <3>2, <3>3 DEF OutInv, LogoutHolds, Moves, Idle, Late
  <2>4. CASE LoginAnswer(p)
    <3>1. proc'[p].pc = "save" /\ k.cmd = "login" /\ UNCHANGED <<out, account, enabled>>
      <4>1. k.cmd = "login" /\ UNCHANGED <<out, account, enabled>>
        BY <2>4 DEF LoginAnswer, Running, accounts
      <4>2. \E s : proc' = [proc EXCEPT ![p] = [k EXCEPT !.pc = "save", !.session = s]]
        BY <2>4, Zenon DEF LoginAnswer
      <4> QED
        BY <2>0, <4>1, <4>2 DEF Process
    <3> QED
      BY <2>0, <3>1, OutKept
  <2>5. CASE BindCall(p)
    <3>1. UNCHANGED <<out, account, enabled>> /\ k.cmd = "bind"
      BY <2>5 DEF BindCall, Running, accounts
    <3>2. CASE Loaded = None \/ ~Registered
      BY <2>0, <2>5, <3>1, <3>2, OutKept DEF BindCall, Exit
    <3>3. CASE Loaded # None /\ Registered
      <4>1. out = "no"
        BY <3>3 DEF OutInv, LogoutHolds, Loaded
      <4>2. proc'[p].pc = "wait"
        BY <2>0, <2>5, <3>3 DEF BindCall, Process
      <4> QED
        BY <2>0, <3>1, <4>1, <4>2, OutKept
    <3> QED
      BY <3>2, <3>3
  <2>6. CASE BindAnswer(p)
    <3>1. /\ UNCHANGED <<out, account, enabled>> /\ k.cmd = "bind" /\ k.pc = "wait"
          /\ proc'[p] = Idle \/ proc'[p].pc = "save"
      BY <2>0, <2>6 DEF BindAnswer, Exit, Running, At, Process
    <3>2. out = "no"
      BY <3>1 DEF OutInv, Late
    <3> QED
      BY <2>0, <3>1, <3>2, OutKept
  <2>7. CASE SaveSession(p)
    <3>1. /\ out' = out /\ enabled' = enabled /\ k.pc \in {"save", "write"}
          /\ k.cmd \in {"login", "bind"}
          /\ proc'[p] = Idle \/ proc'[p].pc = "write"
      BY <2>0, <2>7 DEF SaveSession, Exit, Goto, At, Process
    <3>2. out = "no"
      BY <3>1 DEF OutInv, Late
    <3>3. \A q \in Procs \ {p} : proc[q].pc = "disable" => ~proc[q].sound
      BY <3>1, NoOther DEF OutInv, AccountCmds
    <3> QED
      BY <2>0, <3>1, <3>2, <3>3 DEF OutInv, LogoutHolds, Moves, Idle
  <2>8. CASE CreateRole(p) \/ SaveRole(p)
    <3>1. /\ UNCHANGED <<out, account, enabled>> /\ k.cmd \in {"new", "clone"}
          /\ proc'[p] = Idle \/ proc'[p].pc \in {"save", "write"}
      BY <2>0, <2>8 DEF CreateRole, SaveRole, Exit, Goto, Running, accounts, Process
    <3> QED
      BY <2>0, <3>1, OutKept
  <2>9. CASE Acquire(p)
    <3>2. proc'[p] = Idle \/ proc'[p].pc \in {"resolve", "config"}
      BY <2>9, AcquireMoves
    <3>3. UNCHANGED <<out, account, enabled>>
      BY <2>9 DEF Acquire, accounts
    <3> QED
      BY <2>0, <3>2, <3>3, OutKept DEF Late
  <2>10. CASE Register(p)
    <3>1. UNCHANGED <<out, account, enabled, proc>> /\ k.pc = "open"
      BY <2>10 DEF Register, Leads, Running, At
    <3> QED
      BY <3>1 DEF OutInv, LogoutHolds
  <2>11. CASE Killed(p) \/ SetAutostart(p) \/ ResolveRole(p) \/ FindKey(p) \/ MakeKey(p)
              \/ WriteKey(p) \/ SetSecret(p) \/ RemoveRole(p)
    <3>1. UNCHANGED <<out, account, enabled>>
      BY <2>11 DEF Killed, SetAutostart, ResolveRole, FindKey, MakeKey, WriteKey, SetSecret,
         RemoveRole, accounts
    <3>2. proc'[p] = Idle \/ proc'[p].pc \in {"config", "makeKey", "writeKey", "open"}
      BY <2>0, <2>11 DEF Killed, SetAutostart, ResolveRole, FindKey, MakeKey, WriteKey,
         SetSecret, RemoveRole, Gone, Exit, Goto, Process
    <3> QED
      BY <2>0, <3>1, <3>2, OutKept DEF Late
  <2> QED
    BY <1>4, <2>1, <2>2, <2>3, <2>4, <2>5, <2>6, <2>7, <2>8, <2>9, <2>10, <2>11 DEF OwnStep
<1> QED
  BY <1>1, <1>2, <1>3, <1>4, NextSteps

\* After a logout or disable that met no other account command there is no session
\* until a later login, and the plugin stays off, whatever else runs and crashes
THEOREM LogoutsHold == Spec => []LogoutHolds
<1>1. Init => SoundInv /\ OutInv
  BY DEF Init, SoundInv, OutInv, LogoutHolds, Idle
<1>2. OutInv => LogoutHolds
  BY DEF OutInv
<1> QED
  BY <1>1, <1>2, InitTyped, NextTyped, NextSound, NextOut, PTL DEF Spec

-----------------------------------------------------------------------------
(***************************************************************************)
(* Roles: what was kept is not in the way of a command that would touch it. *)
(***************************************************************************)
RoleInv ==
    /\ RoleKept
    /\ \A p \in Procs : proc[p].pc # "idle" =>
         /\ kept # None => /\ proc[p].cmd \notin {"clone", "rm"}
                           /\ ~(proc[p].cmd = "new" /\ proc[p].pc \in {"save", "write"})
         /\ proc[p].cmd \in {"new", "clone"} /\ proc[p].pc = "write" /\ proc[p].sound
              => role = Torn

\* A step that does not touch the role
LEMMA RoleUntouched ==
    ASSUME RoleInv, NEW p \in Procs, Moves(p), UNCHANGED roles,
           \/ proc'[p] = Idle
           \/ proc[p].cmd \in {"new", "clone"} => proc'[p].pc \notin {"save", "write"}
    PROVE  RoleInv'
BY DEF RoleInv, RoleKept, Moves, Idle, roles

LEMMA NextRole == Typed /\ SoundInv /\ RoleInv /\ [Next]_vars => RoleInv'
<1> SUFFICES ASSUME Typed, SoundInv, RoleInv, [Next]_vars PROVE RoleInv'
  OBVIOUS
<1>1. CASE UNCHANGED vars
  BY <1>1 DEF vars, roles, RoleInv, RoleKept
<1>2. CASE Reboot
  <2>1. \A q \in Procs : proc'[q].pc \in {"idle", "lock"} /\ proc'[q].cmd \in {None} \cup Gateways
    BY <1>2 DEF Reboot, Idle, Typed, TypeOK, DataOK
  <2>2. \A c \in {None} \cup Gateways : c \notin {"new", "clone", "rm"}
    BY MachineConstants DEF Gateways, Commands, RoleCmds
  <2> QED
    BY <1>2, <2>1, <2>2 DEF Reboot, roles, RoleInv, RoleKept
<1>3. ASSUME NEW p \in Procs, NEW c \in Commands, NEW u \in Users \cup {None}, Start(p, c, u)
      PROVE  RoleInv'
  <2>1. /\ Starts(p, c, u) /\ role' = role
        /\ kept' = IF c \in {"clone", "rm"} THEN None ELSE kept
    BY <1>3, OneStarts, Zenon DEF Start
  <2>2. \A q \in Procs \ {p} : proc'[q].cmd = proc[q].cmd /\ proc'[q].pc = proc[q].pc
                                 /\ (proc'[q].sound => proc[q].sound)
    BY <2>1 DEF Starts
  <2>3. proc'[p].cmd = c /\ proc'[p].pc \notin {"save", "write"}
    BY <2>1 DEF Starts
  <2> QED
    BY <2>1, <2>2, <2>3 DEF RoleInv, RoleKept
<1>4. ASSUME NEW p \in Procs, OwnStep(p) PROVE RoleInv'
  <2> DEFINE k == proc[p]
  <2>0. Moves(p) /\ k \in Process /\ proc \in [Procs -> Process]
    BY <1>4, OneMoves DEF Typed, TypeOK
  <2>1. CASE CreateRole(p)
    <3>1. UNCHANGED roles /\ k.cmd \in {"new", "clone"} /\ k.pc = "resolve"
      BY <2>1 DEF CreateRole, Running, At
    <3>2. CASE k.cmd = "new" /\ RoleTaken
      BY <2>0, <2>1, <3>1, <3>2, RoleUntouched DEF CreateRole, Exit
    <3>3. CASE ~(k.cmd = "new" /\ RoleTaken)
      <4>1. kept = None
        BY <3>1, <3>3 DEF RoleInv, RoleKept, RoleTaken
      <4>2. proc'[p].pc = "save"
        BY <2>0, <2>1, <3>3 DEF CreateRole, Goto, Process
      <4> QED
        BY <2>0, <3>1, <4>1, <4>2 DEF RoleInv, RoleKept, Moves, roles
    <3> QED
      BY <3>2, <3>3
  <2>2. CASE SaveRole(p) /\ At(p, "save")
    <3>1. role' = Torn /\ kept' = kept /\ k.cmd \in {"new", "clone"} /\ k.pc = "save"
      BY <2>2 DEF SaveRole, At
    <3>2. kept = None
      BY <3>1 DEF RoleInv
    <3> QED
      BY <2>0, <3>1, <3>2 DEF RoleInv, RoleKept, Moves
  <2>3. CASE SaveRole(p) /\ At(p, "write")
    <3>1. /\ role' \in Overwritten(role, Modules(p)) /\ proc'[p] = Idle
          /\ kept' = IF k.sound THEN Modules(p) ELSE None
          /\ k.cmd \in {"new", "clone"} /\ k.pc = "write"
      BY <2>0, <2>3 DEF SaveRole, At, Exit
    <3>2. CASE k.sound
      <4>1. role' = Modules(p)
        BY <3>1, <3>2, MachineConstants DEF RoleInv, Overwritten
      <4>2. \A q \in Procs \ {p} : proc[q].pc # "idle" => proc[q].cmd \notin RoleCmds
        BY <3>1, <3>2, NoOther DEF RoleCmds
      <4> QED
        BY <2>0, <3>1, <3>2, <4>1, <4>2 DEF RoleInv, RoleKept, Moves, Idle, RoleCmds
    <3>3. CASE ~k.sound
      <4>1. \A q \in Procs \ {p} :
              proc[q].pc # "idle" /\ proc[q].cmd \in RoleCmds => ~proc[q].sound
        BY <3>1, NoOther DEF RoleCmds
      <4> QED
        BY <2>0, <3>1, <3>3, <4>1 DEF RoleInv, RoleKept, Moves, Idle, RoleCmds
    <3> QED
      BY <3>2, <3>3
  <2>4. CASE RemoveRole(p)
    <3>1. kept' = kept /\ k.cmd = "rm" /\ k.pc = "resolve" /\ proc'[p] = Idle
      BY <2>0, <2>4 DEF RemoveRole, Running, At, Exit
    <3>2. kept = None
      BY <3>1 DEF RoleInv
    <3>3. \A q \in Procs \ {p} :
            proc[q].pc # "idle" /\ proc[q].cmd \in RoleCmds => ~proc[q].sound
      BY <3>1, NoOther DEF RoleCmds
    <3> QED
      BY <2>0, <3>1, <3>2, <3>3 DEF RoleInv, RoleKept, Moves, Idle, RoleCmds
  <2>5. CASE Acquire(p)
    <3>2. proc'[p] = Idle \/ proc'[p].pc \in {"resolve", "config"}
      BY <2>5, AcquireMoves
    <3>3. UNCHANGED roles
      BY <2>5 DEF Acquire
    <3> QED
      BY <2>0, <3>2, <3>3, RoleUntouched
  <2>6. CASE Register(p)
    <3>1. UNCHANGED <<roles, proc>> 
      BY <2>6 DEF Register
    <3> QED
      BY <3>1 DEF RoleInv, RoleKept, roles
  <2>7. CASE SaveSession(p)
    <3>1. k.cmd \notin {"new", "clone"} /\ UNCHANGED roles
      BY <2>7 DEF SaveSession
    <3> QED
      BY <2>0, <3>1, RoleUntouched
  <2>8. CASE \/ LoginAnswer(p) \/ BindCall(p) \/ BindAnswer(p) \/ Clear(p) \/ ReadEnabled(p)
             \/ SetEnabled(p) \/ SetSecret(p) \/ SetAutostart(p)
    <3>1. k.cmd \notin {"new", "clone"} /\ UNCHANGED roles
      BY <2>8 DEF LoginAnswer, BindCall, BindAnswer, Clear, ReadEnabled, SetEnabled, SetSecret,
         SetAutostart, Running, At, Typed, ProcOK
    <3> QED
      BY <2>0, <3>1, RoleUntouched
  <2>9. CASE Killed(p) \/ Disable(p) \/ ResolveRole(p) \/ FindKey(p) \/ MakeKey(p) \/ WriteKey(p)
    <3>1. UNCHANGED roles
      BY <2>9 DEF Killed, Disable, ResolveRole, FindKey, MakeKey, WriteKey
    <3>2. proc'[p] = Idle \/ proc'[p].pc \in {"config", "makeKey", "writeKey", "open"}
      <4>1. CASE Killed(p) \/ Disable(p)
        BY <2>0, <4>1 DEF Killed, Disable, Gone, Exit
      <4>2. CASE ResolveRole(p)
        BY <2>0, <4>2 DEF ResolveRole, Gone, Exit, Goto, Process
      <4>3. CASE FindKey(p) \/ MakeKey(p) \/ WriteKey(p)
        BY <2>0, <4>3 DEF FindKey, MakeKey, WriteKey, Goto, Process
      <4> QED
        BY <2>9, <4>1, <4>2, <4>3
    <3> QED
      BY <2>0, <3>1, <3>2, RoleUntouched
  <2> QED
    BY <1>4, <2>1, <2>2, <2>3, <2>4, <2>5, <2>6, <2>7, <2>8, <2>9 DEF OwnStep, SaveRole
<1> QED
  BY <1>1, <1>2, <1>3, <1>4, NextSteps

\* A role made by a command that met no other keeps its modules until a clone or rm
THEOREM RolesAreKept == Spec => []RoleKept
<1>1. Init => SoundInv /\ RoleInv
  BY DEF Init, SoundInv, RoleInv, RoleKept, Idle
<1>2. RoleInv => RoleKept
  BY DEF RoleInv
<1> QED
  BY <1>1, <1>2, InitTyped, NextTyped, NextSound, NextRole, PTL DEF Spec
==============================================================================
