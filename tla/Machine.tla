-------------------------------- MODULE Machine --------------------------------
(***************************************************************************)
(* One machine, one data directory: the gateways and the commands (config, *)
(* account, role) that users start beside them are processes of their own, *)
(* which meet in files.  cli/src/main.rs starts them; runtime holds the    *)
(* lock of the single instance and the roles, config the vault and the     *)
(* settings, coord-client the account.                                     *)
(*                                                                         *)
(* fs::write truncates and then writes, in two steps; a process can be     *)
(* killed between any two steps.  The settings are a database: each of its *)
(* statements is one step.                                                 *)
(***************************************************************************)
EXTENDS Naturals, FiniteSets

CONSTANTS Procs,      \* processes that run at the same time
          Users,      \* accounts at the account server
          MaxStarts,  \* bound: processes started
          None,
          Torn        \* a file that was truncated or mixed up

VARIABLES windows,   \* the platform: a named mutex, or a file, is the lock
          locks,     \* the locks that exist
          unheld,    \* ghost: names of locks that refused a start and had no holder
          keyfile,   \* vault.key; 0: empty
          secret,    \* the last secret setting
          enabled,   \* the setting account.enabled
          account,   \* account.json
          device,    \* device.json
          bound,     \* the device that the account server knows of an account
          role,      \* roles/<id>/role.json of one user role
          kept,      \* ghost: what a role command that ran alone has left
          out,       \* ghost: a logout or disable went through, no login since
          shown,     \* ghost: the account whose bind was saved by a command that ran
                     \* alone, since when only its logins have come
          boot,      \* the gateway that the system starts, if any
          proc,      \* the processes
          starts     \* processes started so far

locking == <<windows, locks, unheld>>
config == <<keyfile, secret>>
accounts == <<enabled, account, device, bound, out, shown>>
roles == <<role, kept>>
vars == <<locking, config, accounts, roles, boot, proc, starts>>

Gateways == {"server", "client", "custom"}

AccountCmds == {"enable", "disable", "login", "bind", "logout"}

RoleCmds == {"new", "clone", "rm"}

Commands == Gateways \cup AccountCmds \cup RoleCmds \cup {"set", "autostart"}

\* Two commands of one family write the same files
Family(c) ==
    CASE c \in AccountCmds -> "account"
      [] c \in RoleCmds -> "role"
      [] OTHER -> "none"

\* A custom role runs the leader
Lock(c) == IF c = "client" THEN "aipowergateway-client" ELSE "aipowergateway"

\* A file in the temporary directory; on Windows a mutex of all sessions, or of the
\* session of the user that starts the gateway (one here)
Locks == [name : {Lock(c) : c \in Gateways}, space : {"file", "Global", "Local"}]

\* Devices and keys have the number of the process that made them; device 0 is of
\* a gateway that ran before
Devices == 0..MaxStarts

Sessions == [user : Users, bound : BOOLEAN, share : Devices \cup {None}]

\* A process. pc: "open" is a gateway that runs, or a command with its settings open.
\* lock: the one it has made. sound: no other command of its family has run beside
\* it, and it has failed at nothing
Process == [cmd : Commands \cup {None},
            pc : {"idle", "lock", "resolve", "config", "makeKey", "writeKey",
                  "open", "set", "disable", "wait", "save", "write"},
            lock : Locks \cup {None}, id : 0..MaxStarts, sound : BOOLEAN, key : 0..MaxStarts, sure : BOOLEAN,
            user : Users \cup {None}, session : Sessions \cup {None}]

\* The placeholders are nothing else
ASSUME MachineConstants ==
    /\ MaxStarts \in Nat
    /\ Torn # None
    /\ None \notin Users
    /\ \A x \in {None, Torn} : x \notin Devices /\ x \notin Sessions
    /\ None \notin Locks
    /\ \A x \in {None, Torn} : x \notin Commands /\ x \notin {"empty", "full"}

Idle == [cmd |-> None, pc |-> "idle", lock |-> None, id |-> 0, sound |-> TRUE, key |-> 0,
         sure |-> FALSE, user |-> None, session |-> None]

\* What is stored, and counted
DataOK ==
    /\ windows \in BOOLEAN
    /\ locks \subseteq Locks
    /\ unheld \subseteq {Lock(c) : c \in Gateways}
    /\ keyfile \in 0..MaxStarts \cup {None}
    /\ secret \in [key : 0..MaxStarts, sure : BOOLEAN] \cup {None}
    /\ enabled \in BOOLEAN
    /\ account \in Sessions \cup {None, Torn}
    /\ device \in Devices \cup {None, Torn}
    /\ bound \in [Users -> Devices \cup {None}]
    /\ {role, kept} \subseteq {None, Torn, "empty", "full"}
    /\ boot \in Gateways \cup {None}
    /\ out \in {"no", "loggedOut", "disabled"}
    /\ shown \in Users \cup {None}
    /\ starts \in 0..MaxStarts

TypeOK == DataOK /\ proc \in [Procs -> Process]

Init ==
    /\ windows \in BOOLEAN
    /\ locks = {}
    /\ unheld = {}
    /\ keyfile = None
    /\ secret = None
    /\ enabled = FALSE
    /\ account = None
    /\ device \in {None, 0}
    /\ bound = [u \in Users |-> None]
    /\ role = None
    /\ kept = None
    /\ out = "no"
    /\ shown = None
    /\ boot = None
    /\ proc = [p \in Procs |-> Idle]
    /\ starts = 0

(***************************************************************************)
(* Processes                                                               *)
(***************************************************************************)
At(p, pc) == proc[p].pc = pc

Goto(p, pc) == proc' = [proc EXCEPT ![p].pc = pc]

Exit(p) == proc' = [proc EXCEPT ![p] = Idle]

Running(p, cmds, pc) == proc[p].cmd \in cmds /\ At(p, pc)

Start(p, c, u) ==
    /\ At(p, "idle") /\ starts < MaxStarts
    /\ u # None <=> c = "login"
    /\ starts' = starts + 1
    /\ LET others == {q \in Procs : ~At(q, "idle") /\ Family(proc[q].cmd) = Family(c)}
           pc == CASE c \in Gateways -> "lock"
                   [] c \in RoleCmds -> "resolve"
                   [] c = "autostart" -> "open"
                   [] OTHER -> "config"
       IN  proc' = [q \in Procs |->
             IF q = p
             THEN [Idle EXCEPT !.cmd = c, !.pc = pc, !.id = starts + 1,
                               !.sound = others = {}, !.user = u]
             ELSE [proc[q] EXCEPT !.sound = @ /\ q \notin others]]
    /\ kept' = IF c \in {"clone", "rm"} THEN None ELSE kept
    /\ out' = IF c = "login" \/ (c = "enable" /\ out = "disabled") THEN "no" ELSE out
    /\ shown' = IF c \in AccountCmds \ {"enable"} /\ ~(c = "login" /\ u = shown) THEN None ELSE shown
    /\ UNCHANGED <<locking, config, enabled, account, device, bound, role, boot>>

\* What the system starts: a gateway, with the arguments it was enabled with
AutoLaunch == Gateways \cup {None}

Holder(p) == proc[p].lock # None

\* The end of a process that is killed, exits by itself or with an error:
\* process::exit runs no destructor, so a lock that is a file stays, while the
\* kernel closes a mutex.  A server returns only with an error
Gone(p) ==
    /\ Exit(p)
    /\ locks' = IF windows THEN locks \ {proc[p].lock} ELSE locks
    /\ UNCHANGED <<windows, unheld>>

Killed(p) ==
    /\ ~At(p, "idle")
    /\ Gone(p)
    /\ UNCHANGED <<config, accounts, roles, boot, starts>>

\* autostart enable, with the role it was called with, or disable
SetAutostart(p) ==
    /\ Running(p, {"autostart"}, "open")
    /\ boot' \in AutoLaunch
    /\ Exit(p)
    /\ UNCHANGED <<locking, config, accounts, roles, starts>>

\* The system restarts, and starts the gateway it was told to: the kernel's
\* mutexes are gone, the temporary directory may be emptied or not
Reboot ==
    /\ boot # None /\ starts < MaxStarts
    /\ locks' \in IF windows THEN {{}} ELSE {{}, locks}
    /\ \E p \in Procs :
         proc' = [q \in Procs |->
           IF q = p THEN [Idle EXCEPT !.cmd = boot, !.pc = "lock", !.id = starts + 1] ELSE Idle]
    /\ starts' = starts + 1
    /\ UNCHANGED <<windows, unheld, config, accounts, roles, boot>>

(***************************************************************************)
(* A gateway                                                               *)
(***************************************************************************)
\* On Windows the global mutex goes first; who is denied access to it, because
\* somebody else has made it or for any reason, goes on with the one of the session
Tried(p) ==
    LET space == IF windows THEN {"Global", "Local"} ELSE {"file"}
    IN  {l \in Locks : l.name = Lock(proc[p].cmd) /\ l.space \in space}

Take(p, l) ==
    /\ l \notin locks
    /\ locks' = locks \cup {l}
    /\ proc' = [proc EXCEPT ![p].lock = l,
                            ![p].pc = IF proc[p].cmd = "custom" THEN "resolve" ELSE "config"]
    /\ UNCHANGED unheld

Refused(p, l) ==
    /\ l \in locks
    /\ unheld' = IF \E q \in Procs : proc[q].lock = l THEN unheld ELSE unheld \cup {l.name}
    /\ Exit(p)

\* Mutant: the guard is made before the file is, and dropped with the refusal
AcquireAndDrop(p) ==
    /\ At(p, "lock")
    /\ \E l \in Tried(p) : \/ Take(p, l)
                           \/ Refused(p, l) /\ locks' = locks \ {l}
    /\ UNCHANGED <<windows, config, accounts, roles, boot, starts>>

\* Any other error refuses too
Acquire(p) ==
    /\ At(p, "lock")
    /\ \/ \E l \in Tried(p) : \/ Take(p, l)
                              \/ Refused(p, l) /\ UNCHANGED locks
       \/ Exit(p) /\ UNCHANGED <<locks, unheld>>
    /\ UNCHANGED <<windows, config, accounts, roles, boot, starts>>

\* A role that is not found or broken has no modules
EnabledModules == role = "full"

ResolveRole(p) ==
    /\ Running(p, {"custom"}, "resolve")
    /\ IF EnabledModules THEN Goto(p, "config") /\ UNCHANGED locking ELSE Gone(p)
    /\ UNCHANGED <<config, accounts, roles, boot, starts>>

Leads(p) == Running(p, {"server", "custom"}, "open")

\* Mutant: the leader writes the session it has assembled back, with its device
RegisterBound(p) ==
    /\ Leads(p) /\ device # proc[p].id
    /\ device' = proc[p].id
    /\ account' \in {[user |-> u, bound |-> bound[u] # None, share |-> proc[p].id] : u \in Users}
    /\ UNCHANGED <<locking, config, enabled, bound, out, shown, roles, proc, boot, starts>>

\* The leader stores the device that the coordination server has registered
Register(p) ==
    /\ Leads(p) /\ device # proc[p].id
    /\ device' \in {Torn, proc[p].id}
    /\ UNCHANGED <<locking, config, enabled, account, bound, out, shown, roles, proc, boot, starts>>

(***************************************************************************)
(* The vault and the settings                                              *)
(***************************************************************************)
Making == {q \in Procs : proc[q].pc \in {"makeKey", "writeKey"}}

\* Whoever reads the key now reads the one that all later processes read
Settled == keyfile \notin {None, 0} /\ Making = {}

\* Mutant: a key of its own for every process
FindKeyNever(p) ==
    /\ At(p, "config")
    /\ Goto(p, "makeKey")
    /\ UNCHANGED <<locking, config, accounts, roles, boot, starts>>

FindKey(p) ==
    /\ At(p, "config")
    /\ IF keyfile = None
       THEN Goto(p, "makeKey")
       ELSE proc' = [proc EXCEPT ![p].pc = "open", ![p].key = keyfile, ![p].sure = Settled]
    /\ UNCHANGED <<locking, config, accounts, roles, boot, starts>>

\* A key that cannot be written is used all the same
MakeKey(p) ==
    /\ At(p, "makeKey")
    /\ \/ keyfile' = 0 /\ Goto(p, "writeKey")
       \/ /\ UNCHANGED keyfile
          /\ proc' = [proc EXCEPT ![p].pc = "open", ![p].key = proc[p].id]
    /\ UNCHANGED <<locking, secret, accounts, roles, boot, starts>>

WriteKey(p) ==
    /\ At(p, "writeKey")
    /\ keyfile' \in {keyfile, proc[p].id}
    /\ proc' = [proc EXCEPT ![p].pc = "open", ![p].key = proc[p].id,
                            ![p].sure = keyfile' = proc[p].id /\ Making = {p}]
    /\ UNCHANGED <<locking, secret, accounts, roles, boot, starts>>

Encrypted(p) == [key |-> proc[p].key, sure |-> proc[p].sure]

\* By the processes that start from now on; with another key it is read as empty
Readable(s) == keyfile = s.key

SetSecret(p) ==
    /\ Running(p, {"set"}, "open")
    /\ secret' = Encrypted(p)
    /\ Exit(p)
    /\ UNCHANGED <<locking, keyfile, accounts, roles, boot, starts>>

(***************************************************************************)
(* The account                                                             *)
(***************************************************************************)
\* Whether the plugin is enabled is read once, and it is set only if it was not
EnabledOn(p) == IF proc[p].cmd = "login" THEN Goto(p, "wait") ELSE Exit(p)

ReadEnabled(p) ==
    /\ Running(p, {"enable", "login"}, "open")
    /\ IF enabled THEN EnabledOn(p) ELSE Goto(p, "set")
    /\ UNCHANGED <<locking, config, accounts, roles, boot, starts>>

\* An error is not looked at
SetEnabled(p) ==
    /\ At(p, "set")
    /\ enabled' \in {enabled, TRUE}
    /\ EnabledOn(p)
    /\ UNCHANGED <<locking, config, account, device, bound, out, shown, roles, boot, starts>>

\* A file that cannot be removed ends logout with an error; disable goes on
Clear(p) ==
    /\ Running(p, {"logout", "disable"}, "open")
    /\ account' \in {account, None}
    /\ LET sound == proc[p].sound /\ account' = None IN
       IF proc[p].cmd = "disable"
       THEN proc' = [proc EXCEPT ![p].pc = "disable", ![p].sound = sound] /\ UNCHANGED out
       ELSE Exit(p) /\ out' = IF sound /\ out = "no" THEN "loggedOut" ELSE out
    /\ UNCHANGED <<locking, config, enabled, device, bound, shown, roles, boot, starts>>

\* disable answers the same whether or not its two steps have failed
Disable(p) ==
    /\ At(p, "disable")
    /\ enabled' \in {enabled, FALSE}
    /\ out' = IF proc[p].sound /\ ~enabled' THEN "disabled" ELSE out
    /\ Exit(p)
    /\ UNCHANGED <<locking, config, account, device, bound, shown, roles, boot, starts>>

\* A file that is missing or cannot be parsed is no session
Loaded == IF account \in {None, Torn} THEN None ELSE account

\* What the account server answers a login
DeviceBound(u) == bound[u] # None

\* The session that is there is changed, so it keeps its share
LoginAnswer(p) ==
    /\ Running(p, {"login"}, "wait")
    /\ proc' = [proc EXCEPT ![p].pc = "save",
                 ![p].session = [user |-> proc[p].user, bound |-> DeviceBound(proc[p].user),
                                 share |-> IF Loaded = None THEN None ELSE Loaded.share]]
    /\ UNCHANGED <<locking, config, accounts, roles, boot, starts>>

Registered == device \notin {None, Torn}

\* Without a session, or without a device, it ends; else both are kept over the call
BindCall(p) ==
    /\ Running(p, {"bind"}, "open")
    /\ IF Loaded = None \/ ~Registered
       THEN Exit(p)
       ELSE proc' = [proc EXCEPT ![p].pc = "wait",
                                 ![p].session = [Loaded EXCEPT !.share = device]]
    /\ UNCHANGED <<locking, config, accounts, roles, boot, starts>>

\* Mutant: the device is read again when the account server has answered
BindOther(p) ==
    /\ Running(p, {"bind"}, "wait") /\ Registered
    /\ bound' = [bound EXCEPT ![proc[p].session.user] = proc[p].session.share]
    /\ proc' = [proc EXCEPT ![p].pc = "save", ![p].session.bound = TRUE, ![p].session.share = device]
    /\ UNCHANGED <<locking, config, enabled, account, device, out, shown, roles, boot, starts>>

\* The answer may be lost on its way, and the process ends with an error
BindAnswer(p) ==
    /\ Running(p, {"bind"}, "wait")
    /\ bound' = [bound EXCEPT ![proc[p].session.user] = proc[p].session.share]
    /\ \/ proc' = [proc EXCEPT ![p].pc = "save", ![p].session.bound = TRUE]
       \/ Exit(p)
    /\ UNCHANGED <<locking, config, enabled, account, device, out, shown, roles, boot, starts>>

\* fs::write of content over a file: a file that another process has written or
\* removed since it was truncated is mixed up, or stays away
Overwritten(file, content) ==
    CASE file = None -> {None}
      [] file = Torn -> {content}
      [] OTHER -> {content, Torn}

SaveSession(p) ==
    /\ proc[p].cmd \in {"login", "bind"}
    /\ \/ At(p, "save") /\ account' = Torn /\ Goto(p, "write") /\ UNCHANGED shown
       \/ /\ At(p, "write") /\ account' \in Overwritten(account, proc[p].session) /\ Exit(p)
          /\ shown' = IF proc[p].cmd = "bind" /\ proc[p].sound THEN proc[p].session.user ELSE shown
    /\ UNCHANGED <<locking, config, enabled, device, bound, out, roles, boot, starts>>

(***************************************************************************)
(* Roles                                                                   *)
(***************************************************************************)
RoleTaken == role # None

\* What new and clone save: no module, or those of the source, which is built in
Modules(p) == IF proc[p].cmd = "new" THEN "empty" ELSE "full"

\* Mutant: new does not look for a role of that name
CreateAnyway(p) ==
    /\ Running(p, {"new", "clone"}, "resolve")
    /\ Goto(p, "save")
    /\ UNCHANGED <<locking, config, accounts, roles, boot, starts>>

\* clone replaces a role that is there, new does not
CreateRole(p) ==
    /\ Running(p, {"new", "clone"}, "resolve")
    /\ IF proc[p].cmd = "new" /\ RoleTaken
       THEN Exit(p)
       ELSE Goto(p, "save")
    /\ UNCHANGED <<locking, config, accounts, roles, boot, starts>>

SaveRole(p) ==
    /\ proc[p].cmd \in {"new", "clone"}
    /\ \/ At(p, "save") /\ role' = Torn /\ Goto(p, "write") /\ UNCHANGED kept
       \/ /\ At(p, "write")
          /\ role' \in Overwritten(role, Modules(p))
          /\ kept' = IF proc[p].sound THEN Modules(p) ELSE None
          /\ Exit(p)
    /\ UNCHANGED <<locking, config, accounts, boot, starts>>

RemoveRole(p) ==
    /\ Running(p, {"rm"}, "resolve")
    /\ role' \in {role, None}
    /\ Exit(p)
    /\ UNCHANGED <<locking, config, accounts, kept, boot, starts>>

Next ==
  \/ Reboot
  \/ \E p \in Procs :
      \/ \E c \in Commands, u \in Users \cup {None} : Start(p, c, u)
      \/ Killed(p) \/ SetAutostart(p)
      \/ Acquire(p) \/ ResolveRole(p) \/ Register(p)
      \/ FindKey(p) \/ MakeKey(p) \/ WriteKey(p) \/ SetSecret(p)
      \/ ReadEnabled(p) \/ SetEnabled(p) \/ Clear(p) \/ Disable(p)
      \/ LoginAnswer(p) \/ BindCall(p) \/ BindAnswer(p) \/ SaveSession(p)
      \/ CreateRole(p) \/ SaveRole(p) \/ RemoveRole(p)

Spec == Init /\ [][Next]_vars

(***************************************************************************)
(* Properties                                                              *)
(***************************************************************************)
\* single_instance.rs 16-66, main.rs 142-152: of the leader, whatever its role, and
\* of the member never two gateways are past their lock where it is a file.  On
\* Windows there may be two, one that has the global mutex and one that was denied
\* access to it and has the mutex of its session; never two with the same.
OneGatewayPerLock ==
    \A p, q \in Procs :
        Holder(p) /\ Holder(q) /\ p # q /\ Lock(proc[p].cmd) = Lock(proc[q].cmd)
        => windows /\ proc[p].lock.space # proc[q].lock.space

\* vault.rs 17-33, store.rs 92-115: a secret set by a process that opened the
\* settings while vault.key was whole and nobody was making one can be read by
\* every process started later; the race of two first starts is the exception
SecretsReadable ==
    secret # None /\ secret.sure => Readable(secret)

\* main.rs 898-904, 979-991: after a logout or disable during which no other account
\* command ran there is no session, and after disable the plugin stays off, until a
\* later login (or enable).  This holds when the file could be removed and the setting
\* be written: disable ignores these errors, and says it has logged out all the same.
LogoutHolds ==
    /\ out # "no" => account = None
    /\ out = "disabled" => ~enabled

\* main.rs 928-977, account_plugin.rs 26-29: a session that says the device is bound
\* is of an account that has one bound at the account server, whichever logins and
\* binds overlap and whatever is lost or torn.  And the share id it shows is of the
\* device bound there, once a bind that no other account command met was saved, over
\* later logins of that account and whatever device a leader registers beside it.
BoundIsBound ==
    account \in Sessions =>
        /\ account.bound => DeviceBound(account.user)
        /\ shown # None =>
             account.user = shown /\ account.share \in {None, bound[shown]}

\* roles.rs 141-192: a role that a command has created alone keeps its modules
\* until a later clone or rm: new never touches a role that is there
RoleKept ==
    kept # None => role = kept

\* Stated by README.md 248, a second launch prints "already running" and exits, and
\* by single_instance.rs 63: a lock that exists is of a gateway that runs
RefusedMeansRunning ==
    unheld = {}
================================================================================
