# TLA+ models of aipowergateway

aipowergateway lets the machines of a LAN share the language-model accounts of one machine. The
machine that shares is the *leader*: it holds the provider keys, answers an OpenAI- and an
Anthropic-compatible API, and meters its members. A *member* finds a leader by broadcast (or through a
coordination service and a punched NAT tunnel), trades its machine name for a key, and sends its
requests there. This directory holds TLA+ models of the leader's core, of the member's gateway and
the tunnel between them, and of the processes that share one data directory; TLC configurations that
check them; and machine-checked proofs about all of the modelled components: every safety property of
a passing run is a theorem too.

    tlc -workers 2 -config AuthCalls.cfg MCAuth.tla        # and so on, one .cfg per run
    tlapm AuthProofs.tla                                   # and the other *Proofs.tla

The runs are listed with their properties in `PROJECT.json`, together with the source lines every
definition stands for and, per property, a mutant of the model that breaks it.

## 1. Inventory

Paths are relative to `src/crates/`. "Hard" names what is difficult to get right and to test; "Module"
is where the component is modelled, `-` if it is not (section 6).

| Component | State | Operations | Hard | Correct when | Module |
|---|---|---|---|---|---|
| **Authentication** `lan-share/src/auth.rs` | sessions, banned members, banned addresses (three `RwLock`s); `sessions.json`, `banned.json` | issue, rotate, verify, lookup, revoke, unban, load, save | operations take several locks in turn; files are truncated and written; the expiry at its last second | bans are obeyed and durable; a rotated key never returns; a key is stable and unique per machine | `Auth` |
| **Health polling** `lan-share/src/health.rs` | provider states, polling configurations, handle of the loop | ensure_running, loop, PUT polling, remove | the loop ends itself while others start it; a probe lasts seconds while its entry changes | a second loop only after starts that overlapped; everything enabled is polled; nothing runs when nothing is enabled | `Health` |
| **Back end store and registry** `backend_store.rs`, `registry.rs` | list of entries, `backends.yaml` and its temporary file, registry | save, delete, hot replacement, write-back of fetched models, route, catalog | overlapping updates share a temporary file; two copies of the table; probes write back | store, file and registry agree; a crash keeps a table | `Backends`, `Routing` |
| **Request path** `api.rs`, `quota.rs`, `usage.rs` | sharing switch, usage, quotas; `usage.json`, `quota.json` | chat completions, messages, set quota, pause, resume | check and record are seconds apart; fallback; crash between two records | limits hold up to the requests under way; what was answered is metered; each request ends | `Proxy` |
| **Routing rules** `rules.rs` | rule sets, `model-rule-set.json` and its temporary file | resolve, save, list, load | order and boundary of token tiers; candidates are routed one by one while the tables change; the file is removed before the new one is in place | the smallest tier that fits comes first; no reachable candidate is passed over; a crash keeps a set of rules | `Routing` |
| **Load policy** `policy.rs` | key words, counters, switch | check, switch | - | text matching | - |
| **Providers** `backend.rs` | - | chat, probe, provider tables | time-outs | - | - |
| **Member roster** `member.rs` | names, addresses, last seen | upsert, rename, mark_offline, list | a rename lasts until the member's next call | - | `Member` |
| **Link encryption** `lan-share/src/link.rs`, `link-crypto`, `lan-client/src/gateway.rs` | policy, `link-encrypt.json`, the member's mode | encrypt, decrypt, change policy | the policy changes between the two halves of a request; the file is written before the memory | what must be encrypted is; what came sealed is answered sealed; an acknowledged enforce holds | `Gateway` |
| **Member gateway** `lan-client/src/gateway.rs` | static leader, mode, token | pick a leader, proxy | the static leader is read twice in one request, while a task sets it | a request goes to one leader, in the form that leader expects | `Gateway` |
| **Strategy mirror** `lan-client/src/strategy.rs`, `cli/src/main.rs` | mirror of policy and usage, its file | refresh, preflight, rotate | the token is rotated under a fetch; versions of two leaders or of a restarted one | the mirror converges to the leader's policy | `Member` |
| **Member client library** `lan-client/src/share_client.rs` | sessions shared by clones | connect, call, disconnect, mark_revoked, rename | a refusal that arrives after a reconnect | only a refused session is marked | `Member` |
| **Discovery** `broadcast.rs`, `lan-client/src/discovery.rs` | announcer task, table of leaders | start, stop, listen, expire | datagrams are lost; ages against a threshold | a silent leader is left | `Gateway` |
| **NAT traversal** `punch`, `p2p.rs` of both sides | sockets, candidates, certificate, tunnels | register, post, punch, handshake, bridge, forward | duplicated and late datagrams; messages of an earlier run; the certificate is two files; a set of tunnels that never shrinks | the fingerprint a member holds is served; a share id has one endpoint; everything ends | `Punch` |
| **Coordination client** `coord-client` | account and device sessions, `account.json`, `device.json` | login, register, bind, signal | answers that arrive after a logout | a logout holds; what is shown as bound is bound | `Machine`, `Punch` |
| **Roles** `runtime/src/roles.rs` | a directory per role | create, clone, remove, start | check and creation are two steps | a role stays as it was made | `Machine` |
| **Single instance lock** `runtime/src/single_instance.rs` | lock file, or a named mutex on Windows | acquire, Drop | a lock whose owner died; a mutex that is denied, and another tried | one gateway per lock (on Windows one per mutex); a refusal means one runs | `Machine` |
| **Configuration and vault** `config/src` | `vault.key`, encrypted secrets, SQLite rows | get, set | two processes make the key at once | a secret stays readable | `Machine` |
| **Command line, start with the system** `cli/src/main.rs` | autostart entry | all of the above, as processes | commands run beside gateways | - | `Machine`, `Punch`, `Member` |
| **Plugin runtime** `runtime/src` (`runtime`, `event`, `host`, `module`) | modules, listeners | boot, emit | - | - | - |
| **Tray, translations, data directory** | - | - | - | - | - |

Interactions. All handlers of a leader run concurrently on a multi-threaded runtime and share one
`ApiState` of `Arc`s; there is no queue and no transaction around several services. Each service
guards each table by a lock of its own, most operations take several locks one after the other, and
all files are written from under (or after) those locks with `std::fs::write`. A process may die
anywhere. A member's gateway runs a listener, a join task, a refresh loop and its handlers beside each
other; it calls the leader over HTTP, through the tunnel or not, and the coordination service for the
mailboxes. Processes of one machine meet in the files of its data directory. Hence the grain used
throughout: **one step is what one lock acquisition protects, one file-system call, or one await**,
every handler is a small program counter with its local variables, and a crash can come at every step.

## 2. Plan

Order is by how much depends on the part: who may call, whether the providers are alive, where a
request goes, what it costs; then the member's side, then the periphery. Done: `Auth` and
`KeyLifecycle`, `Health`, `Backends`, `Proxy`, `Routing` (the leader), `Gateway` (link, discovery,
the member's proxy), `Punch` (NAT traversal and mailboxes), `Member` (mirror, roster, client library),
`Machine` (lock, vault, accounts, roles), the abstract specifications `KeyLifecycle` and `AtomicTable`
with the refinements, and a theorem for every safety property of the runs.

Left:

1. The switch of the load policy (memory, then `fs::write`; on when the file cannot be read), which
   has the shape of the link policy in `Gateway`.
2. `Proxy` with `Resolve` and `Route` replaced by the operators of `Routing`.
3. Abstract specifications for the link policy (`Gateway`) and the rule sets (`Routing`) in the manner of
   `AtomicTable`: both are one value in memory and in a file, with the same window.

## 3. Modules

Every module declares its sizes as CONSTANTS with a named ASSUME; `MC*` modules give values that a
.cfg cannot write and the symmetry sets. An operator whose comment begins "Mutant:" is a variant of the
definition after it, with a bug somebody could well make; it is used nowhere in the specifications.
Variables marked "history" record what happened for the properties and influence no step.

### Auth (`lan-share/src/auth.rs`, `/auth/token` and `/api/control` of `api.rs`)
`sessions`, `banned`, `bannedIps` are the three tables; a session is its key, with owner and expiry
in `owner` and `expires`. `sessFile` and `banFile` are what `load` would make of the files: an
unreadable file is an empty one, as in the code. `call[c]` is the frame of a request: `AuthToken`
starts an issue, a rotation (`Retain`, then a save, then issue) or the `verify` of a proxied call;
issue is `Reuse`, `IpCheck`, `MemberCheck`, `Insert`, `SaveBegin`, `SaveEnd`; verify is `VerifyKey`,
`VerifyBan`. `ctl[a]` is the frame of a revoke or unban: two table changes, the two copies of `save`,
truncation and write of the file, and for a revoke a save of the sessions. `NoReader` is the read
guard that `save_sessions` holds while it writes. `Tick` moves the clock, `Restart` is a crash and
a start. Calls of the panel overlap as requests do: two saves of the black list can come in the
opposite order and leave a file that is behind memory. `apart` (history) says that this has not
happened, or that since then a call began with no other under way, or a restart; the two properties
of the black list speak of such times, and they must find it good again. Abstracted: display names;
random keys are never drawn twice; the roster and the sharing switch of the same handlers; writes succeed.

`KeyLifecycle` is what a machine may rely on: a key is born once with one owner and one expiry, keeps
both while it lives, and dies once. `Auth` implements it with `alive <- sessions \cup sessFile`.

### Health (`lan-share/src/health.rs`, PUT polling, save and delete of `api.rs`)
`configs` and `states` are the two tables, `handle` says whether the monitor holds a task handle,
`loop[l]` and `starter[s]` are the scheduling loops and the `ensure_running` tasks, each with its
locals; `put`, `erase` the handlers under way. A loop round is `Collect` (enabled ids), `ListEntries`,
then `NotDue` or `Probe`-`Answer`-`Recheck`-`Record` for each, `Sleep`; with nothing enabled it goes
to `Exit`, which clears the handle in a step of its own. `Observe` is the four-state machine of a
provider, `Flip` the back end going down and up. A delete whose save fails leaves state and
configuration alone (`DeleteBackend`). Time is abstracted: whether an entry is due is any
choice, which includes every choice a clock makes. The scan of all configurations is one step.
`crowded` (history) says that two `ensure_running` were both between their look at the handle and its
storing, or that a loop is left of such a meeting.

### Backends (`backend_store.rs`, `replace_all` of `registry.rs`, POST and DELETE of `api.rs`)
`store` and `routes` are the table and the entries the registry was built from, `file` and `tmp` are
`backends.yaml` and its temporary file, each a whole table, a partial text, or missing. A task runs
`Set` (`Merge`, `Upsert`) or `Delete`, then `Snapshot`, `Truncate`, `Fill`, `Remove`, `Rename`
(`BackendStore::save`, with `SaveFails` for a failing call), `List`, `Replace`
(`apply_backend_config`); after a set it goes on as the probe that was spawned: `ProbeEnds`, or
`Fetched`, `Check`, and a second `Upsert`. An open file follows renames (`fd`, `Moved`), as files do
on Unix, so overlapping saves can garble the file as they do on a disk. An entry is its key and its
list of models, of which three kinds are told apart: explicit, none, fetched. `AtomicTable` is the abstract
specification: a table that changes by one entry, what a start would load, and what requests are
routed by, which follow it in this order; a crash takes all three to what would be loaded. `Backends`
implements it with `table <- store`, `saved <- LoadEntries`, `served <- routes` and `phase <- Phase`, read
off the step of the task that updates. When two updates overlap or a save fails (`disturbed`) the phase
is "unknown", in which nothing is promised until an update has run alone.

### Proxy (`chat_completions`, `messages`, `/api/quota`, pause and resume of `api.rs`; `quota.rs`; `usage.rs`)
`usage` keeps for each member the total and the part metered by rule set; `call[c]` is the frame of a
request: `ReadUsed`, `CheckQuota`, `Blocked`, `Resolve`, `Route` / `NoRoute` / `GiveUp`, the await
(`ChatAnswers`, `ChatFails`, `HangUp`), then `Record`, a save, and for a rule `RecordRule` and
another save; the answer is sent at the end. What a rule resolves to is any of `Candidates`, and
whether a candidate is routed is any choice: the tables behind may change at any time. `Sent` is the
model name that leaves the leader. Abstracted: the text, the conversion between the two
protocols, streams (they are answered from a whole answer), models and providers in the usage record,
the roster, requests without a model name. A key has been verified: that is `Auth`.

### Routing (`rules.rs`; `registry.rs`; `chat_completions`, `messages` and POST `/api/rules` of `api.rs`)
`table` is the registry, as the sequence of entries it was built from; `removed` are the back ends that
health has taken out of service; `sets` are the rule sets in memory, `file` and `tmp` the two files.
`Place` is `route`: the entry registered last among those that have the model (`Serving`), else the
one whose provider has the model's prefix, else the only one there is; in each case none if it is
removed. `Resolve` is `resolve`: `Chosen` picks the rule, `Selected` sorts out the candidates, the
fallbacks follow. `call[c]` is the frame of a request: `Request` resolves once, then `Ask`, `Skip`,
`NotAvailable` and `GiveUp` go through the candidates, each looking at the table of its own time;
`ChatFails` and `ChatEnds` are the two ways an await ends. `Replace` and `Polling` stand for what
`Backends` and `Health` do in the meantime (`OneOutAtATime`, section 5, is what `Polling` assumes).
The specification is `RoutingSpec`, and its parts are named alike, so that one module can reason about
`Health` and `Routing`. `setter[s]` is the frame of POST `/api/rules`: write,
remove, rename, load, with the errors the code ignores. Abstracted: a degraded back end is routed as
one that is ok (the prefixes exclude each other, and a match by name does not look at the rank, so the
rank never decides); empty model names; the length of a text (`estimate_tokens`); the order of the
catalog; the body of a request, which `Proxy` follows.

### Gateway (`link.rs`, the link policy of `api.rs`, `broadcast.rs`; `gateway.rs` and `discovery.rs` of the member)
`leader[l]` is a leader's program (`up`, `announcing`, `policy`) and its `link-encrypt.json`;
`StartLeader` assembles the policy from the file, `StopLeader` is any end of it. `calls[<<l, n>>]` is
the frame of a policy call, from `LinkEncrypt` on: `Truncate`, `Write`, then `SetPolicy`, file before memory, with the error
paths; two calls may overlap and garble the file (`Overwrite`). `heard[l]` is the age of what the
listener last heard of a leader, counted in broadcast intervals (`Announce`, `Tick`); `PickLeader`
takes the static leader, or the one heard last, the least id among equals. A request of an app, or of
the strategy loop, is `Request`, `Pick` (reads the static leader), `Send` (reads it again, to decide
whether to encrypt), `Receive` (the middleware, which reads the policy once), `Reply` (the handler),
`Answer` or `Fail`; `SetStaticLeader` is the join task in between. A cipher is a body that only its key opens, and
both sides derive the key from the one token: `Opened` is what the member makes of an answer, an error
if it is sealed and the member holds no key.

### Punch (`punch`, `coord-client`'s mailboxes, `p2p.rs` of both sides, the join of `run_client`)
`member[m]` is a member's join task: `Start` (`Register`), `Resolve`, `Post`, `Pull`, `Probe`, `Hear`,
`Shake`, `Switch`, with its share id, the number of its start, the reply it found and the peer it heard.
`mail` and `inbox` are the mailboxes of members and leader at the coordination service: a push may be stored and its answer lost
(`SignalPush`), a pull may take the messages and lose them (`SignalPull`). `net` is the set of
datagrams under way; a socket is named by the join it belongs to (whose, which start of the program,
which share id), and a late answer of the STUN server is a datagram like any other. `leader` is the
leader's session: `LoadOrGenerate` and `WriteFiles` (certificate and key, two files, `files`; a write that
fails goes unnoticed, and the history `files.lost` says there was one), `LeaderPull`,
then for each message of the batch `SkipOrEnd` or `Answer`, `LeaderProbe` and `LeaderHear`; `ends` are
the endpoints it serves and `tcp` the streams bridged through them (`Accept`, `OpenBi`, `Bridge`,
`Unbridge`). `Stop`, `LoseConnection`, `LeaderCrash`, `Lose` and `Expire` are the faults. External
(modelled from its use): the coordination service and the network.

### Member (`strategy.rs`, `share_client.rs`, `gateway.rs` of the member; `member.rs`, `/api/strategy/me` of the leader)
`policy`, `token` and `roster` are what the leader keeps of one machine, `Revoke`, `SetPolicy`,
`PanelRename`, `Silence` (ninety seconds) and `LeaderRestart` what happens to it. `fetch` is the
frame of the refresh loop: `FetchToken`, `FetchStrategy` (or `FetchFails`), `SetMirror`, `SaveMirror`,
with `mirror` and its file; `SetIfNewer` compares versions as the code does. `Preflight` decides an
app's call by the mirror, `Rotate` replaces the token under the loop. `cells` are the sessions of the
client library, shared by its copies (`clone`): `Connect` takes a fresh one (`ConnectLost`: the token is
issued, but its answer lost; a late answer is no case of its own, as `connect` has the client for itself
meanwhile), `Call`, `Handle` and
`Return` are a call whose refusal may arrive after a reconnect, `MarkRevoked` is the same mark set by
the program. `spent` counts what is bounded.

### Machine (`cli/src/main.rs`; `single_instance.rs`, `roles.rs`; `config`; `coord-client`'s sessions)
`proc[p]` is a process on the machine with a program counter: a gateway (`server`, `client`, or a
`custom` role) or a command on settings, account, roles or autostart. They share `locks`, `keyfile`
and `secret`
(`FindKey`, `MakeKey`, `WriteKey`, `SetSecret`: vault.key is looked for, made and written in three
steps), `account`, `device` and the account server's own `bound` (`ReadEnabled`,
`SetEnabled`, `LoginAnswer`, `BindCall`, `BindAnswer`, `Clear`, `Disable`,
`SaveSession`), `role` (`CreateRole`, `SaveRole`, `RemoveRole`) and the autostart entry (`boot`).
A lock is a file that only `Drop` removes or, on Windows (`windows`), a mutex that dies with its owner:
`Acquire` tries the `Global\` one and, when it is denied access to it, the `Local\` one of the session,
so that two gateways of one name can run there; any other error refuses the start. Writes and removals
whose result the code ignores may fail without a word (`Clear` and `Disable` of `account disable`,
`SetEnabled`). `Killed` and `Reboot` come at any step. `unheld`, `kept`, `out` and `shown` are histories
for the properties: names whose lock refused a start though nobody held it; what the last role command
left; whether a logout holds; the account whose binding was saved. `sound` and `sure` in a process say
that it overlapped with none of its family and failed at nothing, and that it read a settled key.
External: the account server. Abstracted: one secret setting and one user role stand for all of them.

## 4. Runs

| Run | Bounds | Shows |
|---|---|---|
| `auth_calls` | 1 machine, 1 address, 2 keys, 2 requests beside 1 call of the panel or 2 calls of the panel, clock 0..1, TTL 1 | bans obeyed and durable, rotated keys dead, keys durable, refinement of `KeyLifecycle` |
| `health_polling` | 2 back ends, an executor that the panel saves and deletes and that fails and recovers, beside one that stays; 1 loop, 1 starter, 1 PUT, thresholds 1/1 | the loop polls what is enabled, whatever happens to the other back end; removed back ends recover; idle costs nothing |
| `backend_table` | 1 id, 1 key, 2 tasks | store, file and registry agree after an update that ran alone; never half written; a crash keeps a table; refinement of `AtomicTable` |
| `proxy_requests` | 1 member, 2 requests, 1 administrator, limits 0 and 1, answers of 0 or 1 units, usage below 2 before a request | the overshoot of a limit is bounded; metering is durable and consistent; requests end |
| `proxy_rules` (violation) | 1 request | `CandidateIsSent` fails: the provider is asked for a model of the rule set's name, against rules.rs:4-5 |
| `routing_table` | 1 request, 1 administrator, 2 back ends, 5 tables, 2 files of rule sets, prompts of 1 to 3 tokens, tiers of 1, 2 and no limit | no model goes where it is not (`RouteIsSound`); tiers are in order (`TiersInOrder`); no reachable candidate is passed over (`CandidatesTried`); a crash keeps the rule sets (`CrashKeepsRules`) |
| `gateway_link` | 1 leader of the LAN, 1 behind a deep link, 1 request, modes off and enforce, threshold 1, 2 policy calls, 1 crash | what must be encrypted is; what was opened is answered sealed, and to nobody without the key; an acknowledged enforce holds; a silent leader is left |
| `punch_join` | 1 member not on the leader's network, 2 runs, 1 crash of the leader, 2 datagrams under way | fingerprints hold, until a write of their files fails; one endpoint per share id; everything ends |
| `punch_late_stun` (violation) | 1 run | `PunchReturnsPeer` fails, against punch.rs:125: a punch that succeeded returned the address of the STUN server, not of the peer |
| `member_mirror` | 2 copies of the client library, 2 sessions, 2 tokens, 2 events at the leader, usage up to 1 | the mirror converges; a late refusal marks no other session |
| `machine_files` | 2 processes at a time, 3 in all, 2 accounts, both kinds of platform | no two gateways share a lock; secrets stay readable; logouts hold; bindings are true, with the share id they show; roles stay |
| `machine_stale_lock` (violation) | the same, without the files | `RefusedMeansRunning` fails: a start is refused although no gateway runs |

Why the bounds are enough to be interesting. The races of the leader are between two actors on one
machine, key, back end or member, and tables of different keys do not interact; so one key and two
actors contain them, and a second machine or id would repeat them. Two keys let a rotation replace one
and a third adds nothing (with none left `Insert` waits). The clock with TTL 1 reaches the very second a
key expires, where `verify`, `issue` and `load` compare differently; that a TTL of 0 never expires is
not in the run, but in the theorems. The calls of `auth_calls` that may overlap are in `Together`: the
requests race with one call of the panel, and calls of the panel with each other. In `health_polling`
one back end is edited and fails while the loop owes the other one its turn; only liveness is checked
there, with one loop, and what overlapping starts can do is the theorem `OneLoop`. A limit of 1 with two
requests is overshot and then refuses. The tables of `routing_table` hold one model at one back end, at
both and at none, a lone back end and an empty table, and the prompts lie below, at and above a tier;
one request meets all of them as they are replaced. In `gateway_link` one request suffices since
requests share nothing but what they read, and it meets the join task and two overlapping policy calls
between any two of its steps. In `punch_join` the second run of a member meets the mail, the datagrams
and the tunnels the first left, and two certificates exist around a crash. Two copies with two sessions
let a refusal arrive after a reconnect; two events put a ban or a new limit before and during a fetch.
Two processes at a time are what the races on one file need, and the third in all starts on what they
left.

`Together`, `Edited`, `Unsteady`, `MaxTime`, `MaxFailures`, `MaxUsage`, `Starters`, `Loops`, `MaxCalls`,
`MaxCrash`, `MaxTry`, `MaxNet`, `MaxCells`, `MaxTokens`, `MaxEvents`, `MaxUsed` and `MaxStarts` are
bounds of the models, not of the code, and are named so where they are declared. The deadlock check is
off in four modules' runs that may really stop: `punch_join` and `punch_late_stun` (runs and crashes are
used up and everything has ended), `member_mirror` (a banned machine without a token is refused for
ever, and the events are used up) and the two of `Machine` (no starts are left). In the others it is on.

Type invariants are checked in `auth_calls` and `proxy_requests`; those of the other modules are
theorems (section 5), and are not repeated in the runs to keep the number of properties down.

Fairness. `Health`: tasks and handlers that were spawned go on (weak fairness: the runtime polls
every ready task, and all awaits are time-outs or sleeps), and an entry that comes up in round after
round is due at some time (strong fairness of `Probe`: its interval is finite and the clock moves).
Nobody has to send a request. `Proxy`: handlers go on, which includes that the provider answers or
the HTTP client's time-out (60 s, registry.rs:260 sets it) ends the call; and a writer
that waits for the usage lock gets it (strong fairness of `Record` and `RecordRule`), since the
standard library's lock lets no new reader pass a waiting writer. `Gateway`: the clock ticks, the
member's handler goes on, and a call that nobody answers fails (the client's time-out); a leader need
not announce, answer or live. `Punch`: the tasks of both sides go on and their time-outs expire
(3 s for STUN, the punching window, the wait for a reply, QUIC's idle time-out); no datagram need
arrive. `Member`: the refresh loop goes on (weak fairness), and a fetch that can succeed again and again
does at some time (strong fairness of `FetchStrategy`): losses may be many but not all. Safety
properties assume nothing.

What the violating runs mean. Each states what a comment or a document of the repository says and
shows a behaviour of the code that breaks it; `PROJECT.json`, "findings", quotes both. The passing
properties next to them say what does hold: `OneGatewayPerLock` although locks go stale,
`FingerprintHolds` although a punch may return the wrong peer (the handshake then fails).

Disagreements that were met while modelling and have no run of their own:

- two concurrent issues give one machine two keys (auth.rs:86 reads, 95 writes), and a banned machine
  that rotates loses its key for good (auth.rs:151);
- an answered PUT that enables polling may never have an effect, when the loop is just ending
  (health.rs:175); a saved executor is not polled until the next start, against README.zh-CN.md:56; a
  late probe writes a state back after a PUT switched polling off (health.rs:215);
- models that a probe fetched overwrite a list saved meanwhile, against README.md:65;
- a name given to a member, or chosen by it, lasts until its next call, against
  openspec's lan-server spec (lines 70-75);
- a role cloned to the id of a built-in role is stored and never seen (roles.rs:132-133);
- an account command that binds while another logs out may store the session after the logout; two
  first starts of a machine may each make a `vault.key`, and secrets of the loser are lost. The
  properties of `machine_files` speak of commands that ran alone for this reason;
- two `ensure_running` that overlap may start two loops (`AtMostOneLoop` excepts what such a meeting
  leaves, by `crowded`);
- two calls of the panel that overlap may leave a `banned.json` that is behind memory (two saves of the
  black list in opposite orders), so that a ban both answered can be gone after a restart: `BansDurable`
  and `AckedBanHoldsUntorn` except the time until a call that met no other; and a ban need not survive
  a crash that tears `banned.json`;
- two updates of the back ends that overlap may leave routes of the older table, or a file cut short, until
  the next update that runs alone (`disturbed`);
- on Windows two leaders of one machine may run, one of them without access to the other's mutex, against
  README.md:248;
- `account disable` answers that it has logged out although its two writes may have failed;
- after a write of `punch-cert.der` or `punch-key.der` that failed unnoticed, the leader serves another
  fingerprint after a restart, or a pair that does not fit, against quic.rs:36-37;
- with two administrators, or a failing write, `CrashKeepsRules` says nothing (`mixed`): POST
  `/api/rules` shares one temporary file and swallows all errors, so two overlapping saves that are
  both answered ok can leave no file at all;
- the catalog lists a model whose last registered back end is removed as long as another one in
  service has it, while `route` refuses it; `RouteIsSound` therefore claims its third part for models
  of one back end.

## 5. Proofs

A theorem holds for every value of the constants that the named ASSUME of its module admits; no other
assumption is made but where it is said.

`AuthProofs` proves, for any machines, addresses, keys, numbers of calls and administrators, clock
bound and TTL, from the assumption `ConstantsOK` alone (naturals; the placeholders are no members):

- `TypeCorrect`: `Spec => []TypeOK`.
- `BanIsObeyed`: `BannedNeverServed` and `BannedNeverGranted`. The two are not inductive: that a call
  under a ban stops at a check needs that the ban is still in the table then. `BanInv` adds
  `BarredStill` (the bans held since the call began are in the tables: unban and restart update the
  history) and `IpPassed` (a call past the first check was not barred by address).
- `RotationIsFinal`: `RetiredStaysDead`. `KeyInv` adds `SnapFresh` (a save under way writes what
  memory holds now, by the read guard), `DroppedGone` (what a rotation dropped was generated, and is
  not in memory) and `KeysKnown` (all keys that are anywhere were generated, so that a new key is none
  of them).
- `KeysSurvive`: `KeysDurable`, from the same invariant.
- `Refinement`: `Spec => KeysLiveOnce`, every step being a birth, a loss or a stutter of `KeyLifecycle`:
  a key lives once, and keeps its owner and its expiry.
- `GrantsAreBarred`: `BannedNeverGranted`, from `BanInv`.
- `OneKeyPerMachine`: as long as no two calls of `/auth/token` about one machine are under way at once
  (`CallsApart`, a premise about the behaviour, which the code does not enforce), no machine has two
  keys that have not expired. Without it two calls that both find no key insert one each; the theorem says
  that this gap, between the look for a key and the insertion, is the only one. `OneKeyInv` counts the keys of memory
  and file together (`OneLive`), says that a call past the look still has nothing to hand out
  (`NoneToReuse`), and that the file is ahead of memory only for the machine of a rotation that has yet
  to save (`DroppedOnly`): without the last, a restart could bring a second key.
- `BansSurvive` and `AnsweredBansHold`: `BansDurable` and `AckedBanHoldsUntorn`, for any number of
  calls of the panel that overlap in any way. `BanFileInv` follows the black list, while `apart` holds,
  through the copy that `save` makes and the file: no other call is under way (`OneCall`), what a save
  carries is what memory holds (`CopyOK`), the file it writes is empty until it does, or else says what
  memory says (`FileOK`), and a ban that was answered is in the file unless a crash has torn it
  (`AckedOK`). A call that starts while none is under way makes `apart` true without the file being
  right: it holds of the file again from the end of that call's save on.

`ProxyProofs` proves, for any members, names, numbers of requests and administrators, limits and size
of an answer, from `ProxyConstants` alone (finitely many requests, natural numbers, candidates are
non-empty sequences of names, the placeholder is neither member nor name):

- `ProxyTypes`: `Spec => []TypeOK`. `Typed` adds that a call that is not resolved yet names something,
  which `Resolve` puts into its candidates.
- `LimitsSurvive`: `QuotaDurable`, by `SavesCopy`: a save under way holds a copy of what is in memory,
  for the read guard keeps the table as it is until the write is done.
- `OvershootIsBounded`: `QuotaCap`. The property alone is not inductive. What is kept is the usage
  together with what is still to come: `Within` counts one answer for each admitted call (past the
  check, or about to pass it with the usage it has read), and says beside that the limit less one and
  an answer of every request are below the cap. A call that enters has read a usage below the limit, so
  the second part pays for it; a call that records uses up its own share; a new limit and a restart set
  the cap anew with room for all.
- `RulesAreAPart` and `AnswersAreMetered`: `RulePartOfTotal` and `AnsweredIsMetered`, by `MeterInv`: what a
  member has used by rule set and what calls under way have still to record so, taken together, is
  within the total, and so is what was answered with what is still to be answered; the file is a copy of
  a table of which both held, and a save under way carries the table of now (`SnapInv`). The sum over the
  calls is the number of pairs of a call and a unit of its share (`Sum`), which needs no recursion.

`RoutingProofs` holds the proofs about `Health` and about `Routing`, which stand side by side in it: the
two modules share no name. About `Health` it proves `HealthTypes` and `OneLoop`: `AtMostOneLoop`, for any
number of starters and loops. As long as the starts are not `crowded`, `LoopOK` says that no loop is
there while a starter looks or spawns, and that a loop that is there is known: by the handle, or to
the starter that is about to store it. So the window between the look at the handle and its storing,
two locks in the code, is the only way to a second loop, and once the loops of such a meeting have ended
the next start is clean. `AtMostOneLoop` is in no run: its states need two loops and two starters,
which the liveness run has no room for. `OneOutAtATime` is the bridge: a step of `Health` takes at most
one back end out of service or brings one back, and takes one out only by recording a failed probe that
fills its limit. That is what `Routing` assumes of polling.

About `Routing` it proves, for any tables, rule sets, prompts, clients and administrators (from
`RoutingConstants`: entries, rules and candidates of the right form, no id twice in a table):

- Of the operators: `ByLimitIsStableSort` (the rank of a candidate is the number of those before it; ranks
  tell candidates apart, so by counting every place is taken, and a lower place is an earlier candidate),
  `RuleChosen` (the precedence of the rules: for all names, for this name, by order), and lemmas on
  `Place`, `Latest` and `Resolve`.
- `RoutesAreSound` (`RouteIsSound`) and `TiersAreSorted` (`TiersInOrder`) follow from those and from types.
  For the second, a longer prompt drops candidates that come before all others, so every rank falls by
  their number.
- `AllCandidatesTried`: `CandidatesTried`. `TriedInv` says that what could be reached ever since the request
  came is among the candidates it has asked for or those left (`Pursued`): it passes one over only when no
  back end has it, and then it was not reachable.
- `CrashKeepsRuleSets`: the action property `CrashKeepsRules`. `SaveInv` follows a save that is alone
  through memory, temporary file and file (`SavedSoFar`); with none under way, a start would load what is
  in memory.

`BackendProofs` proves `BackendTypes`, `AgreesAtRest`, `FileIsWhole`, `CrashIsHarmless` and `Atomicity`. The
invariant is `FdOK` (an open file is the temporary one or has been renamed to the real one), `SoloOK`
(a task that has run alone since its update sees its own snapshot in the temporary file) and `CalmOK`
(as long as nothing has overlapped or failed, the file has the old table until the new one takes its
place). `Atomicity` is the refinement `Spec => TableIsAtomic`: with the invariant, each step of a task
that is alone is the step of `AtomicTable` its phase says, or a stutter; a step that overlaps or fails is
`Disturb`, and the registry's replacement by a task that ran alone is `Serve` or `Recover`.

`GatewayProofs` proves `GatewayTypes` (that `PickLeader` yields a leader needs a least element of a
set of naturals, by which the least id is taken), `StaticLinkIsEncrypted`, `AnswersAreSealed` and
`EnforceSurvives`. `EncInv` follows a request from `Pick` to `Answer`: who was picked as the static leader
is still known to be one when the member reads it again. `SealInv` follows its two halves at the leader:
the middleware seals the answer by what it has opened, not by the policy of that time, and a request
that was sealed carries the key its answer needs, so `Opened` never comes upon a sealed answer without one.
`EnforceInv` follows a policy call from the file to the
memory: a call that is alone and stored finds the file as it left it (`SoundOK`), an acknowledged
enforce is in the file and in memory with no other call under way (`AckedOK`), and what was received
under it was encrypted (`StrictOK`).

`PunchProofs` proves `PunchTypes`, `FingerprintIsServed` and `EndpointIsOne` by one invariant:
`PairOK` (a session serves with some certificate and key; and as long as no write has failed, the key
file is written last and only over an empty one, so whatever a crash leaves is the pair that is served
or no pair), `GivenOK` (until a write has failed, every fingerprint in a mailbox or at a member is the
one on disk) and `EndOK` (an endpoint is in the leader's table of tunnels, and a member in that table is
not punched again).

`MemberProofs` proves `MemberTypes` and `RevokedIsRefused`. `CloneOK` ties a refusal on its way to the
session it was for, and keeps a session in use from being given to another connect.

`MachineProofs` proves `MachineTypes` and the five properties of `machine_files`: `OneGateway`
(`LockInv`: a gateway past its start holds a lock of its name that exists, and no two hold the same; so
where the lock is a file there is one, and on Windows one per mutex, `Global\` and `Local\`),
`SecretsStayReadable` (`KeyInv`: once a process is
sure of its key, nobody is making another), `BindingsAreTrue` (`BoundInv`: what is stored or carried as
bound, the server has bound; `ShownInv`: since a bind that met no other command was saved, only logins
of its account are under way, and these carry the share id over), `LogoutsHold` (`OutInv`: as long as a
logout holds, nobody is on the way
to a session) and `RolesAreKept` (`RoleInv`), the last three with `SoundInv`: a command that still counts
as sound has no other of its family beside it.

| Theorem | States | Theorem | States |
|---|---|---|---|
| `TypeCorrect` | `Auth.TypeOK` | `StaticLinkIsEncrypted` | `Gateway.StaticIsEncrypted` |
| `BanIsObeyed` | `BannedNeverServed` | `AnswersAreSealed` | `OpenedIsSealed` |
| `GrantsAreBarred` | `BannedNeverGranted` | `EnforceSurvives` | `EnforceHolds` |
| `RotationIsFinal` | `RetiredStaysDead` | `FingerprintIsServed` | `Punch.FingerprintHolds` |
| `KeysSurvive` | `KeysDurable` | `EndpointIsOne` | `OneEndpoint` |
| `Refinement` | `KeysLiveOnce` | `RevokedIsRefused` | `Member.RevokedWasRefused` |
| `BansSurvive` | `BansDurable` | `OneGateway` | `Machine.OneGatewayPerLock` |
| `AnsweredBansHold` | `AckedBanHoldsUntorn` | `SecretsStayReadable` | `SecretsReadable` |
| `OneLoop` | `Health.AtMostOneLoop` (in no run) | `BindingsAreTrue` | `BoundIsBound` |
| `AgreesAtRest` | `Backends.AgreedAtRest` | `LogoutsHold` | `LogoutHolds` |
| `FileIsWhole` | `NeverHalfWritten` | `RolesAreKept` | `RoleKept` |
| `CrashIsHarmless` | `CrashKeepsTable` | `LimitsSurvive` | `Proxy.QuotaDurable` |
| `Atomicity` | `TableIsAtomic` | `OvershootIsBounded` | `QuotaCap` |
| `RoutesAreSound` | `Routing.RouteIsSound` | `RulesAreAPart` | `RulePartOfTotal` |
| `TiersAreSorted` | `TiersInOrder` | `AnswersAreMetered` | `AnsweredIsMetered` |
| `AllCandidatesTried` | `CandidatesTried` | `CrashKeepsRuleSets` | `CrashKeepsRules` |
| `OneKeyPerMachine`, `OneOutAtATime` | see above | `ByLimitIsStableSort`, `RuleChosen` | the operators of `Routing` |
| `ProxyTypes` | `Proxy.TypeOK` | `HealthTypes`, `RoutingTypes`, `BackendTypes`, `GatewayTypes`, `PunchTypes`, `MemberTypes`, `MachineTypes` | the type invariants |

Each theorem has an initial-state fact, one lemma per action or group of actions that disturbs a
conjunct, and a last step in temporal logic.

Only model-checked: the liveness properties (`RunningLoopPolls`, `RemovedRecovers`, `IdleCostsNothing`,
`EveryRequestEnds`, `EverythingEnds`, `SilentLeaderIsLeft`, `MirrorConverges`), for fairness and ENABLED
are beyond the prover. Induction over data and RECURSIVE operators are so too, which is why the modules
have none: sorting is by rank, a sum is a cardinality, a least element comes from a library theorem on
well-founded sets.

## 6. Not modelled

Per component the reasons are in `PROJECT.json`, "components". In short:

- *Load policy*: a scan of the request's text for key words, two counters and a switch that is stored
  as the link policy is; that it refuses a request is `Blocked` in `Proxy`.
- *Providers*: calls to the Internet and static tables; what a call may answer, and how it fails,
  is in `Proxy`, and the probe's verdict in `Health`. Protocol conversion is a pure function on texts.
- *Plugin runtime*: the servers register their modules in one task at start, and outside the tests
  nothing boots the runtime or emits an event, so there is no order of steps to go wrong.
- *Single instance lock*: several logon sessions. All gateways of the model are of one session, so there
  is one `Local\` namespace; gateways of two users each have their own (single_instance.rs:34).
- *Configuration rows*: one SQLite statement each, behind one mutex.
- *Member's identity and usage view*: a file that is written once and then read, and a print.
- *Connection tests of the panel, heartbeat of the coordination client*: they change nothing on this
  side.
- *Tray, translations, data directory, parsing of arguments*: input and output; that the tray's Quit
  ends a gateway without `Drop` is in `Machine`.
