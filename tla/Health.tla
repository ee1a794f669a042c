------------------------------- MODULE Health -------------------------------
(***************************************************************************)
(* Health polling of the back ends (lan-share/src/health.rs): the state of *)
(* every back end, the polling configurations, the scheduling loop and     *)
(* ensure_running, with the handlers that touch them: PUT polling, and the *)
(* part of saving and deleting a back end that polling sees                *)
(* (lan-share/src/api.rs).                                                 *)
(*                                                                         *)
(* A step is what one lock protects, but the scan of all configurations is *)
(* one step, and so are the two reads of the store by PUT polling.  The    *)
(* clock is left out: whether an entry is due (last_poll against its       *)
(* interval) is any choice, and a probe, which has a time-out, comes back  *)
(* with the answer the back end gives at that moment.                      *)
(***************************************************************************)
EXTENDS Naturals

CONSTANTS Backends,     \* backend ids
          Edited,       \* bound: those that the panel saves and deletes
          Unsteady,     \* bound: those that go down and come up again
          Executors,    \* those of an executor preset: polled by default
          Thresholds,   \* the thresholds a PUT can choose
          Default,      \* the thresholds of PollConfig::default
          MaxFailures,  \* bound: failures are counted up to here
          Puts,         \* concurrent PUT polling calls
          Starters,     \* bound: ensure_running tasks under way at a time
          Loops,        \* bound: scheduling loops under way at a time
          None

ASSUME HealthConstants ==
    /\ MaxFailures \in Nat
    /\ Edited \subseteq Backends /\ Unsteady \subseteq Backends
    /\ Thresholds \subseteq [fail : 1..MaxFailures, remove : 1..MaxFailures]
    /\ Default \in Thresholds
    /\ None \notin Backends

VARIABLES stored,   \* ids in the back end store
          configs,  \* HealthMonitor.configs
          states,   \* HealthMonitor.states
          handle,   \* HealthMonitor.task is Some
          loop,     \* the scheduling loops
          starter,  \* the ensure_running tasks
          put,      \* the PUT polling calls
          erase,    \* the back ends whose DELETE is under way, and where
          up,       \* does the back end answer probes
          crowded   \* history: two ensure_running tasks were between the look
                    \* at the handle and its storing, or a loop is left of that

vars == <<stored, configs, states, handle, loop, starter, put, erase, up, crowded>>

PollConfig == [enabled : BOOLEAN, limits : Thresholds]

NoConfig == [enabled |-> FALSE, limits |-> None]

Levels == {"ok", "degraded", "removed"}

\* untested: no entry in the table
ProviderState == [level : Levels \cup {"untested"}, failures : 0..MaxFailures]

Untested == [level |-> "untested", failures |-> 0]

Idle == [step |-> "none", todo |-> {}, id |-> None, limits |-> Default, ok |-> TRUE]

TypeOK ==
    /\ stored \in SUBSET Backends
    /\ configs \in [Backends -> PollConfig \cup {NoConfig}]
    /\ states \in [Backends -> ProviderState]
    /\ handle \in BOOLEAN
    /\ loop \in [Loops -> [step : {"none", "collect", "list", "pick", "probe",
                                   "recheck", "record", "exit"},
                           todo : SUBSET Backends,
                           id : Backends \cup {None},
                           limits : Thresholds,
                           ok : BOOLEAN]]
    /\ \A l \in Loops :
         loop[l].step \in {"probe", "recheck", "record"} => loop[l].id \in Backends
    /\ starter \in [Starters -> {"none", "check", "look", "spawn", "store"}]
    /\ put \in [Puts -> [step : {"none", "set", "clear"},
                         id : Backends \cup {None}]]
    /\ \A p \in Puts : put[p].step # "none" => put[p].id \in Backends
    /\ erase \in [Backends -> {"none", "state", "config"}]
    /\ up \in [Backends -> BOOLEAN]
    /\ crowded \in BOOLEAN

\* The server starts with the back ends of backends.yaml and one task that
\* runs ensure_running
Init ==
    /\ stored \in SUBSET Backends
    /\ configs = [b \in Backends |-> NoConfig]
    /\ states = [b \in Backends |-> Untested]
    /\ handle = FALSE
    /\ loop = [l \in Loops |-> Idle]
    /\ \E s \in Starters :
         starter = [r \in Starters |-> IF r = s THEN "check" ELSE "none"]
    /\ put = [p \in Puts |-> [step |-> "none", id |-> None]]
    /\ erase = [b \in Backends |-> "none"]
    /\ up \in {f \in [Backends -> BOOLEAN] : \A b \in Backends \ Unsteady : f[b]}
    /\ crowded = FALSE

(***************************************************************************)
(* HealthMonitor                                                           *)
(***************************************************************************)

\* config: an executor without a configuration is polled, others are not
Config(b) == IF configs[b] # NoConfig THEN configs[b]
             ELSE [enabled |-> b \in Executors, limits |-> Default]

Enabled == {b \in stored : Config(b).enabled}

\* ProviderState::observe
Level(n, limits) == CASE n >= limits.remove -> "removed"
                      [] n < limits.remove /\ n >= limits.fail -> "degraded"
                      [] OTHER -> "ok"

\* Mutant: success clears the count and not the level
ObserveSticky(s, ok, limits) ==
    LET n == IF ok THEN 0
             ELSE IF s.failures < MaxFailures THEN s.failures + 1 ELSE MaxFailures
    IN  [level |-> IF ok /\ s.level # "untested" THEN s.level ELSE Level(n, limits),
         failures |-> n]

Observe(s, ok, limits) ==
    LET n == IF ok THEN 0
             ELSE IF s.failures < MaxFailures THEN s.failures + 1 ELSE MaxFailures
    IN  [level |-> IF ok THEN "ok" ELSE Level(n, limits), failures |-> n]

Start(s, from, to) == starter[s] = from /\ starter' = [starter EXCEPT ![s] = to]

Alive(l) == loop[l].step # "none"

\* A task that has looked at the handle and not stored its own yet
Launching(s) == starter[s] \in {"look", "spawn", "store"}

\* What a task meets that comes to start a loop
Crowded == \/ \E s \in Starters : Launching(s)
           \/ crowded /\ \E l \in Loops : Alive(l)

\* ensure_running: the handle is looked at and stored under two locks
CheckHandle(s) ==
    /\ Start(s, "check", IF handle THEN "none" ELSE "look")
    /\ crowded' = IF handle THEN crowded ELSE Crowded
    /\ UNCHANGED <<stored, configs, states, handle, loop, put, erase, up>>

HasEnabled(s) ==
    /\ Start(s, "look", IF Enabled = {} THEN "none" ELSE "spawn")
    /\ UNCHANGED <<stored, configs, states, handle, loop, put, erase, up, crowded>>

Spawn(s) ==
    /\ Start(s, "spawn", "store")
    /\ \E l \in Loops : /\ loop[l].step = "none"
                        /\ loop' = [loop EXCEPT ![l].step = "collect"]
    /\ UNCHANGED <<stored, configs, states, handle, put, erase, up, crowded>>

StoreHandle(s) ==
    /\ Start(s, "store", "none")
    /\ handle' = TRUE
    /\ UNCHANGED <<stored, configs, states, loop, put, erase, up, crowded>>

EnsureRunning(s) == CheckHandle(s) \/ HasEnabled(s) \/ Spawn(s) \/ StoreHandle(s)

(***************************************************************************)
(* The scheduling loop                                                     *)
(***************************************************************************)
Local == <<stored, configs, handle, starter, put, erase, up, crowded>>

\* Mutant: the loop never ends
CollectForever(l) ==
    /\ loop[l].step = "collect"
    /\ loop' = [loop EXCEPT ![l].step = "list", ![l].todo = Enabled]
    /\ UNCHANGED <<states, Local>>

Collect(l) ==
    /\ loop[l].step = "collect"
    /\ loop' = [loop EXCEPT ![l].step = IF Enabled = {} THEN "exit" ELSE "list",
                            ![l].todo = Enabled]
    /\ UNCHANGED <<states, Local>>

\* Mutant: an entry that was deleted meanwhile ends the round
ListBreaks(l) ==
    /\ loop[l].step = "list"
    /\ loop' = [loop EXCEPT ![l].step = "pick",
                            ![l].todo = IF @ \subseteq stored THEN @ ELSE {}]
    /\ UNCHANGED <<states, Local>>

\* The entries are read again: one that was deleted meanwhile is skipped
ListEntries(l) ==
    /\ loop[l].step = "list"
    /\ loop' = [loop EXCEPT ![l].step = "pick", ![l].todo = @ \cap stored]
    /\ UNCHANGED <<states, Local>>

\* An entry that is not due
NotDue(l) ==
    /\ loop[l].step = "pick"
    /\ \E b \in loop[l].todo : loop' = [loop EXCEPT ![l].todo = @ \ {b}]
    /\ UNCHANGED <<states, Local>>

Probe(l, b) ==
    /\ loop[l].step = "pick"
    /\ b \in loop[l].todo
    /\ loop' = [loop EXCEPT ![l].step = "probe", ![l].id = b,
                            ![l].limits = Config(b).limits, ![l].todo = @ \ {b}]
    /\ UNCHANGED <<states, Local>>

\* A probe succeeds if the back end answers it well within five seconds
Outcome(b) == up[b]

\* The probe comes back, with an answer or at its time-out
Answer(l) ==
    /\ loop[l].step = "probe"
    /\ loop' = [loop EXCEPT ![l].step = "recheck", ![l].ok = Outcome(loop[l].id)]
    /\ UNCHANGED <<states, Local>>

Resume(f, step) == [f EXCEPT !.step = step, !.id = None, !.limits = Default,
                             !.ok = TRUE]

\* The entry must still be enabled, in the store or not
Recheck(l) ==
    /\ loop[l].step = "recheck"
    /\ loop' = [loop EXCEPT ![l] = IF Config(@.id).enabled
                                   THEN [@ EXCEPT !.step = "record"]
                                   ELSE Resume(@, "pick")]
    /\ UNCHANGED <<states, Local>>

Record(l) ==
    /\ loop[l].step = "record"
    /\ states' = [states EXCEPT ![loop[l].id] =
                     Observe(@, loop[l].ok, loop[l].limits)]
    /\ loop' = [loop EXCEPT ![l] = Resume(@, "pick")]
    /\ UNCHANGED Local

\* All entries are dealt with: sleep a second and start over
Sleep(l) ==
    /\ loop[l].step = "pick" /\ loop[l].todo = {}
    /\ loop' = [loop EXCEPT ![l].step = "collect"]
    /\ UNCHANGED <<states, Local>>

Exit(l) ==
    /\ loop[l].step = "exit"
    /\ loop' = [loop EXCEPT ![l] = Idle]
    /\ handle' = FALSE
    /\ UNCHANGED <<stored, configs, states, starter, put, erase, up, crowded>>

Run(l) == \/ Collect(l) \/ ListEntries(l) \/ NotDue(l) \/ Answer(l) \/ Recheck(l)
          \/ Record(l) \/ Sleep(l) \/ Exit(l)
          \/ \E b \in Backends : Probe(l, b)

(***************************************************************************)
(* PUT /api/backends/{id}/polling                                          *)
(***************************************************************************)
Put(p, from, to, b) == /\ put[p].step = from
                       /\ put' = [put EXCEPT ![p] = [step |-> to, id |-> b]]

PutStart(p) ==
    /\ \E b \in stored : Put(p, "none", "set", b)
    /\ UNCHANGED <<stored, configs, states, handle, loop, starter, erase, up, crowded>>

\* set_config; when it enables polling, a task is spawned for ensure_running
PutSet(p) == \E cfg \in PollConfig :
    /\ Put(p, "set", "clear", put[p].id)
    /\ configs' = [configs EXCEPT ![put[p].id] = cfg]
    /\ IF cfg.enabled
       THEN \E s \in Starters : Start(s, "none", "check")
       ELSE UNCHANGED starter
    /\ UNCHANGED <<stored, states, handle, loop, erase, up, crowded>>

\* The state starts afresh, and the call is answered
PutClear(p) ==
    /\ Put(p, "clear", "none", None)
    /\ states' = [states EXCEPT ![put[p].id] = Untested]
    /\ UNCHANGED <<stored, configs, handle, loop, starter, erase, up, crowded>>

(***************************************************************************)
(* POST and DELETE /api/backends, as far as polling sees them: the store   *)
(* changes, and DELETE ends with HealthMonitor::remove                     *)
(***************************************************************************)
SaveBackend(b) ==
    /\ b \notin stored
    /\ stored' = stored \cup {b}
    /\ UNCHANGED <<configs, states, handle, loop, starter, put, erase, up, crowded>>

\* A save or a rebuild of the routes that fails answers with an error, before the
\* state and the configuration are removed
DeleteBackend(b) ==
    /\ b \in stored
    /\ erase[b] = "none"
    /\ stored' = stored \ {b}
    /\ erase' \in {erase, [erase EXCEPT ![b] = "state"]}
    /\ UNCHANGED <<configs, states, handle, loop, starter, put, up, crowded>>

RemoveState(b) ==
    /\ erase[b] = "state"
    /\ states' = [states EXCEPT ![b] = Untested]
    /\ erase' = [erase EXCEPT ![b] = "config"]
    /\ UNCHANGED <<stored, configs, handle, loop, starter, put, up, crowded>>

RemoveConfig(b) ==
    /\ erase[b] = "config"
    /\ configs' = [configs EXCEPT ![b] = NoConfig]
    /\ erase' = [erase EXCEPT ![b] = "none"]
    /\ UNCHANGED <<stored, states, handle, loop, starter, put, up, crowded>>

Flip(b) ==
    /\ up' = [up EXCEPT ![b] = ~@]
    /\ UNCHANGED <<stored, configs, states, handle, loop, starter, put, erase, crowded>>

-----------------------------------------------------------------------------
PutStep(p) == PutStart(p) \/ PutSet(p) \/ PutClear(p)

StoreStep(b) == \/ SaveBackend(b) \/ DeleteBackend(b)
                \/ RemoveState(b) \/ RemoveConfig(b)

Next == \/ \E s \in Starters : EnsureRunning(s)
        \/ \E l \in Loops : Run(l)
        \/ \E p \in Puts : PutStep(p)
        \/ \E b \in Edited : StoreStep(b)
        \/ \E b \in Unsteady : Flip(b)

Spec == Init /\ [][Next]_vars

\* Tasks and handlers that were started go on; an entry that comes up again and
\* again is due at some time.  Nobody has to send a request.
Fairness ==
    /\ \A s \in Starters : WF_vars(EnsureRunning(s))
    /\ \A l \in Loops : WF_vars(Run(l))
    /\ \A l \in Loops, b \in Backends : SF_vars(Probe(l, b))
    /\ \A p \in Puts : WF_vars(PutSet(p) \/ PutClear(p))
    /\ \A b \in Edited : WF_vars(RemoveState(b) \/ RemoveConfig(b))

FairSpec == Spec /\ Fairness

(***************************************************************************)
(* Properties                                                              *)
(***************************************************************************)
\* A loop that has not decided to stop
Running == \E l \in Loops : loop[l].step \notin {"none", "exit"}

Probed(b) == \E l \in Loops : loop[l].step = "probe" /\ loop[l].id = b

\* health.rs 158-173: a second loop, which would probe every back end twice as
\* often and count its failures twice, can only come of two ensure_running that
\* were both between the look at the handle and its storing; and once the loops
\* of such a meeting have ended, the next start is clean again.
AtMostOneLoop == crowded \/ \A k, l \in Loops : Alive(k) /\ Alive(l) => k = l

\* health.rs 181-227: a loop that runs polls every back end that stays enabled,
\* whatever other back ends are saved, deleted, switched on and off while it goes
\* round: between the two reads of the store, during a probe, in every round.
RunningLoopPolls ==
    \A b \in Backends : (Running /\ b \in Enabled) ~> (Probed(b) \/ b \notin Enabled)

\* Removal is not for ever: a back end that was removed and answers again comes
\* back into the routes, unless it goes down, or polling of it ends.
RemovedRecovers ==
    \A b \in Unsteady : (Running /\ b \in Enabled /\ states[b].level = "removed")
                          ~> (states[b].level # "removed" \/ ~up[b] \/ b \notin Enabled)

\* Zero overhead: when polling is off for good, every loop ends
IdleCostsNothing ==
    <>[](Enabled = {}) => <>[](\A l \in Loops : ~Alive(l))
==============================================================================
