------------------------------- MODULE Routing -------------------------------
(***************************************************************************)
(* Which back end a request gets: rule sets (lan-share/src/rules.rs) with  *)
(* their file (POST /api/rules, api.rs), the registry (registry.rs) and    *)
(* the loop of chat_completions over the candidates, while the table of    *)
(* back ends is replaced (Backends), polling takes back ends out and       *)
(* brings them back (Health), and rule sets are saved.                     *)
(*                                                                         *)
(* Limits and prompts are counted in tokens; an empty model name, which    *)
(* resolve drops, does not occur.  The names of the specification are      *)
(* Routing's own, so that a module can extend Health beside it.            *)
(***************************************************************************)
EXTENDS Naturals, FiniteSets, SequencesExt

CONSTANTS Models,      \* what a request, a back end or a rule can name
          Providers,
          PrefixOf,    \* the provider whose prefix a model's name has, or Nothing
          Mock,        \* the provider mock
          Ids,         \* back ends
          Tables,      \* tables of back ends
          RuleSets,    \* what an administrator saves: rules by rule set
          Prompts,     \* tokens of a prompt
          Unlimited,   \* the limit of a candidate that states none: u64::MAX
          Clients,     \* concurrent requests
          Setters,     \* concurrent POST /api/rules calls
          Nothing         \* no provider, no back end, no file

Entries == [id : Ids, provider : Providers, models : SUBSET Models]

Candidates == [model : Models, max : 0..Unlimited]

Rules == [match      : Models \cup {"*"},
          order      : Nat,
          strategy   : {"token_tier", "fixed"},
          candidates : Seq(Candidates),
          fallback   : Seq(Models)]

ASSUME RoutingConstants ==
    /\ PrefixOf \in [Models -> Providers \cup {Nothing}] /\ Mock \in Providers
    /\ Tables \subseteq Seq(Entries)
    \* the store keeps one entry by id
    /\ \A t \in Tables : IsInjective([i \in DOMAIN t |-> t[i].id])
    /\ \A r \in RuleSets : \A name \in DOMAIN r : r[name] \in Seq(Rules)
    /\ Unlimited \in Nat /\ Prompts \subseteq 0..Unlimited
    /\ Nothing \notin Ids \cup Providers \cup RuleSets

VARIABLES table,    \* RegistryInner: the back ends in the order of their entries
          removed,  \* the health states: the back ends out of service; one that is
                    \* degraded is routed like one that is ok
          sets,     \* RuleResolver.inner
          file,     \* model-rule-set.json: the rule sets in it, or Nothing
          tmp,      \* model-rule-set.json.tmp, likewise
          setter,   \* the stack frame of each POST /api/rules
          call,     \* the stack frame of each request
          reach,    \* history: the candidates that had one server, in service,
                    \* ever since the request came
          mixed     \* history: a save failed, or met another one, and no later one
                    \* has put it right

routingVars == <<table, removed, sets, file, tmp, setter, call, reach, mixed>>

NoRules == <<>>

Call == [step   : {"idle", "route", "chat", "failed"},
         byRule : BOOLEAN,
         todo   : Seq(Models),   \* the candidates left
         server : Ids \cup {Nothing},
         tried  : SUBSET Models] \* those a back end was asked for

NoCall == [step |-> "idle", byRule |-> FALSE, todo |-> <<>>,
           server |-> Nothing, tried |-> {}]

Setter == [step : {"idle", "write", "remove", "rename", "load"},
           new  : RuleSets \cup {NoRules}]

NoSetter == [step |-> "idle", new |-> NoRules]

RoutingTypeOK ==
    /\ table \in Tables
    /\ removed \subseteq Ids
    /\ sets \in RuleSets \cup {NoRules}
    /\ {file, tmp} \subseteq RuleSets \cup {Nothing}
    /\ setter \in [Setters -> Setter]
    /\ call \in [Clients -> Call]
    /\ \A c \in Clients : call[c].step = "chat" => call[c].server \in Ids
    /\ reach \in [Clients -> SUBSET Models]
    /\ mixed \in BOOLEAN

(***************************************************************************)
(* The registry                                                            *)
(***************************************************************************)
Latest(I) == CHOOSE i \in I : \A j \in I : j <= i

Removed(t, i) == t[i].id \in removed

\* exact: the entry that comes last has a model that several have
Serving(t, m) == {i \in DOMAIN t : m \in t[i].models}

\* prefixes: likewise; mock has its prefix only as the first of the table
Prefixed(t, m) == {i \in DOMAIN t : /\ t[i].provider = PrefixOf[m]
                                    /\ t[i].provider = Mock => i = 1}

\* Mutant: the only back end is chosen without asking for its health
Anyway(t, m) ==
    LET exact == Serving(t, m)
        found == IF exact # {} THEN {i \in exact : i = Latest(exact) /\ ~Removed(t, i)}
                 ELSE {i \in DOMAIN t : Len(t) = 1}
    IN IF found # {} THEN CHOOSE i \in found : TRUE ELSE 0

\* The place of the back end that route gives, 0 for none.  The prefixes exclude
\* one another, so that there is no longest, and no rank to decide between two.
Place(t, m) ==
    LET exact    == Serving(t, m)
        prefixed == {i \in Prefixed(t, m) : i = Latest(Prefixed(t, m)) /\ ~Removed(t, i)}
        found    == IF exact # {} THEN {Latest(exact)}
                    ELSE IF prefixed # {} THEN prefixed
                    ELSE {i \in DOMAIN t : Len(t) = 1}
    IN IF \E i \in found : ~Removed(t, i) THEN CHOOSE i \in found : TRUE ELSE 0

\* models_catalog, with the order left out
Catalog(t) == UNION {t[i].models : i \in {j \in DOMAIN t : ~Removed(t, j)}}

(***************************************************************************)
(* resolve                                                                 *)
(***************************************************************************)

\* The first rule for all, else for the name asked for, else of the least order
Weight(rule, name) == IF rule.match = "*" THEN 0
                      ELSE IF rule.match = name THEN 1
                      ELSE 2 + rule.order

Chosen(rules, name) ==
    LET w(i) == Weight(rules[i], name)
    IN rules[CHOOSE i \in DOMAIN rules : \A j \in DOMAIN rules :
                 w(i) < w(j) \/ (w(i) = w(j) /\ i <= j)]

\* Mutant: a candidate of just the length of the prompt does not hold it
Exceeds(candidate, prompt) == candidate.max > prompt

Fits(candidate, prompt) == candidate.max >= prompt

\* The candidates that fit, stably sorted by limit: the n-th is the one that n - 1
\* of them come before
ByLimit(s, prompt) ==
    LET fit          == {k \in DOMAIN s : Fits(s[k], prompt)}
        before(j, k) == s[j].max < s[k].max \/ (s[j].max = s[k].max /\ j < k)
        rank(k)      == Cardinality({j \in fit : before(j, k)})
    IN [n \in 1..Cardinality(fit) |-> s[CHOOSE k \in fit : rank(k) = n - 1]]

Selected(rule, prompt) ==
    IF rule.strategy = "fixed" THEN rule.candidates ELSE ByLimit(rule.candidates, prompt)

\* <<>> is None: no such rule set, no rule in it, or no candidate
Resolve(name, prompt) ==
    IF name \notin DOMAIN sets \/ sets[name] = <<>> THEN <<>>
    ELSE LET rule     == Chosen(sets[name], name)
             selected == Selected(rule, prompt)
         IN [k \in DOMAIN selected |-> selected[k].model] \o rule.fallback

-----------------------------------------------------------------------------
RoutingInit ==
    /\ table \in Tables
    /\ removed = {}
    /\ file \in RuleSets \cup {Nothing} /\ tmp = Nothing
    /\ sets = IF file = Nothing THEN NoRules ELSE file
    /\ setter = [s \in Setters |-> NoSetter]
    /\ call = [c \in Clients |-> NoCall]
    /\ reach = [c \in Clients |-> {}]
    /\ mixed = FALSE

(***************************************************************************)
(* Requests: chat_completions, and messages, between policy and metering   *)
(***************************************************************************)

\* The models that one back end has, which is in service
Reachable == {m \in Models : /\ Cardinality(Serving(table, m)) = 1
                             /\ \A i \in Serving(table, m) : ~Removed(table, i)}

Others == <<table, removed, sets, file, tmp, setter, mixed>>

\* A stream, and all of messages, take the first candidate and no other
Request(c) == \E name \in Models, prompt \in Prompts, one \in BOOLEAN :
    LET found  == Resolve(name, prompt)
        all    == IF found = <<>> THEN <<name>> ELSE found
        wanted == IF one THEN <<Head(all)>> ELSE all
    IN /\ call[c].step = "idle"
       /\ call' = [call EXCEPT ![c] = [NoCall EXCEPT !.step = "route", !.todo = wanted,
                                            !.byRule = found # <<>>]]
       /\ reach' = [reach EXCEPT ![c] = Reachable \cap ToSet(wanted)]
       /\ UNCHANGED Others

Ask(c) ==
    LET m == Head(call[c].todo)
        i == Place(table, m)
    IN /\ call[c].step = "route" /\ call[c].todo # <<>>
       /\ i # 0
       /\ call' = [call EXCEPT ![c].step = "chat", ![c].todo = Tail(@),
                               ![c].server = table[i].id, ![c].tried = @ \cup {m}]
       /\ UNCHANGED <<reach, Others>>

\* Mutant: the first candidate that no back end has ends the request
StopAtFirst(c) ==
    /\ call[c].step = "route" /\ call[c].todo # <<>> /\ call[c].byRule
    /\ Place(table, Head(call[c].todo)) = 0
    /\ call' = [call EXCEPT ![c].step = "failed", ![c].todo = <<>>]
    /\ UNCHANGED <<reach, Others>>

End(c) ==
    /\ call' = [call EXCEPT ![c] = NoCall]
    /\ reach' = [reach EXCEPT ![c] = {}]
    /\ UNCHANGED Others

\* No back end has it: where there is a rule the next one is tried ...
Skip(c) ==
    /\ call[c].step = "route" /\ call[c].todo # <<>> /\ call[c].byRule
    /\ Place(table, Head(call[c].todo)) = 0
    /\ call' = [call EXCEPT ![c].todo = Tail(@)]
    /\ UNCHANGED <<reach, Others>>

\* ... and else the answer is 400
NotAvailable(c) ==
    /\ call[c].step = "route" /\ call[c].todo # <<>> /\ ~call[c].byRule
    /\ Place(table, Head(call[c].todo)) = 0
    /\ End(c)

\* The back end fails: the next one is tried
ChatFails(c) ==
    /\ call[c].step = "chat"
    /\ call' = [call EXCEPT ![c].step = "route", ![c].server = Nothing]
    /\ UNCHANGED <<reach, Others>>

\* It answers, or the client hangs up
ChatEnds(c) ==
    /\ call[c].step = "chat"
    /\ End(c)

\* All failed: 502 or 500
GiveUp(c) ==
    /\ call[c].step = "route" /\ call[c].todo = <<>>
    /\ call' = [call EXCEPT ![c].step = "failed"]
    /\ UNCHANGED <<reach, Others>>

Reply(c) == call[c].step = "failed" /\ End(c)

(***************************************************************************)
(* What others change in the meantime                                      *)
(***************************************************************************)
StillReached == reach' = [c \in Clients |-> reach[c] \cap Reachable']

Replace ==
    /\ table' \in Tables \ {table}
    /\ UNCHANGED <<removed, sets, file, tmp, setter, call, mixed>>
    /\ StillReached

\* A probe, in Health, takes a back end out of service or brings it back
Polling == \E i \in Ids :
    /\ removed' = IF i \in removed THEN removed \ {i} ELSE removed \cup {i}
    /\ UNCHANGED <<table, sets, file, tmp, setter, call, mixed>>
    /\ StillReached

(***************************************************************************)
(* POST /api/rules: api_rules_set                                          *)
(***************************************************************************)
Rest == <<table, removed, call, reach>>

Alone(s) == \A o \in Setters \ {s} : setter[o].step = "idle"

\* Mutant: the rule sets are in force before they are saved
LoadFirst(s) == \E new \in RuleSets :
    /\ setter[s].step = "idle"
    /\ setter' = [setter EXCEPT ![s] = [step |-> "write", new |-> new]]
    /\ mixed' = (mixed \/ ~Alone(s))
    /\ sets' = new
    /\ UNCHANGED <<file, tmp, Rest>>

BeginSave(s) == \E new \in RuleSets :
    /\ setter[s].step = "idle"
    /\ setter' = [setter EXCEPT ![s] = [step |-> "write", new |-> new]]
    /\ mixed' = (mixed \/ ~Alone(s))
    /\ UNCHANGED <<sets, file, tmp, Rest>>

WriteTmp(s) ==
    /\ setter[s].step = "write"
    /\ tmp' = setter[s].new
    /\ setter' = [setter EXCEPT ![s].step = "remove"]
    /\ UNCHANGED <<sets, file, mixed, Rest>>

\* The write fails: the file stays, and the rule sets are loaded all the same
WriteFails(s) ==
    /\ setter[s].step = "write"
    /\ tmp' = Nothing
    /\ setter' = [setter EXCEPT ![s].step = "load"]
    /\ mixed' = TRUE
    /\ UNCHANGED <<sets, file, Rest>>

RemoveFile(s) ==
    /\ setter[s].step = "remove"
    /\ file' = Nothing
    /\ setter' = [setter EXCEPT ![s].step = "rename"]
    /\ UNCHANGED <<sets, tmp, mixed, Rest>>

\* Another save may have taken the temporary file away; that error is ignored
RenameTmp(s) ==
    /\ setter[s].step = "rename"
    /\ file' = IF tmp = Nothing THEN file ELSE tmp
    /\ tmp' = Nothing
    /\ setter' = [setter EXCEPT ![s].step = "load"]
    /\ mixed' = (mixed /\ ~(Alone(s) /\ tmp = setter[s].new))
    /\ UNCHANGED <<sets, Rest>>

\* Its error is ignored too: the file is gone
RenameFails(s) ==
    /\ setter[s].step = "rename"
    /\ setter' = [setter EXCEPT ![s].step = "load"]
    /\ mixed' = TRUE
    /\ UNCHANGED <<sets, file, tmp, Rest>>

Load(s) ==
    /\ setter[s].step = "load"
    /\ sets' = setter[s].new
    /\ setter' = [setter EXCEPT ![s] = NoSetter]
    /\ UNCHANGED <<file, tmp, mixed, Rest>>

\* A crash, and the start that follows: load_from_file, and no health state yet
Restart ==
    /\ removed' = {}
    /\ sets' = IF file = Nothing THEN NoRules ELSE file
    /\ setter' = [s \in Setters |-> NoSetter]
    /\ call' = [c \in Clients |-> NoCall]
    /\ reach' = [c \in Clients |-> {}]
    /\ mixed' = FALSE
    /\ UNCHANGED <<table, file, tmp>>

-----------------------------------------------------------------------------
Serve(c) == \/ Request(c) \/ Ask(c) \/ Skip(c) \/ NotAvailable(c)
            \/ ChatFails(c) \/ ChatEnds(c) \/ GiveUp(c) \/ Reply(c)

Save(s) == \/ BeginSave(s) \/ WriteTmp(s) \/ WriteFails(s) \/ RemoveFile(s)
           \/ RenameTmp(s) \/ RenameFails(s) \/ Load(s)

RoutingNext == \/ \E c \in Clients : Serve(c)
               \/ \E s \in Setters : Save(s)
               \/ Replace \/ Polling \/ Restart

RoutingSpec == RoutingInit /\ [][RoutingNext]_routingVars

(***************************************************************************)
(* Properties                                                              *)
(***************************************************************************)

\* Routing, registry.rs: a back end that was taken out of service is never
\* chosen, by name, by prefix or for being alone; a model that some back end has
\* never goes to one that has it not; and a model of the catalog that one back end
\* has is routed there.
RouteIsSound == \A m \in Models :
    LET i == Place(table, m) IN
    /\ i # 0 => /\ ~Removed(table, i)
                /\ Serving(table, m) # {} => i \in Serving(table, m)
    /\ m \in Catalog(table) /\ Cardinality(Serving(table, m)) = 1
           => Serving(table, m) = {i}

\* token_tier, rules.rs: if a candidate can hold the prompt, the first one does
\* and no other that can has a smaller limit; and a longer prompt gets the end of
\* the sequence that a shorter one gets, so it never comes to a smaller model.
TiersInOrder == \A name \in DOMAIN sets \cap Models :
    LET rule   == Chosen(sets[name], name)
        fit(p) == {k \in DOMAIN rule.candidates : p <= rule.candidates[k].max}
    IN sets[name] # <<>> /\ rule.strategy = "token_tier" => \A p \in Prompts :
         /\ fit(p) # {} => \E k \in fit(p) :
               /\ rule.candidates[k].model = Head(Resolve(name, p))
               /\ \A j \in fit(p) : rule.candidates[k].max <= rule.candidates[j].max
         /\ \A q \in Prompts : q <= p => IsSuffix(Resolve(name, p), Resolve(name, q))

\* A request that is answered 502 has tried every candidate that had a server in
\* service all the time, whatever was saved, deleted, taken out of service or
\* brought back while it went from one candidate to the next.
CandidatesTried == \A c \in Clients :
    call[c].step = "failed" => reach[c] \subseteq call[c].tried

\* A crash during POST /api/rules leaves the rule sets of before or of after,
\* except between the removal of the old file and the rename of the new one, and
\* after a save that failed, which is not reported, or met another.
CrashKeepsRules ==
    [][Restart /\ ~mixed => \/ sets' = sets
                            \/ \E s \in Setters : setter[s].step # "idle" /\
                                 (setter[s].step = "rename" \/ sets' = setter[s].new)
      ]_routingVars
=============================================================================
