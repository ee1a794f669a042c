-------------------------------- MODULE Proxy --------------------------------
(***************************************************************************)
(* The request path of the leader: POST /v1/chat/completions and POST      *)
(* /v1/messages (lan-share/src/api.rs) with quotas (quota.rs) and metering *)
(* (usage.rs), POST /api/quota, and pause and resume of POST /api/control. *)
(*                                                                         *)
(* A step is what one lock protects, one file-system call, or the wait for *)
(* the provider.  The key was verified (Auth).  Rule sets, registry and    *)
(* health change at any time: what a rule resolves to, and whether a       *)
(* candidate is routed, is any choice.  Tokens are counted in units.       *)
(***************************************************************************)
EXTENDS Naturals, Sequences, FiniteSets

CONSTANTS Members,
          Clients,     \* concurrent requests
          Setters,     \* concurrent POST /api/quota calls
          Names,       \* what a request can name: a model or a rule set
          Candidates,  \* the sequences of models a rule set can resolve to
          MaxTokens,   \* tokens of one answer
          Limits,      \* limits an administrator sets; 0 lifts the limit
          MaxUsage,    \* bound: a member who used so much sends no request
          None         \* the member and the model of an idle call

ASSUME ProxyConstants ==
    /\ IsFiniteSet(Clients)
    /\ Candidates \subseteq Seq(Names) \ {<<>>}
    /\ MaxTokens \in Nat /\ MaxUsage \in Nat
    /\ Limits \subseteq Nat
    /\ None \notin Members \cup Names

VARIABLES sharing,    \* ApiState.sharing
          usage,      \* UsageInner.by_member: total and tokens by rule set
          usageFile,  \* what load makes of usage.json
          quota,      \* QuotaInner.quotas; 0: no entry
          quotaFile,  \* what load makes of quota.json
          call,       \* the stack frame of each request
          setter,     \* the stack frame of each POST /api/quota
          cap,        \* history: what the limit in force allows in the end
          answered    \* history: tokens of the answers sent since the last crash
                      \* that hit a half-written usage.json

ghosts == <<cap, answered>>
vars == <<sharing, usage, usageFile, quota, quotaFile, call, setter, ghosts>>

Meter == [Members -> [total : Nat, rule : Nat]]

Quotas == [Members -> Limits \cup {0}]

NoUsage == [m \in Members |-> [total |-> 0, rule |-> 0]]

NoQuota == [m \in Members |-> 0]

Call == [step   : {"idle", "used", "quota", "resolve", "route", "chat", "record",
                   "save", "saving", "rule", "ruleSave", "ruleSaving"},
         member : Members \cup {None},
         asked  : Names \cup {None},
         used   : Nat,
         byRule : BOOLEAN,
         todo   : Seq(Names),
         model  : Names \cup {None},
         tokens : 0..MaxTokens,
         snap   : Meter]

NoCall == [step |-> "idle", member |-> None, asked |-> None, used |-> 0,
           byRule |-> FALSE, todo |-> <<>>, model |-> None, tokens |-> 0,
           snap |-> NoUsage]

Setter == [step : {"idle", "save", "saving"}, snap : Quotas]

NoSetter == [step |-> "idle", snap |-> NoQuota]

TypeOK ==
    /\ sharing \in BOOLEAN
    /\ usage \in Meter
    /\ usageFile \in Meter
    /\ quota \in Quotas
    /\ quotaFile \in Quotas
    /\ call \in [Clients -> Call]
    /\ \A c \in Clients : call[c].step # "idle" => call[c].member \in Members
    /\ setter \in [Setters -> Setter]
    /\ cap \in [Members -> Nat]
    /\ answered \in [Members -> Nat]

\* Where usage can end under limit l that came into force at usage u: every
\* request under way may have been admitted before, and adds one answer
Cap(l, u) == (IF l > u THEN l - 1 ELSE u) + MaxTokens * Cardinality(Clients)

Init ==
    /\ sharing = TRUE
    /\ usage = NoUsage /\ usageFile = NoUsage
    /\ quota = NoQuota /\ quotaFile = NoQuota
    /\ call = [c \in Clients |-> NoCall]
    /\ setter = [s \in Setters |-> NoSetter]
    /\ cap = [m \in Members |-> Cap(0, 0)]
    /\ answered = [m \in Members |-> 0]

(***************************************************************************)
(* A request up to the provider                                            *)
(***************************************************************************)
Tables == <<sharing, usage, usageFile, quota, quotaFile, setter, ghosts>>

\* Mutant: a request without a key goes on
Unverified(c) ==
    /\ call[c].step = "idle"
    /\ sharing
    /\ call' = [call EXCEPT ![c] = [NoCall EXCEPT !.step = "used"]]
    /\ UNCHANGED Tables

\* Sharing is on, and the key was verified; 503 and 401 change nothing
Request(c) ==
    /\ call[c].step = "idle"
    /\ sharing
    /\ \E m \in Members, a \in Names :
         /\ usage[m].total < MaxUsage
         /\ call' = [call EXCEPT ![c] = [NoCall EXCEPT !.step = "used", !.member = m,
                                                       !.asked = a]]
    /\ UNCHANGED Tables

\* usage.get and quota.check look at two tables
ReadUsed(c) ==
    /\ call[c].step = "used"
    /\ call' = [call EXCEPT ![c] = [@ EXCEPT !.step = "quota",
                                             !.used = usage[call[c].member].total]]
    /\ UNCHANGED Tables

\* Mutant: no limit is enforced
NeverExceeded(limit, used) == FALSE

Exceeded(limit, used) == limit > 0 /\ used >= limit

CheckQuota(c) ==
    /\ call[c].step = "quota"
    /\ call' = [call EXCEPT ![c] = IF Exceeded(quota[@.member], @.used) THEN NoCall
                                   ELSE [@ EXCEPT !.step = "resolve", !.used = 0]]
    /\ UNCHANGED Tables

\* The load policy refuses the text, or the body of /v1/messages is no JSON
Blocked(c) ==
    /\ call[c].step = "resolve"
    /\ call' = [call EXCEPT ![c] = NoCall]
    /\ UNCHANGED Tables

\* A rule set of that name gives the candidates, of which streams, and all of
\* /v1/messages, take the first and no other; any other name is taken for a
\* model's
Resolve(c) ==
    /\ call[c].step = "resolve"
    /\ \/ \E s \in Candidates : \E todo \in {s, <<Head(s)>>} :
            call' = [call EXCEPT ![c] = [@ EXCEPT !.step = "route", !.byRule = TRUE,
                                                  !.todo = todo]]
       \/ call' = [call EXCEPT ![c] = [@ EXCEPT !.step = "route",
                                                !.todo = <<call[c].asked>>]]
    /\ UNCHANGED Tables

\* Mutant: a candidate that failed is tried again
RetryForever(c) ==
    /\ call[c].step = "route" /\ call[c].todo # <<>>
    /\ call' = [call EXCEPT ![c].step = "chat", ![c].model = Head(call[c].todo)]
    /\ UNCHANGED Tables

\* The next candidate is routed to a back end ...
Route(c) ==
    /\ call[c].step = "route" /\ call[c].todo # <<>>
    /\ call' = [call EXCEPT ![c] = [@ EXCEPT !.step = "chat", !.model = Head(call[c].todo),
                                             !.todo = Tail(call[c].todo)]]
    /\ UNCHANGED Tables

\* ... or to none: the next one is tried, where there is a rule
NoRoute(c) ==
    /\ call[c].step = "route" /\ call[c].todo # <<>>
    /\ call' = [call EXCEPT ![c] = IF call[c].byRule
                                   THEN [@ EXCEPT !.todo = Tail(call[c].todo)]
                                   ELSE NoCall]
    /\ UNCHANGED Tables

\* All candidates failed: 502, or 500 without a rule
GiveUp(c) ==
    /\ call[c].step = "route" /\ call[c].todo = <<>>
    /\ call' = [call EXCEPT ![c] = NoCall]
    /\ UNCHANGED Tables

\* prepare_openai_upstream and anthropic_to_openai keep the name that was asked
\* for, and chat fills in a model only where there is none
Sent(c) == call[c].asked

\* The provider fails, does not answer in time, or answers what is no JSON
ChatFails(c) ==
    /\ call[c].step = "chat"
    /\ call' = [call EXCEPT ![c] = [@ EXCEPT !.step = "route", !.model = None]]
    /\ UNCHANGED Tables

\* The usage of an answer, which a stream of chunks may say in any of them or not
\* at all
Usages == 0..MaxTokens

\* Mutant: a rule's request is metered by rule set alone
RuleOnly(c) ==
    /\ call[c].step = "chat"
    /\ \E n \in Usages :
         call' = [call EXCEPT ![c] = [NoCall EXCEPT
             !.step = IF call[c].byRule THEN "rule" ELSE "record",
             !.member = call[c].member, !.byRule = call[c].byRule, !.tokens = n]]
    /\ UNCHANGED Tables

ChatAnswers(c) ==
    /\ call[c].step = "chat"
    /\ \E n \in Usages :
         call' = [call EXCEPT ![c] = [NoCall EXCEPT !.step = "record",
                                                    !.member = call[c].member,
                                                    !.byRule = call[c].byRule,
                                                    !.tokens = n]]
    /\ UNCHANGED Tables

\* The client hangs up, and its handler is dropped at the await
HangUp(c) ==
    /\ call[c].step = "chat"
    /\ call' = [call EXCEPT ![c] = NoCall]
    /\ UNCHANGED Tables

(***************************************************************************)
(* Metering: record, then record_rule for a rule's request                 *)
(***************************************************************************)

\* save holds its read guard while it writes the file
UsageUnread == \A c \in Clients : call[c].step \notin {"saving", "ruleSaving"}

\* Mutant: save copies the table and drops the lock before it writes
AddUnlocked(c, field, next) ==
    /\ usage' = [usage EXCEPT ![call[c].member][field] = @ + call[c].tokens]
    /\ call' = [call EXCEPT ![c].step = next]
    /\ UNCHANGED <<sharing, usageFile, quota, quotaFile, setter, ghosts>>

Add(c, field, next) ==
    /\ UsageUnread
    /\ usage' = [usage EXCEPT ![call[c].member][field] = @ + call[c].tokens]
    /\ call' = [call EXCEPT ![c].step = next]
    /\ UNCHANGED <<sharing, usageFile, quota, quotaFile, setter, ghosts>>

Record(c) == call[c].step = "record" /\ Add(c, "total", "save")

RecordRule(c) == call[c].step = "rule" /\ Add(c, "rule", "ruleSave")

\* fs::write cuts the file: read now, it would count for nothing ...
SaveBegin(c) ==
    /\ call[c].step \in {"save", "ruleSave"}
    /\ usageFile' = NoUsage
    /\ call' = [call EXCEPT ![c] = [@ EXCEPT
         !.step = IF call[c].step = "save" THEN "saving" ELSE "ruleSaving", !.snap = usage]]
    /\ UNCHANGED <<sharing, usage, quota, quotaFile, setter, ghosts>>

\* ... and writes it.  The answer is sent when the last of the two is saved.
SaveEnd(c) ==
    /\ call[c].step \in {"saving", "ruleSaving"}
    /\ usageFile' = call[c].snap
    /\ IF call[c].step = "saving" /\ call[c].byRule
       THEN /\ call' = [call EXCEPT ![c] = [@ EXCEPT !.step = "rule", !.snap = NoUsage]]
            /\ UNCHANGED answered
       ELSE /\ call' = [call EXCEPT ![c] = NoCall]
            /\ answered' = [answered EXCEPT ![call[c].member] = @ + call[c].tokens]
    /\ UNCHANGED <<sharing, usage, quota, quotaFile, setter, cap>>

(***************************************************************************)
(* POST /api/quota, pause and resume                                       *)
(***************************************************************************)
QuotaUnread == \A s \in Setters : setter[s].step # "saving"

\* Mutant: a limit that is lifted is not saved
LiftUnsaved(s) == \E m \in Members, l \in Limits \cup {0} :
    /\ setter[s].step = "idle"
    /\ QuotaUnread
    /\ quota' = [quota EXCEPT ![m] = l]
    /\ cap' = [cap EXCEPT ![m] = Cap(l, usage[m].total)]
    /\ setter' = [setter EXCEPT ![s].step = IF l = 0 THEN "idle" ELSE "save"]
    /\ UNCHANGED <<sharing, usage, usageFile, quotaFile, call, answered>>

SetQuota(s) == \E m \in Members, l \in Limits \cup {0} :
    /\ setter[s].step = "idle"
    /\ QuotaUnread
    /\ quota' = [quota EXCEPT ![m] = l]
    /\ cap' = [cap EXCEPT ![m] = Cap(l, usage[m].total)]
    /\ setter' = [setter EXCEPT ![s].step = "save"]
    /\ UNCHANGED <<sharing, usage, usageFile, quotaFile, call, answered>>

QuotaSaveBegin(s) ==
    /\ setter[s].step = "save"
    /\ quotaFile' = NoQuota
    /\ setter' = [setter EXCEPT ![s] = [step |-> "saving", snap |-> quota]]
    /\ UNCHANGED <<sharing, usage, usageFile, quota, call, ghosts>>

QuotaSaveEnd(s) ==
    /\ setter[s].step = "saving"
    /\ quotaFile' = setter[s].snap
    /\ setter' = [setter EXCEPT ![s] = NoSetter]
    /\ UNCHANGED <<sharing, usage, usageFile, quota, call, ghosts>>

PauseResume ==
    /\ sharing' = ~sharing
    /\ UNCHANGED <<usage, usageFile, quota, quotaFile, call, setter, ghosts>>

(***************************************************************************)
(* A crash, and the start that follows: both tables are loaded             *)
(***************************************************************************)
Restart ==
    /\ sharing' = TRUE
    /\ usage' = usageFile
    /\ quota' = quotaFile
    /\ call' = [c \in Clients |-> NoCall]
    /\ setter' = [s \in Setters |-> NoSetter]
    /\ cap' = [m \in Members |-> Cap(quotaFile[m], usageFile[m].total)]
    /\ answered' = [m \in Members |-> IF UsageUnread THEN answered[m] ELSE 0]
    /\ UNCHANGED <<usageFile, quotaFile>>

-----------------------------------------------------------------------------
\* The steps of a handler; messages has one candidate, and gives up with it
Proceed(c) ==
    \/ ReadUsed(c) \/ CheckQuota(c) \/ Blocked(c) \/ Resolve(c)
    \/ Route(c) \/ NoRoute(c) \/ GiveUp(c)
    \/ ChatFails(c) \/ ChatAnswers(c) \/ HangUp(c)
    \/ Record(c) \/ SaveBegin(c) \/ SaveEnd(c) \/ RecordRule(c)

QuotaStep(s) == SetQuota(s) \/ QuotaSaveBegin(s) \/ QuotaSaveEnd(s)

Next == \/ \E c \in Clients : Request(c) \/ Proceed(c)
        \/ \E s \in Setters : QuotaStep(s)
        \/ PauseResume
        \/ Restart

Spec == Init /\ [][Next]_vars

\* Handlers go on, the provider answers or times out, and a writer that waits
\* for the lock gets it: the lock lets no new reader pass a waiting writer.
Fairness == \A c \in Clients : /\ WF_vars(Proceed(c))
                               /\ SF_vars(Record(c) \/ RecordRule(c))

FairSpec == Spec /\ Fairness

(***************************************************************************)
(* Properties                                                              *)
(***************************************************************************)

\* Quota: check and record are far apart, so a member can go past its limit,
\* but by one answer for each request under way and no more; one that was past
\* it when the limit was set can add no more than that either.
QuotaCap == \A m \in Members : quota[m] # 0 => usage[m].total <= cap[m]

\* The tokens metered by rule set are part of those of the member, whatever
\* crash comes between the two records.
RulePartOfTotal == \A m \in Members : usage[m].rule <= usage[m].total

\* What a member was answered is metered for good, over crashes too, but for a
\* crash in the middle of writing usage.json.
AnsweredIsMetered == \A m \in Members : answered[m] <= usage[m].total

\* A limit that was set survives a crash: when no save is pending the file holds
\* the limits in force.
QuotaDurable == (\A s \in Setters : setter[s].step = "idle") => quotaFile = quota

\* Every request is answered, whatever others and the administrator do.
EveryRequestEnds == \A c \in Clients : call[c].step # "idle" ~> call[c].step = "idle"

\* The name of a rule set is not passed to the provider as a model: the provider
\* is asked for the candidate.
CandidateIsSent == \A c \in Clients : call[c].step = "chat" => Sent(c) = call[c].model
=============================================================================
