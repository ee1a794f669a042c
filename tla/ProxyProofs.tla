---------------------------- MODULE ProxyProofs ----------------------------
(***************************************************************************)
(* Proofs about Proxy: its types, that limits survive a crash, that a      *)
(* member overshoots its limit by no more than the answers under way, and  *)
(* that what was answered is metered, of which the rules' is a part.       *)
(***************************************************************************)
EXTENDS Proxy, FiniteSetTheorems, TLAPS

Early == {"used", "quota", "resolve"}

\* What the types need beside TypeOK, of one call: a call that is not resolved
\* yet names something
CallOK(k) == /\ k \in Call
             /\ k.step # "idle" => k.member \in Members
             /\ k.step \in Early => k.asked \in Names

Typed == TypeOK /\ \A c \in Clients : CallOK(call[c])

-----------------------------------------------------------------------------
LEMMA NoCallTyped == CallOK(NoCall) /\ NoUsage \in Meter /\ NoQuota \in Quotas
BY ProxyConstants DEF CallOK, NoCall, Call, NoUsage, NoQuota, Meter, Quotas, Early

LEMMA CapTyped == \A l, u \in Nat : Cap(l, u) \in Nat
BY ProxyConstants, FS_CardinalityType DEF Cap

LEMMA SeqParts ==
    ASSUME NEW S, NEW s \in Seq(S), s # <<>>
    PROVE  Head(s) \in S /\ Tail(s) \in Seq(S)
OBVIOUS

LEMMA SeqOfOne == ASSUME NEW S, NEW x \in S PROVE <<x>> \in Seq(S)
OBVIOUS

LEMMA InitTyped == Init => Typed
<1> SUFFICES ASSUME Init PROVE Typed
  OBVIOUS
<1>1. NoSetter \in Setter
  BY NoCallTyped DEF NoSetter, Setter
<1> QED
  BY <1>1, CapTyped, NoCallTyped DEF Init, TypeOK, Typed, NoCall, CallOK

\* A step that changes one call, into one that is well typed, and nothing else
LEMMA CallTyped ==
    ASSUME Typed, NEW c \in Clients, NEW r, CallOK(r),
           call' = [call EXCEPT ![c] = r], UNCHANGED Tables
    PROVE  Typed'
BY DEF TypeOK, Typed, CallOK, Tables, ghosts

LEMMA RequestTyped == ASSUME Typed, NEW c \in Clients, Request(c) PROVE Typed'
<1>1. PICK m \in Members, a \in Names :
         call' = [call EXCEPT ![c] = [NoCall EXCEPT !.step = "used", !.member = m,
                                                    !.asked = a]]
  BY DEF Request
<1>2. CallOK([NoCall EXCEPT !.step = "used", !.member = m, !.asked = a])
  BY NoCallTyped DEF Call, NoCall, CallOK
<1>3. UNCHANGED Tables
  BY DEF Request
<1> QED
  BY <1>1, <1>2, <1>3, CallTyped

LEMMA WaitTyped ==
    ASSUME Typed, NEW c \in Clients,
           \/ ReadUsed(c) \/ CheckQuota(c) \/ Blocked(c) \/ Resolve(c)
           \/ Route(c) \/ NoRoute(c) \/ GiveUp(c)
           \/ ChatFails(c) \/ ChatAnswers(c) \/ HangUp(c)
    PROVE  Typed'
<1> DEFINE k == call[c]
<1>0. CallOK(k)
  BY DEF Typed
<1>1. CASE ReadUsed(c)
  <2>1. CallOK([k EXCEPT !.step = "quota", !.used = usage[k.member].total])
    BY <1>0, <1>1 DEF ReadUsed, Typed, TypeOK, Call, Meter, CallOK, Early
  <2> QED
    BY <1>1, <2>1, CallTyped DEF ReadUsed
<1>2. CASE CheckQuota(c)
  <2>1. CallOK([k EXCEPT !.step = "resolve", !.used = 0])
    BY <1>0, <1>2 DEF Call, CallOK, Early, CheckQuota
  <2> QED
    BY <1>2, <2>1, NoCallTyped, CallTyped DEF CheckQuota
<1>3. CASE Blocked(c) \/ GiveUp(c) \/ HangUp(c)
  BY <1>3, NoCallTyped, CallTyped DEF Blocked, GiveUp, HangUp
<1>4. CASE Resolve(c)
  <2>1. ASSUME NEW s \in Candidates, NEW todo \in {s, <<Head(s)>>},
               call' = [call EXCEPT ![c] = [@ EXCEPT !.step = "route", !.byRule = TRUE,
                                                     !.todo = todo]]
        PROVE  Typed'
    <3>1. todo \in Seq(Names)
      <4>1. s \in Seq(Names) /\ s # <<>>
        BY ProxyConstants
      <4>2. <<Head(s)>> \in Seq(Names)
        BY <4>1, SeqParts, SeqOfOne
      <4> QED
        BY <4>1, <4>2
    <3>2. CallOK([k EXCEPT !.step = "route", !.byRule = TRUE, !.todo = todo])
      BY <1>0, <1>4, <3>1 DEF Call, CallOK, Early, Resolve
    <3> QED
      BY <1>4, <2>1, <3>2, CallTyped DEF Resolve
  <2>2. ASSUME call' = [call EXCEPT ![c] = [@ EXCEPT !.step = "route",
                                                     !.todo = <<call[c].asked>>]]
        PROVE  Typed'
    <3>0. <<k.asked>> \in Seq(Names)
      BY <1>0, <1>4, SeqOfOne DEF CallOK, Early, Resolve
    <3>1. CallOK([k EXCEPT !.step = "route", !.todo = <<k.asked>>])
      BY <1>0, <1>4, <3>0 DEF Call, CallOK, Early, Resolve
    <3> QED
      BY <1>4, <2>2, <3>1, CallTyped DEF Resolve
  <2> QED
    BY <1>4, <2>1, <2>2 DEF Resolve
<1>5. CASE Route(c)
  <2>1. Head(k.todo) \in Names /\ Tail(k.todo) \in Seq(Names)
    BY <1>0, <1>5, SeqParts DEF Route, Call, CallOK
  <2>2. CallOK([k EXCEPT !.step = "chat", !.model = Head(k.todo), !.todo = Tail(k.todo)])
    BY <1>0, <1>5, <2>1 DEF Call, CallOK, Early, Route
  <2>3. call' = [call EXCEPT ![c] = [k EXCEPT !.step = "chat", !.model = Head(k.todo),
                                              !.todo = Tail(k.todo)]]
    BY <1>5, Zenon DEF Route
  <2> QED
    BY <1>5, <2>2, <2>3, CallTyped DEF Route
<1>6. CASE NoRoute(c)
  <2>1. Tail(k.todo) \in Seq(Names)
    BY <1>0, <1>6, SeqParts DEF NoRoute, Call, CallOK
  <2>2. CallOK([k EXCEPT !.todo = Tail(k.todo)])
    BY <1>0, <1>6, <2>1 DEF Call, CallOK, Early, NoRoute
  <2>3. \/ call' = [call EXCEPT ![c] = [k EXCEPT !.todo = Tail(k.todo)]]
        \/ call' = [call EXCEPT ![c] = NoCall]
    BY <1>6, Zenon DEF NoRoute
  <2> QED
    BY <1>6, <2>2, <2>3, NoCallTyped, CallTyped DEF NoRoute
<1>7. CASE ChatFails(c)
  <2>1. CallOK([k EXCEPT !.step = "route", !.model = None])
    BY <1>0, <1>7 DEF Call, CallOK, Early, ChatFails
  <2> QED
    BY <1>7, <2>1, CallTyped DEF ChatFails
<1>8. CASE ChatAnswers(c)
  <2>1. PICK n \in 0..MaxTokens :
           call' = [call EXCEPT ![c] = [NoCall EXCEPT !.step = "record",
                                                      !.member = call[c].member,
                                                      !.byRule = call[c].byRule,
                                                      !.tokens = n]]
    BY <1>8 DEF ChatAnswers, Usages
  <2>2. CallOK([NoCall EXCEPT !.step = "record", !.member = k.member,
                              !.byRule = k.byRule, !.tokens = n])
    BY <1>0, <1>8, NoCallTyped DEF Call, CallOK, Early, ChatAnswers, NoCall
  <2> QED
    BY <1>8, <2>1, <2>2, CallTyped DEF ChatAnswers
<1> QED
  BY <1>1, <1>2, <1>3, <1>4, <1>5, <1>6, <1>7, <1>8

\* One counter of one member grows
LEMMA AddTyped ==
    ASSUME Typed, NEW c \in Clients, call[c].step # "idle",
           NEW field \in {"total", "rule"}, NEW next \in {"save", "ruleSave"},
           Add(c, field, next)
    PROVE  Typed'
<1> DEFINE k == call[c]  m == k.member  u == usage[m]
<1>1. CallOK(k) /\ m \in Members /\ k.tokens \in Nat /\ u \in [total : Nat, rule : Nat]
  BY ProxyConstants DEF Typed, TypeOK, CallOK, Call, Meter
<1>2. CallOK([k EXCEPT !.step = next])
  BY <1>1 DEF CallOK, Call, Early
<1>3. usage' = [usage EXCEPT ![m] = [u EXCEPT ![field] = u[field] + k.tokens]]
  BY DEF Add
<1>4. usage' \in Meter
  <2>1. [u EXCEPT ![field] = u[field] + k.tokens] \in [total : Nat, rule : Nat]
    BY <1>1
  <2> QED
    BY <1>1, <1>3, <2>1 DEF Typed, TypeOK, Meter
<1>5. call' = [call EXCEPT ![c] = [k EXCEPT !.step = next]]
  BY DEF Add
<1> QED
  BY <1>2, <1>4, <1>5 DEF Typed, TypeOK, CallOK, Add, ghosts

LEMMA SaveBeginTyped == ASSUME Typed, NEW c \in Clients, SaveBegin(c) PROVE Typed'
<1> DEFINE k == call[c]
           new == [k EXCEPT !.step = IF k.step = "save" THEN "saving" ELSE "ruleSaving",
                            !.snap = usage]
<1>1. CallOK(new)
  BY DEF Typed, TypeOK, CallOK, Call, Early, SaveBegin
<1>2. call' = [call EXCEPT ![c] = new]
  BY DEF SaveBegin
<1> QED
  BY <1>1, <1>2, NoCallTyped DEF Typed, TypeOK, CallOK, SaveBegin, ghosts

LEMMA SaveEndTyped == ASSUME Typed, NEW c \in Clients, SaveEnd(c) PROVE Typed'
<1> DEFINE k == call[c]
           rule == [k EXCEPT !.step = "rule", !.snap = NoUsage]
<1>1. CallOK(k) /\ k.member \in Members /\ k.snap \in Meter /\ k.tokens \in Nat
  BY ProxyConstants DEF Typed, TypeOK, CallOK, Call, SaveEnd
<1>2. CallOK(rule)
  BY <1>1, NoCallTyped DEF CallOK, Call, Early
<1>3. CASE call' = [call EXCEPT ![c] = rule] /\ UNCHANGED answered
  BY <1>1, <1>2, <1>3 DEF Typed, TypeOK, CallOK, SaveEnd
<1>4. CASE /\ call' = [call EXCEPT ![c] = NoCall]
           /\ answered' = [answered EXCEPT ![k.member] = @ + k.tokens]
  BY <1>1, <1>4, NoCallTyped DEF Typed, TypeOK, CallOK, SaveEnd
<1> QED
  BY <1>3, <1>4 DEF SaveEnd

LEMMA QuotaTyped ==
    ASSUME Typed, NEW s \in Setters, QuotaStep(s)
    PROVE  Typed'
<1>1. CASE SetQuota(s)
  <2>1. PICK m \in Members, l \in Limits \cup {0} :
           /\ quota' = [quota EXCEPT ![m] = l]
           /\ cap' = [cap EXCEPT ![m] = Cap(l, usage[m].total)]
           /\ setter' = [setter EXCEPT ![s].step = "save"]
           /\ UNCHANGED <<sharing, usage, usageFile, quotaFile, call, answered>>
    BY <1>1 DEF SetQuota
  <2>2. l \in Nat /\ usage[m].total \in Nat
    BY ProxyConstants DEF Typed, TypeOK, Meter
  <2>3. Cap(l, usage[m].total) \in Nat
    BY <2>2, CapTyped
  <2> QED
    BY <2>1, <2>3 DEF Typed, TypeOK, Quotas, Setter
<1>2. CASE QuotaSaveBegin(s)
  BY <1>2, NoCallTyped DEF QuotaSaveBegin, Typed, TypeOK, Quotas, Setter, ghosts
<1>3. CASE QuotaSaveEnd(s)
  BY <1>3, NoCallTyped DEF QuotaSaveEnd, Typed, TypeOK, NoSetter, Setter, ghosts
<1> QED
  BY <1>1, <1>2, <1>3 DEF QuotaStep

LEMMA RestartTyped == ASSUME Typed, Restart PROVE Typed'
<1>1. \A m \in Members : Cap(quotaFile[m], usageFile[m].total) \in Nat
  BY CapTyped, ProxyConstants DEF Typed, TypeOK, Quotas, Meter
<1>2. NoSetter \in Setter
  BY NoCallTyped DEF NoSetter, Setter
<1> QED
  BY <1>1, <1>2, NoCallTyped DEF Restart, Typed, TypeOK, CallOK, NoCall

LEMMA StepTyped == Typed /\ [Next]_vars => Typed'
<1> SUFFICES ASSUME Typed, [Next]_vars PROVE Typed'
  OBVIOUS
<1>1. ASSUME NEW c \in Clients, Request(c) \/ Proceed(c) PROVE Typed'
  <2>1. CASE Record(c)
    BY <2>1, AddTyped DEF Record
  <2>2. CASE RecordRule(c)
    BY <2>2, AddTyped DEF RecordRule
  <2> QED
    BY <1>1, <2>1, <2>2, RequestTyped, WaitTyped, SaveBeginTyped, SaveEndTyped DEF Proceed
<1>2. CASE PauseResume
  BY <1>2 DEF PauseResume, Typed, TypeOK, ghosts
<1>3. CASE UNCHANGED vars
  BY <1>3 DEF vars, Typed, TypeOK, ghosts
<1> QED
  BY <1>1, <1>2, <1>3, QuotaTyped, RestartTyped DEF Next

\* TypeOK, for every instance: whatever the interleaving of requests, limits and
\* crashes, a call that goes on has a verified member, and what it sends on a name
THEOREM ProxyTypes == Spec => []TypeOK
<1>1. Typed => TypeOK
  BY DEF Typed
<1> QED
  BY <1>1, InitTyped, StepTyped, PTL DEF Spec

-----------------------------------------------------------------------------
(***************************************************************************)
(* QuotaDurable.  By the read guard the table does not change while a save *)
(* writes its copy, so the copy is the table: SavesCopy.                   *)
(***************************************************************************)
SavesCopy == \A s \in Setters : setter[s].step = "saving" => setter[s].snap = quota

FileInv == SavesCopy /\ QuotaDurable

LEMMA FileKept == Typed /\ FileInv /\ [Next]_vars => FileInv'
<1> SUFFICES ASSUME Typed, FileInv, [Next]_vars PROVE FileInv'
  OBVIOUS
<1> USE DEF FileInv, SavesCopy, QuotaDurable
<1>1. CASE UNCHANGED <<quota, quotaFile, setter>>
  BY <1>1
<1>2. ASSUME NEW c \in Clients, Request(c) \/ Proceed(c)
      PROVE  UNCHANGED <<quota, quotaFile, setter>>
  BY <1>2 DEF Request, Proceed, Tables, ReadUsed, CheckQuota, Blocked, Resolve, Route,
     NoRoute, GiveUp, ChatFails, ChatAnswers, HangUp, Record, RecordRule, Add,
     SaveBegin, SaveEnd
<1>3. ASSUME NEW s \in Setters, SetQuota(s) PROVE FileInv'
  <2>1. setter'[s].step = "save" /\ \A o \in Setters : setter'[o].step # "saving"
    BY <1>3 DEF SetQuota, QuotaUnread, Typed, TypeOK, Setter
  <2> QED
    BY <2>1
<1>4. ASSUME NEW s \in Setters, QuotaSaveBegin(s) PROVE FileInv'
  BY <1>4 DEF QuotaSaveBegin, Typed, TypeOK, Setter
<1>5. ASSUME NEW s \in Setters, QuotaSaveEnd(s) PROVE FileInv'
  BY <1>5 DEF QuotaSaveEnd, Typed, TypeOK, Setter, NoSetter
<1>6. CASE Restart
  BY <1>6 DEF Restart, NoSetter
<1> QED
  BY <1>1, <1>2, <1>3, <1>4, <1>5, <1>6 DEF Next, QuotaStep, PauseResume, vars

\* QuotaDurable, for any number of administrators at once: when no save is
\* pending, quota.json holds the limits in force
THEOREM LimitsSurvive == Spec => []QuotaDurable
<1>1. Init => FileInv
  BY DEF Init, FileInv, SavesCopy, QuotaDurable, NoSetter
<1>2. FileInv => QuotaDurable
  BY DEF FileInv
<1> QED
  BY <1>1, <1>2, InitTyped, StepTyped, FileKept, PTL DEF Spec

-----------------------------------------------------------------------------
(***************************************************************************)
(* QuotaCap.  It is not inductive: what counts is the usage together with  *)
(* the answers that are still to come, one for each call that has passed   *)
(* the check of the quota, or is about to.                                 *)
(***************************************************************************)
Passed(c) == \/ call[c].step \in {"resolve", "route", "chat", "record"}
             \/ call[c].step = "quota" /\ ~Exceeded(quota[call[c].member], call[c].used)

Admitted(m) == {c \in Clients : call[c].member = m /\ Passed(c)}

\* The second conjunct has room for one more to pass, as long as the usage is
\* below the limit
Within(m) == quota[m] # 0 =>
    /\ usage[m].total + MaxTokens * Cardinality(Admitted(m)) <= cap[m]
    /\ quota[m] - 1 + MaxTokens * Cardinality(Clients) <= cap[m]

CapInv == \A m \in Members : Within(m)

LEMMA LimitsAreNat == Typed => \A n \in Members : quota[n] \in Nat
<1>1. Typed => quota \in [Members -> Limits \cup {0}]
  BY DEF Typed, TypeOK, Quotas
<1>2. Limits \cup {0} \subseteq Nat
  BY ProxyConstants
<1> QED
  BY <1>1, <1>2

LEMMA Monotone ==
    ASSUME NEW i \in Nat, NEW j \in Nat, i <= j
    PROVE  MaxTokens * i <= MaxTokens * j /\ MaxTokens * i \in Nat
BY ProxyConstants

LEMMA OneMore ==
    \A i, j \in Nat : j = i - 1 => MaxTokens * i = MaxTokens * j + MaxTokens
BY ProxyConstants

LEMMA Counted == ASSUME NEW S \in SUBSET Clients
                 PROVE  /\ IsFiniteSet(S) /\ Cardinality(S) \in Nat
                        /\ Cardinality(Clients) \in Nat
                        /\ Cardinality(S) <= Cardinality(Clients)
BY ProxyConstants, FS_Subset, FS_CardinalityType

\* A step that admits nobody, and changes no limit and no usage
LEMMA NobodyEnters ==
    ASSUME Typed, NEW m \in Members, Within(m), UNCHANGED <<usage, quota, cap>>,
           Admitted(m)' \subseteq Admitted(m)
    PROVE  Within(m)'
<1>1. /\ Cardinality(Admitted(m)) \in Nat /\ Cardinality(Admitted(m)') \in Nat
      /\ Cardinality(Admitted(m)') <= Cardinality(Admitted(m))
  BY FS_Subset, FS_CardinalityType, Counted DEF Admitted
<1>2. /\ MaxTokens * Cardinality(Admitted(m)') <= MaxTokens * Cardinality(Admitted(m))
      /\ MaxTokens * Cardinality(Admitted(m)') \in Nat
      /\ MaxTokens * Cardinality(Admitted(m)) \in Nat
  BY <1>1, Monotone
<1>3. usage[m].total \in Nat /\ cap[m] \in Nat
  BY DEF Typed, TypeOK, Meter
<1>4. quota'[m] = quota[m] /\ usage'[m] = usage[m] /\ cap'[m] = cap[m]
  OBVIOUS
<1> HIDE DEF Admitted
<1> QED
  BY <1>2, <1>3, <1>4 DEF Within

\* A step of one call that neither changes limits or usage nor passes the check
LEMMA GoesOn ==
    ASSUME Typed, CapInv, NEW c \in Clients, UNCHANGED <<usage, quota, cap>>,
           \A d \in Clients \ {c} : call'[d] = call[d],
           Passed(c)' => Passed(c) /\ call'[c].member = call[c].member
    PROVE  CapInv'
<1> SUFFICES ASSUME NEW m \in Members PROVE Within(m)'
  BY DEF CapInv
<1>1. \A d \in Clients \ {c} : Passed(d)' <=> Passed(d)
  BY DEF Passed
<1>2. Admitted(m)' \subseteq Admitted(m)
  BY <1>1 DEF Admitted
<1> QED
  BY <1>2, NobodyEnters DEF CapInv

\* A call that passes has seen a usage below the limit, so the second conjunct of
\* Within pays for it
LEMMA ReadUsedCap ==
    ASSUME Typed, CapInv, NEW c \in Clients, ReadUsed(c) PROVE CapInv'
<1> DEFINE m == call[c].member
<1>1. /\ UNCHANGED <<usage, quota, cap>>
      /\ \A d \in Clients \ {c} : call'[d] = call[d]
      /\ call'[c].step = "quota" /\ call'[c].member = m
      /\ call'[c].used = usage[m].total
      /\ m \in Members
  BY DEF ReadUsed, Tables, ghosts, Typed, TypeOK, Call
<1>2. CASE ~Passed(c)'
  BY <1>1, <1>2, GoesOn
<1>3. CASE Passed(c)'
  <2> SUFFICES ASSUME NEW n \in Members, quota'[n] # 0 PROVE Within(n)'
    BY DEF CapInv, Within
  <2>1. CASE n # m
    <3>1. \A d \in Clients \ {c} : Passed(d)' <=> Passed(d)
      BY <1>1 DEF Passed
    <3>2. Admitted(n)' \subseteq Admitted(n)
      BY <1>1, <2>1, <3>1 DEF Admitted
    <3> QED
      BY <1>1, <3>2, NobodyEnters DEF CapInv
  <2>2. CASE n = m
    <3>1. usage[n].total \in Nat /\ cap[n] \in Nat /\ quota[n] \in Nat
      BY <1>1, ProxyConstants DEF Typed, TypeOK, Meter, Quotas
    <3>2. usage[n].total <= quota[n] - 1
      BY <1>1, <1>3, <2>2, <3>1 DEF Passed, Exceeded
    <3>3. quota[n] - 1 + MaxTokens * Cardinality(Clients) <= cap[n]
      BY <1>1 DEF CapInv, Within
    <3>4. /\ Cardinality(Admitted(n)') \in Nat /\ Cardinality(Clients) \in Nat
          /\ Cardinality(Admitted(n)') <= Cardinality(Clients)
      BY Counted DEF Admitted
    <3>5. /\ MaxTokens * Cardinality(Admitted(n)') <= MaxTokens * Cardinality(Clients)
          /\ MaxTokens * Cardinality(Admitted(n)') \in Nat
          /\ MaxTokens * Cardinality(Clients) \in Nat
      BY <3>4, Monotone
    <3> HIDE DEF Admitted
    <3> QED
      BY <1>1, <3>1, <3>2, <3>3, <3>5 DEF Within
  <2> QED
    BY <2>1, <2>2
<1> QED
  BY <1>2, <1>3

\* A call that records uses up its own share
LEMMA RecordCap ==
    ASSUME Typed, CapInv, NEW c \in Clients, Record(c) PROVE CapInv'
<1> DEFINE m == call[c].member  t == call[c].tokens
<1>1. /\ m \in Members /\ t \in 0..MaxTokens
      /\ \A n \in Members : usage[n].total \in Nat /\ cap[n] \in Nat /\ quota[n] \in Nat
  <2>1. m \in Members /\ t \in 0..MaxTokens
    BY DEF Record, Typed, CallOK, Call
  <2>2. \A n \in Members : usage[n].total \in Nat /\ cap[n] \in Nat
    BY DEF Typed, TypeOK, Meter
  <2> QED
    BY <2>1, <2>2, LimitsAreNat
<1>2. /\ UNCHANGED <<quota, cap>>
      /\ usage'[m].total = usage[m].total + t
      /\ \A n \in Members \ {m} : usage'[n] = usage[n]
      /\ \A d \in Clients \ {c} : call'[d] = call[d]
      /\ call'[c].step = "save" /\ call[c].step = "record"
  BY <1>1 DEF Record, Add, ghosts, Typed, TypeOK, Call, Meter
<1>3. \A d \in Clients \ {c} : Passed(d)' <=> Passed(d)
  BY <1>2 DEF Passed
<1>4. Passed(c) /\ ~Passed(c)'
  BY <1>2 DEF Passed
<1> SUFFICES ASSUME NEW n \in Members, quota'[n] # 0 PROVE Within(n)'
  BY DEF CapInv, Within
<1>5. /\ usage[n].total + MaxTokens * Cardinality(Admitted(n)) <= cap[n]
      /\ quota[n] - 1 + MaxTokens * Cardinality(Clients) <= cap[n]
  BY <1>2 DEF CapInv, Within
<1>6. Admitted(n)' = Admitted(n) \ {c}
  BY <1>2, <1>3, <1>4 DEF Admitted
<1>7. IsFiniteSet(Admitted(n)) /\ Cardinality(Admitted(n)) \in Nat
  BY Counted DEF Admitted
<1>8. CASE n = m
  <2>1. c \in Admitted(n)
    BY <1>4, <1>8 DEF Admitted
  <2>2. /\ Cardinality(Admitted(n)') = Cardinality(Admitted(n)) - 1
        /\ Cardinality(Admitted(n)') \in Nat
    BY <1>6, <1>7, <2>1, FS_RemoveElement, FS_CardinalityType
  <2>3. MaxTokens * Cardinality(Admitted(n))
           = MaxTokens * Cardinality(Admitted(n)') + MaxTokens
    <3> HIDE DEF Admitted
    <3> QED
      BY <1>7, <2>2, OneMore
  <2>4. MaxTokens * Cardinality(Admitted(n)') \in Nat
    BY <2>2, Monotone
  <2> HIDE DEF Admitted
  <2> QED
    BY <1>1, <1>2, <1>5, <1>8, <2>3, <2>4, ProxyConstants DEF Within
<1>9. CASE n # m
  <2>1. /\ Cardinality(Admitted(n)') \in Nat
        /\ Cardinality(Admitted(n)') <= Cardinality(Admitted(n))
    BY <1>6, <1>7, FS_RemoveElement, FS_CardinalityType
  <2>2. /\ MaxTokens * Cardinality(Admitted(n)') <= MaxTokens * Cardinality(Admitted(n))
        /\ MaxTokens * Cardinality(Admitted(n)') \in Nat
        /\ MaxTokens * Cardinality(Admitted(n)) \in Nat
    BY <1>7, <2>1, Monotone
  <2> HIDE DEF Admitted
  <2> QED
    BY <1>1, <1>2, <1>5, <1>9, <2>2 DEF Within
<1> QED
  BY <1>8, <1>9

\* A limit that is set starts with room for every request under way
LEMMA CapSuffices ==
    ASSUME NEW l \in Nat, NEW u \in Nat, l # 0, NEW S \in SUBSET Clients
    PROVE  /\ u + MaxTokens * Cardinality(S) <= Cap(l, u)
           /\ l - 1 + MaxTokens * Cardinality(Clients) <= Cap(l, u)
<1>1. /\ MaxTokens * Cardinality(S) <= MaxTokens * Cardinality(Clients)
      /\ MaxTokens * Cardinality(S) \in Nat
      /\ MaxTokens * Cardinality(Clients) \in Nat
  BY Counted, Monotone
<1> QED
  BY <1>1 DEF Cap

LEMMA SetQuotaCap ==
    ASSUME Typed, CapInv, NEW s \in Setters, SetQuota(s) PROVE CapInv'
<1>1. PICK m \in Members, l \in Limits \cup {0} :
         /\ quota' = [quota EXCEPT ![m] = l]
         /\ cap' = [cap EXCEPT ![m] = Cap(l, usage[m].total)]
         /\ UNCHANGED <<usage, call>>
  BY DEF SetQuota
<1> SUFFICES ASSUME NEW n \in Members, quota'[n] # 0 PROVE Within(n)'
  BY DEF CapInv, Within
<1>2. CASE n = m
  <2>1. /\ l \in Nat /\ usage[n].total \in Nat /\ usage' = usage
        /\ quota'[n] = l /\ cap'[n] = Cap(l, usage[n].total)
    BY <1>1, <1>2, ProxyConstants DEF Typed, TypeOK, Meter, Quotas
  <2>2. Admitted(n)' \in SUBSET Clients
    BY DEF Admitted
  <2> HIDE DEF Admitted
  <2> QED
    BY <2>1, <2>2, CapSuffices DEF Within
<1>3. CASE n # m
  <2>1. /\ quota'[n] = quota[n] /\ cap'[n] = cap[n] /\ usage' = usage
        /\ Within(n)
    BY <1>1, <1>3 DEF Typed, TypeOK, Quotas, CapInv
  <2>2. \A c \in Clients : call[c].member = n => (Passed(c)' <=> Passed(c))
    BY <1>1, <2>1 DEF Passed
  <2>3. Admitted(n)' = Admitted(n)
    BY <1>1, <2>2 DEF Admitted
  <2> QED
    BY <2>1, <2>3 DEF Within
<1> QED
  BY <1>2, <1>3

LEMMA RestartCap == ASSUME Typed, Restart PROVE CapInv'
<1> SUFFICES ASSUME NEW m \in Members, quota'[m] # 0 PROVE Within(m)'
  BY DEF CapInv, Within
<1>1. /\ quota'[m] \in Nat /\ usage'[m].total \in Nat
      /\ cap'[m] = Cap(quota'[m], usage'[m].total)
  BY ProxyConstants DEF Restart, Typed, TypeOK, Meter, Quotas
<1>2. Admitted(m)' \in SUBSET Clients
  BY DEF Admitted
<1> HIDE DEF Admitted
<1> QED
  BY <1>1, <1>2, CapSuffices DEF Within

LEMMA CapKept == Typed /\ CapInv /\ [Next]_vars => CapInv'
<1> SUFFICES ASSUME Typed, CapInv, [Next]_vars PROVE CapInv'
  OBVIOUS
<1>1. ASSUME UNCHANGED <<usage, quota, cap, call>> PROVE CapInv'
  BY <1>1 DEF CapInv, Within, Admitted, Passed
<1>2. ASSUME NEW c \in Clients, Request(c) \/ Proceed(c) PROVE CapInv'
  <2>1. CASE \/ Request(c) \/ CheckQuota(c) \/ Blocked(c) \/ Resolve(c)
             \/ Route(c) \/ NoRoute(c) \/ GiveUp(c)
             \/ ChatFails(c) \/ ChatAnswers(c) \/ HangUp(c)
    <3>1. UNCHANGED <<usage, quota, cap>>
      BY <2>1 DEF Request, CheckQuota, Blocked, Resolve, Route, NoRoute, GiveUp,
         ChatFails, ChatAnswers, HangUp, Tables, ghosts
    <3>2. \A d \in Clients \ {c} : call'[d] = call[d]
      BY <2>1 DEF Request, CheckQuota, Blocked, Resolve, Route, NoRoute, GiveUp,
         ChatFails, ChatAnswers, HangUp, Typed, TypeOK
    <3>3. Passed(c)' => Passed(c) /\ call'[c].member = call[c].member
      <4>0. call[c] \in Call /\ c \in DOMAIN call
        BY DEF Typed, TypeOK
      <4>1. CASE Request(c)
        BY <4>1 DEF Request, Passed, NoCall, Typed, TypeOK
      <4>2. CASE CheckQuota(c)
        BY <4>2 DEF CheckQuota, Passed, NoCall, Typed, TypeOK, CallOK, Call
      <4>3. CASE Blocked(c) \/ GiveUp(c) \/ HangUp(c)
        <5>1. call'[c].step = "idle"
          BY <4>0, <4>3 DEF Blocked, GiveUp, HangUp, NoCall
        <5> QED
          BY <5>1 DEF Passed
      <4>4. CASE Resolve(c)
        <5>1. call[c].step = "resolve" /\ call'[c].member = call[c].member
          BY <4>0, <4>4 DEF Resolve, Call
        <5> QED
          BY <5>1 DEF Passed
      <4>5. CASE Route(c)
        <5>1. call[c].step = "route" /\ call'[c].member = call[c].member
          BY <4>0, <4>5 DEF Route, Call
        <5> QED
          BY <5>1 DEF Passed
      <4>6. CASE NoRoute(c)
        <5>1. /\ call[c].step = "route"
              /\ call'[c].step = "idle" \/ call'[c].member = call[c].member
          BY <4>0, <4>6 DEF NoRoute, Call, NoCall
        <5> QED
          BY <5>1 DEF Passed
      <4>7. CASE ChatFails(c)
        <5>1. call[c].step = "chat" /\ call'[c].member = call[c].member
          BY <4>0, <4>7 DEF ChatFails, Call
        <5> QED
          BY <5>1 DEF Passed
      <4>8. CASE ChatAnswers(c)
        <5>1. call[c].step = "chat" /\ call'[c].member = call[c].member
          BY <4>0, <4>8 DEF ChatAnswers, NoCall
        <5> QED
          BY <5>1 DEF Passed
      <4> QED
        BY <2>1, <4>1, <4>2, <4>3, <4>4, <4>5, <4>6, <4>7, <4>8
    <3> QED
      BY <3>1, <3>2, <3>3, GoesOn
  <2>2. CASE SaveBegin(c) \/ SaveEnd(c)
    <3>1. UNCHANGED <<usage, quota, cap>>
      BY <2>2 DEF SaveBegin, SaveEnd, ghosts
    <3>2. \A d \in Clients \ {c} : call'[d] = call[d]
      BY <2>2 DEF SaveBegin, SaveEnd, Typed, TypeOK
    <3>3. ~Passed(c)'
      <4>0. call[c] \in Call /\ c \in DOMAIN call
        BY DEF Typed, TypeOK
      <4>1. CASE SaveBegin(c)
        <5>1. call'[c].step \in {"saving", "ruleSaving"}
          BY <4>0, <4>1 DEF SaveBegin, Call
        <5> QED
          BY <5>1 DEF Passed
      <4>2. CASE SaveEnd(c)
        <5>1. \/ call' = [call EXCEPT ![c] = [call[c] EXCEPT !.step = "rule",
                                                            !.snap = NoUsage]]
              \/ call' = [call EXCEPT ![c] = NoCall]
          BY <4>2, Zenon DEF SaveEnd
        <5>2. NoCall.step = "idle"
          BY DEF NoCall
        <5>3. call'[c].step \in {"rule", "idle"}
          BY <4>0, <5>1, <5>2 DEF Call
        <5> QED
          BY <5>3 DEF Passed
      <4> QED
        BY <2>2, <4>1, <4>2
    <3> QED
      BY <3>1, <3>2, <3>3, GoesOn
  <2>3. CASE RecordRule(c)
    <3>1. /\ UNCHANGED <<quota, cap>>
          /\ \A m \in Members : usage'[m].total = usage[m].total
      BY <2>3 DEF RecordRule, Add, ghosts, Typed, TypeOK, Meter
    <3>2. \A d \in Clients : Passed(d)' <=> Passed(d)
      BY <2>3, <3>1 DEF RecordRule, Add, Passed, Typed, TypeOK, CallOK, Call
    <3>3. \A d \in Clients : call'[d].member = call[d].member
      BY <2>3 DEF RecordRule, Add, Typed, TypeOK, CallOK, Call
    <3>4. \A m \in Members : Admitted(m)' = Admitted(m)
      BY <3>2, <3>3 DEF Admitted
    <3> QED
      BY <3>1, <3>4 DEF CapInv, Within
  <2> QED
    BY <1>2, <2>1, <2>2, <2>3, ReadUsedCap, RecordCap DEF Proceed
<1>3. ASSUME NEW s \in Setters, QuotaStep(s) PROVE CapInv'
  BY <1>1, <1>3, SetQuotaCap DEF QuotaStep, QuotaSaveBegin, QuotaSaveEnd, ghosts
<1> QED
  BY <1>1, <1>2, <1>3, RestartCap DEF Next, PauseResume, vars, ghosts

\* QuotaCap, for any number of members, requests and administrators: a member is
\* never past its limit by more than the answers that were under way, whatever the
\* order of checks, answers, new limits and crashes
THEOREM OvershootIsBounded == Spec => []QuotaCap
<1>1. Init => CapInv
  BY DEF Init, CapInv, Within, NoQuota
<1>2. Typed /\ CapInv => QuotaCap
  <2> SUFFICES ASSUME Typed, CapInv, NEW m \in Members, quota[m] # 0
               PROVE  usage[m].total <= cap[m]
    BY DEF QuotaCap
  <2>1. Cardinality(Admitted(m)) \in Nat
    BY Counted DEF Admitted
  <2>2. MaxTokens * Cardinality(Admitted(m)) \in Nat
    BY <2>1, Monotone
  <2>3. usage[m].total \in Nat /\ cap[m] \in Nat
    BY DEF Typed, TypeOK, Meter
  <2> HIDE DEF Admitted
  <2> QED
    BY <2>2, <2>3 DEF CapInv, Within
<1> QED
  BY <1>1, <1>2, InitTyped, StepTyped, CapKept, PTL DEF Spec

-----------------------------------------------------------------------------
(***************************************************************************)
(* Metering: what requests under way have recorded for good, and have not  *)
(* recorded by rule set or answered yet                                    *)
(***************************************************************************)

\* The sum of numbers up to MaxTokens: so many pairs of a request and a unit
Units(w) == {p \in Clients \X (1..MaxTokens) : p[2] <= w[p[1]]}

Sum(w) == Cardinality(Units(w))

Shares == [Clients -> 0..MaxTokens]

Before == {"save", "saving", "rule"}

Metered == Before \cup {"ruleSave", "ruleSaving"}

ToRule(m) == [c \in Clients |-> IF call[c].member = m /\ call[c].byRule
                                    /\ call[c].step \in Before
                                 THEN call[c].tokens ELSE 0]

ToAnswer(m) == [c \in Clients |-> IF call[c].member = m /\ call[c].step \in Metered
                                   THEN call[c].tokens ELSE 0]

Saving == {"saving", "ruleSaving"}

\* What the two properties rest on: a copy that is being written is that of now,
\* for its read guard keeps writers out; the file holds what was answered, but
\* while it is written; and what is still to be recorded by rule set, or to be
\* answered, is in the total already.
SnapInv == \A c \in Clients : /\ call[c].step \in Saving => call[c].snap = usage
                              /\ call[c].step = "rule" => call[c].byRule

MeterOf(m) ==
    /\ usage[m].rule + Sum(ToRule(m)) <= usage[m].total
    /\ answered[m] + Sum(ToAnswer(m)) <= usage[m].total
    /\ usageFile[m].rule <= usageFile[m].total
    /\ UsageUnread => answered[m] <= usageFile[m].total

MeterInv == SnapInv /\ \A m \in Members : MeterOf(m)

LEMMA SumTyped == ASSUME NEW w PROVE IsFiniteSet(Units(w)) /\ Sum(w) \in Nat
<1>1. IsFiniteSet(1..MaxTokens)
  BY FS_Interval, ProxyConstants
<1>2. IsFiniteSet(Clients \X (1..MaxTokens))
  BY <1>1, FS_Product, ProxyConstants
<1> QED
  BY <1>2, FS_Subset, FS_CardinalityType DEF Units, Sum

LEMMA UnitsOfOne ==
    ASSUME NEW w \in Shares, NEW c \in Clients
    PROVE  LET rest == {p \in Units(w) : p[1] # c}
           IN /\ IsFiniteSet(Units(w)) /\ Sum(w) \in Nat
              /\ Cardinality(rest) \in Nat
              /\ Sum(w) = Cardinality(rest) + w[c]
<1> DEFINE rest == {p \in Units(w) : p[1] # c}
           own  == {c} \X (1..w[c])
<1>1. IsFiniteSet(Units(w))
  BY SumTyped
<1>2. IsFiniteSet(Units(w)) /\ IsFiniteSet(rest)
  BY <1>1, FS_Subset
<1>3. w[c] \in 0..MaxTokens
  BY DEF Shares
<1>4. IsFiniteSet(own) /\ Cardinality(own) = w[c]
  <2>1. IsFiniteSet(1..w[c]) /\ Cardinality(1..w[c]) = w[c]
    <3>1. w[c] \in Nat /\ w[c] \in Int /\ 1 \in Int
      BY <1>3, ProxyConstants
    <3>2. /\ IsFiniteSet(1..w[c])
          /\ Cardinality(1..w[c]) = IF 1 > w[c] THEN 0 ELSE w[c] - 1 + 1
      BY <3>1, FS_Interval
    <3> QED
      BY <3>1, <3>2
  <2>2. IsFiniteSet({c}) /\ Cardinality({c}) = 1
    BY FS_Singleton
  <2>3. IsFiniteSet(own) /\ Cardinality(own) = 1 * w[c]
    BY <2>1, <2>2, FS_Product
  <2> QED
    BY <1>3, <2>3, ProxyConstants
<1>5. Units(w) = rest \cup own /\ rest \cap own = {}
  BY <1>3, ProxyConstants DEF Units
<1>6. Cardinality(rest \cap own) = 0
  BY <1>5, FS_EmptySet
<1>7. Cardinality(rest) \in Nat /\ Cardinality(Units(w)) \in Nat
  BY <1>2, FS_CardinalityType
<1>8. Cardinality(rest \cup own)
        = Cardinality(rest) + Cardinality(own) - Cardinality(rest \cap own)
  BY <1>2, <1>4, FS_Union
<1> HIDE DEF rest, own
<1>9. Sum(w) = Cardinality(rest) + w[c]
  BY <1>3, <1>4, <1>5, <1>6, <1>7, <1>8, ProxyConstants DEF Sum
<1> QED
  BY <1>2, <1>7, <1>9 DEF Sum, rest

\* If one share changes the sum changes by as much
LEMMA SumOfOne ==
    ASSUME NEW v \in Shares, NEW w \in Shares, NEW c \in Clients,
           \A d \in Clients \ {c} : v[d] = w[d]
    PROVE  /\ Sum(v) \in Nat /\ Sum(w) \in Nat
           /\ Sum(v) + w[c] = Sum(w) + v[c]
<1> DEFINE rest(u) == {p \in Units(u) : p[1] # c}
<1>1. rest(v) = rest(w)
  BY DEF Units
<1>2. v[c] \in Nat /\ w[c] \in Nat
  BY ProxyConstants DEF Shares
<1>3. /\ Sum(v) \in Nat /\ Cardinality(rest(v)) \in Nat
      /\ Sum(v) = Cardinality(rest(v)) + v[c]
  BY UnitsOfOne
<1>4. /\ Sum(w) \in Nat /\ Sum(w) = Cardinality(rest(w)) + w[c]
  BY UnitsOfOne
<1> HIDE DEF rest
<1> QED
  BY <1>1, <1>2, <1>3, <1>4

LEMMA SumOfNone ==
    ASSUME NEW w \in Shares, \A c \in Clients : w[c] = 0
    PROVE  Sum(w) = 0
<1>1. Units(w) = {}
  BY DEF Units
<1> QED
  BY <1>1, FS_EmptySet DEF Sum

LEMMA SharesTyped ==
    ASSUME Typed, NEW m
    PROVE  ToRule(m) \in Shares /\ ToAnswer(m) \in Shares
<1>1. \A c \in Clients : call[c].tokens \in 0..MaxTokens
  BY DEF Typed, CallOK, Call
<1>2. 0 \in 0..MaxTokens
  BY ProxyConstants
<1> QED
  BY <1>1, <1>2 DEF ToRule, ToAnswer, Shares

\* A step of one call changes the sums by that call's share
LEMMA StepOfOne ==
    ASSUME Typed, Typed', NEW m, NEW c \in Clients,
           \A d \in Clients \ {c} : call'[d] = call[d]
    PROVE  /\ Sum(ToRule(m)) \in Nat /\ Sum(ToRule(m))' \in Nat
           /\ Sum(ToAnswer(m)) \in Nat /\ Sum(ToAnswer(m))' \in Nat
           /\ Sum(ToRule(m))' + ToRule(m)[c] = Sum(ToRule(m)) + ToRule(m)'[c]
           /\ Sum(ToAnswer(m))' + ToAnswer(m)[c] = Sum(ToAnswer(m)) + ToAnswer(m)'[c]
<1>1. /\ ToRule(m) \in Shares /\ ToAnswer(m) \in Shares
      /\ ToRule(m)' \in Shares /\ ToAnswer(m)' \in Shares
  <2>1. ToRule(m) \in Shares /\ ToAnswer(m) \in Shares
    BY SharesTyped
  <2>2. \A d \in Clients : call'[d].tokens \in 0..MaxTokens
    BY DEF Typed, CallOK, Call
  <2>3. 0 \in 0..MaxTokens
    BY ProxyConstants
  <2> QED
    BY <2>1, <2>2, <2>3 DEF ToRule, ToAnswer, Shares
<1>2. \A d \in Clients \ {c} : /\ ToRule(m)'[d] = ToRule(m)[d]
                               /\ ToAnswer(m)'[d] = ToAnswer(m)[d]
  BY DEF ToRule, ToAnswer
<1>3. Sum(ToRule(m))' = Sum(ToRule(m)') /\ Sum(ToAnswer(m))' = Sum(ToAnswer(m)')
  BY DEF Sum, Units
<1> HIDE DEF ToRule, ToAnswer
<1> QED
  BY <1>1, <1>2, <1>3, SumOfOne

\* A step that changes neither a table nor the share of the one call it is of
LEMMA SharesKept ==
    ASSUME Typed, Typed', MeterInv, NEW c \in Clients,
           UNCHANGED <<usage, usageFile, answered>>,
           \A d \in Clients \ {c} : call'[d] = call[d],
           call[c].step \notin Metered, call'[c].step \notin Metered
    PROVE  MeterInv'
<1>1. SnapInv'
  BY DEF MeterInv, SnapInv, Metered, Before, Saving
<1>2. UsageUnread' <=> UsageUnread
  BY DEF UsageUnread, Metered, Before
<1>3. ASSUME NEW m \in Members PROVE MeterOf(m)'
  <2>1. /\ ToRule(m)[c] = 0 /\ ToRule(m)'[c] = 0
        /\ ToAnswer(m)[c] = 0 /\ ToAnswer(m)'[c] = 0
    BY DEF ToRule, ToAnswer, Metered, Before
  <2>2. Sum(ToRule(m))' = Sum(ToRule(m)) /\ Sum(ToAnswer(m))' = Sum(ToAnswer(m))
    BY <2>1, StepOfOne
  <2> HIDE DEF Sum, ToRule, ToAnswer
  <2> QED
    BY <1>2, <2>2 DEF MeterInv, MeterOf
<1> QED
  BY <1>1, <1>3 DEF MeterInv

\* A step of others: no call changes, and no table but for quotas
LEMMA MeterElsewhere ==
    ASSUME MeterInv, UNCHANGED <<usage, usageFile, answered, call>>
    PROVE  MeterInv'
BY DEF MeterInv, MeterOf, SnapInv, UsageUnread, Sum, Units, ToRule, ToAnswer

\* The tokens of an answer come to the total and to what is owed at once
LEMMA RecordMeter ==
    ASSUME Typed, Typed', MeterInv, NEW c \in Clients, Record(c)
    PROVE  MeterInv'
<1> DEFINE k == call[c].member  t == call[c].tokens
<1>1. /\ call[c].step = "record" /\ call'[c].step = "save" /\ UsageUnread
      /\ call'[c].member = k /\ call'[c].tokens = t /\ call'[c].byRule = call[c].byRule
      /\ \A d \in Clients \ {c} : call'[d] = call[d]
      /\ k \in Members /\ t \in Nat
      /\ UNCHANGED <<usageFile, answered>>
  BY ProxyConstants DEF Record, Add, ghosts, Typed, TypeOK, CallOK, Call
<1>2. /\ usage'[k].total = usage[k].total + t /\ usage'[k].rule = usage[k].rule
      /\ \A m \in Members \ {k} : usage'[m] = usage[m]
  BY <1>1 DEF Record, Add, Typed, TypeOK, Meter
<1>3. UsageUnread' /\ SnapInv'
  BY <1>1 DEF UsageUnread, SnapInv, Saving, MeterInv
<1>4. ASSUME NEW m \in Members PROVE MeterOf(m)'
  <2>1. /\ ToRule(m)[c] = 0 /\ ToAnswer(m)[c] = 0
        /\ ToAnswer(m)'[c] = IF m = k THEN t ELSE 0
        /\ ToRule(m)'[c] = IF m = k /\ call[c].byRule THEN t ELSE 0
    BY <1>1 DEF ToRule, ToAnswer, Metered, Before
  <2>2. /\ Sum(ToRule(m)) \in Nat /\ Sum(ToRule(m))' \in Nat
        /\ Sum(ToAnswer(m)) \in Nat /\ Sum(ToAnswer(m))' \in Nat
        /\ Sum(ToRule(m))' + ToRule(m)[c] = Sum(ToRule(m)) + ToRule(m)'[c]
        /\ Sum(ToAnswer(m))' + ToAnswer(m)[c] = Sum(ToAnswer(m)) + ToAnswer(m)'[c]
    BY <1>1, StepOfOne
  <2>3. /\ usage[m].total \in Nat /\ usage[m].rule \in Nat /\ answered[m] \in Nat
        /\ MeterOf(m)
    BY DEF Typed, TypeOK, Meter, MeterInv
  <2>4. /\ usage'[m].rule = usage[m].rule
        /\ usage'[m].total = usage[m].total + (IF m = k THEN t ELSE 0)
    BY <1>1, <1>2, <2>3
  <2> HIDE DEF Sum, ToRule, ToAnswer, k, t
  <2> QED
    BY <1>1, <1>3, <2>1, <2>2, <2>3, <2>4 DEF MeterOf
<1> QED
  BY <1>3, <1>4 DEF MeterInv

\* What is recorded by rule set was in the total
LEMMA RecordRuleMeter ==
    ASSUME Typed, Typed', MeterInv, NEW c \in Clients, RecordRule(c)
    PROVE  MeterInv'
<1> DEFINE k == call[c].member  t == call[c].tokens
<1>1. /\ call[c].step = "rule" /\ call'[c].step = "ruleSave" /\ UsageUnread
      /\ call'[c].member = k /\ call'[c].tokens = t
      /\ \A d \in Clients \ {c} : call'[d] = call[d]
      /\ k \in Members /\ t \in Nat
      /\ UNCHANGED <<usageFile, answered>>
  BY ProxyConstants DEF RecordRule, Add, ghosts, Typed, TypeOK, CallOK, Call
<1>5. call[c].byRule
  BY <1>1 DEF MeterInv, SnapInv
<1>2. /\ usage'[k].rule = usage[k].rule + t /\ usage'[k].total = usage[k].total
      /\ \A m \in Members \ {k} : usage'[m] = usage[m]
  BY <1>1 DEF RecordRule, Add, Typed, TypeOK, Meter
<1>3. UsageUnread' /\ SnapInv'
  BY <1>1 DEF UsageUnread, SnapInv, Saving, MeterInv
<1>4. ASSUME NEW m \in Members PROVE MeterOf(m)'
  <2>1. /\ ToAnswer(m)[c] = ToAnswer(m)'[c] /\ ToRule(m)'[c] = 0
        /\ ToRule(m)[c] = IF m = k THEN t ELSE 0
        /\ ToAnswer(m)[c] \in Nat
    BY <1>1, <1>5 DEF ToRule, ToAnswer, Metered, Before
  <2>2. /\ Sum(ToRule(m)) \in Nat /\ Sum(ToRule(m))' \in Nat
        /\ Sum(ToAnswer(m)) \in Nat /\ Sum(ToAnswer(m))' \in Nat
        /\ Sum(ToRule(m))' + ToRule(m)[c] = Sum(ToRule(m)) + ToRule(m)'[c]
        /\ Sum(ToAnswer(m))' + ToAnswer(m)[c] = Sum(ToAnswer(m)) + ToAnswer(m)'[c]
    BY <1>1, StepOfOne
  <2>3. /\ usage[m].total \in Nat /\ usage[m].rule \in Nat /\ answered[m] \in Nat
        /\ MeterOf(m)
    BY DEF Typed, TypeOK, Meter, MeterInv
  <2>4. /\ usage'[m].total = usage[m].total
        /\ usage'[m].rule = usage[m].rule + (IF m = k THEN t ELSE 0)
    BY <1>1, <1>2, <2>3
  <2> HIDE DEF Sum, ToRule, ToAnswer, k, t
  <2> QED
    BY <1>1, <1>3, <2>1, <2>2, <2>3, <2>4 DEF MeterOf
<1> QED
  BY <1>3, <1>4 DEF MeterInv

\* The copy is of now, and no writer gets in until it is written
LEMMA SaveBeginMeter ==
    ASSUME Typed, Typed', MeterInv, NEW c \in Clients, SaveBegin(c)
    PROVE  MeterInv'
<1> DEFINE k == call[c].member
<1>1. /\ call[c].step \in {"save", "ruleSave"}
      /\ call'[c].step = IF call[c].step = "save" THEN "saving" ELSE "ruleSaving"
      /\ call'[c].snap = usage
      /\ call'[c].member = k /\ call'[c].tokens = call[c].tokens
      /\ call'[c].byRule = call[c].byRule
      /\ \A d \in Clients \ {c} : call'[d] = call[d]
      /\ UNCHANGED <<usage, answered>> /\ usageFile' = NoUsage
  BY DEF SaveBegin, ghosts, Typed, TypeOK, CallOK, Call
<1>2. SnapInv'
  BY <1>1 DEF SnapInv, Saving, MeterInv
<1>3. ~UsageUnread'
  BY <1>1 DEF UsageUnread
<1>4. ASSUME NEW m \in Members PROVE MeterOf(m)'
  <2>1. ToRule(m)[c] = ToRule(m)'[c] /\ ToAnswer(m)[c] = ToAnswer(m)'[c]
    BY <1>1 DEF ToRule, ToAnswer, Metered, Before
  <2>2. ToRule(m)[c] \in Nat /\ ToAnswer(m)[c] \in Nat
    BY SharesTyped, ProxyConstants DEF Shares
  <2>3. Sum(ToRule(m))' = Sum(ToRule(m)) /\ Sum(ToAnswer(m))' = Sum(ToAnswer(m))
    <3>1. /\ Sum(ToRule(m)) \in Nat /\ Sum(ToRule(m))' \in Nat
          /\ Sum(ToAnswer(m)) \in Nat /\ Sum(ToAnswer(m))' \in Nat
          /\ Sum(ToRule(m))' + ToRule(m)[c] = Sum(ToRule(m)) + ToRule(m)'[c]
          /\ Sum(ToAnswer(m))' + ToAnswer(m)[c] = Sum(ToAnswer(m)) + ToAnswer(m)'[c]
      BY <1>1, StepOfOne
    <3> HIDE DEF Sum, ToRule, ToAnswer
    <3> QED
      BY <2>1, <2>2, <3>1
  <2>4. usageFile'[m].rule <= usageFile'[m].total
    BY <1>1 DEF NoUsage
  <2> HIDE DEF Sum, ToRule, ToAnswer
  <2> QED
    BY <1>1, <1>3, <2>3, <2>4 DEF MeterInv, MeterOf
<1> QED
  BY <1>2, <1>4 DEF MeterInv

\* The file holds the total, in which what is answered now is
LEMMA SaveEndMeter ==
    ASSUME Typed, Typed', MeterInv, NEW c \in Clients, SaveEnd(c)
    PROVE  MeterInv'
<1> DEFINE k == call[c].member  t == call[c].tokens
           more == call[c].step = "saving" /\ call[c].byRule
<1>1. /\ call[c].step \in Saving /\ k \in Members /\ t \in Nat
      /\ UNCHANGED usage /\ usageFile' = usage
      /\ \A d \in Clients \ {c} : call'[d] = call[d]
  BY ProxyConstants DEF SaveEnd, Saving, MeterInv, SnapInv, Typed, TypeOK, CallOK, Call
<1>2. CASE more
  <2>1. /\ call'[c].step = "rule" /\ call'[c].member = k /\ call'[c].tokens = t
        /\ call'[c].byRule /\ UNCHANGED answered
    BY <1>2 DEF SaveEnd, Typed, TypeOK, Call
  <2>2. SnapInv'
    BY <1>1, <2>1 DEF SnapInv, Saving, MeterInv
  <2>3. ASSUME NEW m \in Members PROVE MeterOf(m)'
    <3>1. ToRule(m)[c] = ToRule(m)'[c] /\ ToAnswer(m)[c] = ToAnswer(m)'[c]
      BY <1>1, <1>2, <2>1 DEF ToRule, ToAnswer, Metered, Before, Saving
    <3>2. ToRule(m)[c] \in Nat /\ ToAnswer(m)[c] \in Nat
      BY SharesTyped, ProxyConstants DEF Shares
    <3>3. /\ Sum(ToRule(m)) \in Nat /\ Sum(ToRule(m))' \in Nat
          /\ Sum(ToAnswer(m)) \in Nat /\ Sum(ToAnswer(m))' \in Nat
          /\ Sum(ToRule(m))' + ToRule(m)[c] = Sum(ToRule(m)) + ToRule(m)'[c]
          /\ Sum(ToAnswer(m))' + ToAnswer(m)[c] = Sum(ToAnswer(m)) + ToAnswer(m)'[c]
      BY <1>1, StepOfOne
    <3>4. usage[m].total \in Nat /\ usage[m].rule \in Nat /\ answered[m] \in Nat
      BY DEF Typed, TypeOK, Meter
    <3> HIDE DEF Sum, ToRule, ToAnswer
    <3> QED
      BY <1>1, <2>1, <3>1, <3>2, <3>3, <3>4 DEF MeterInv, MeterOf
  <2> QED
    BY <2>2, <2>3 DEF MeterInv
<1>3. CASE ~more
  <2>1. /\ call'[c] = NoCall
        /\ answered'[k] = answered[k] + t
        /\ \A m \in Members \ {k} : answered'[m] = answered[m]
    BY <1>1, <1>3 DEF SaveEnd, Typed, TypeOK
  <2>2. SnapInv'
    BY <1>1, <2>1 DEF SnapInv, Saving, MeterInv, NoCall
  <2>3. ASSUME NEW m \in Members PROVE MeterOf(m)'
    <3>1. /\ ToRule(m)[c] = 0 /\ ToRule(m)'[c] = 0 /\ ToAnswer(m)'[c] = 0
          /\ ToAnswer(m)[c] = IF m = k THEN t ELSE 0
      BY <1>1, <1>3, <2>1 DEF ToRule, ToAnswer, Metered, Before, Saving, NoCall
    <3>2. /\ Sum(ToRule(m)) \in Nat /\ Sum(ToRule(m))' \in Nat
          /\ Sum(ToAnswer(m)) \in Nat /\ Sum(ToAnswer(m))' \in Nat
          /\ Sum(ToRule(m))' + ToRule(m)[c] = Sum(ToRule(m)) + ToRule(m)'[c]
          /\ Sum(ToAnswer(m))' + ToAnswer(m)[c] = Sum(ToAnswer(m)) + ToAnswer(m)'[c]
      BY <1>1, StepOfOne
    <3>3. /\ usage[m].total \in Nat /\ usage[m].rule \in Nat /\ answered[m] \in Nat
          /\ MeterOf(m)
      BY DEF Typed, TypeOK, Meter, MeterInv
    <3>4. answered'[m] = answered[m] + (IF m = k THEN t ELSE 0)
      BY <2>1, <3>3
    <3> HIDE DEF Sum, ToRule, ToAnswer, k, t
    <3> QED
      BY <1>1, <3>1, <3>2, <3>3, <3>4 DEF MeterOf
  <2> QED
    BY <2>2, <2>3 DEF MeterInv
<1> QED
  BY <1>2, <1>3

\* What the file holds is right again, and nothing is under way
LEMMA RestartMeter == ASSUME Typed, Typed', MeterInv, Restart PROVE MeterInv'
<1>1. /\ \A c \in Clients : call'[c] = NoCall
      /\ usage' = usageFile /\ usageFile' = usageFile
      /\ \A m \in Members : answered'[m] = IF UsageUnread THEN answered[m] ELSE 0
  BY DEF Restart
<1>2. SnapInv'
  BY <1>1 DEF SnapInv, Saving, NoCall
<1>3. ASSUME NEW m \in Members PROVE MeterOf(m)'
  <2>1. Sum(ToRule(m))' = 0 /\ Sum(ToAnswer(m))' = 0
    <3>1. Units(ToRule(m))' = {} /\ Units(ToAnswer(m))' = {}
      BY <1>1 DEF Units, ToRule, ToAnswer, Before, Metered, NoCall
    <3> HIDE DEF Units
    <3> QED
      BY <3>1, FS_EmptySet DEF Sum
  <2>2. usageFile[m].total \in Nat /\ usageFile[m].rule \in Nat /\ answered[m] \in Nat
    BY DEF Typed, TypeOK, Meter
  <2> HIDE DEF Sum, ToRule, ToAnswer
  <2> QED
    BY <1>1, <2>1, <2>2 DEF MeterInv, MeterOf
<1> QED
  BY <1>2, <1>3 DEF MeterInv

LEMMA MeterKept == Typed /\ Typed' /\ MeterInv /\ [Next]_vars => MeterInv'
<1> SUFFICES ASSUME Typed, Typed', MeterInv, [Next]_vars PROVE MeterInv'
  OBVIOUS
<1>1. ASSUME NEW c \in Clients, Request(c) \/ Proceed(c) PROVE MeterInv'
  <2>1. CASE \/ Request(c) \/ ReadUsed(c) \/ CheckQuota(c) \/ Blocked(c) \/ Resolve(c)
             \/ Route(c) \/ NoRoute(c) \/ GiveUp(c)
             \/ ChatFails(c) \/ ChatAnswers(c) \/ HangUp(c)
    <3>1. UNCHANGED <<usage, usageFile, answered>>
      BY <2>1 DEF Request, ReadUsed, CheckQuota, Blocked, Resolve, Route, NoRoute, GiveUp,
         ChatFails, ChatAnswers, HangUp, Tables, ghosts
    <3>2. \A d \in Clients \ {c} : call'[d] = call[d]
      BY <2>1 DEF Request, ReadUsed, CheckQuota, Blocked, Resolve, Route, NoRoute, GiveUp,
         ChatFails, ChatAnswers, HangUp, Typed, TypeOK
    <3>3. call[c].step \notin Metered
      BY <2>1 DEF Request, ReadUsed, CheckQuota, Blocked, Resolve, Route, NoRoute, GiveUp,
         ChatFails, ChatAnswers, HangUp, Metered, Before
    <3>4. call'[c].step \in {"idle", "used", "quota", "resolve", "route", "chat", "record"}
      <4>0. call[c] \in Call /\ c \in DOMAIN call
        BY DEF Typed, TypeOK
      <4>1. CASE Request(c)
        BY <4>0, <4>1 DEF Request, NoCall
      <4>2. CASE ReadUsed(c)
        BY <4>0, <4>2 DEF ReadUsed, Call
      <4>3. CASE Resolve(c)
        BY <4>0, <4>3 DEF Resolve, Call
      <4>4. CASE Route(c)
        BY <4>0, <4>4 DEF Route, Call
      <4>5. CASE ChatFails(c)
        BY <4>0, <4>5 DEF ChatFails, Call
      <4>6. CASE CheckQuota(c)
        BY <4>0, <4>6 DEF CheckQuota, Call, NoCall
      <4>7. CASE Blocked(c) \/ GiveUp(c) \/ HangUp(c)
        BY <4>0, <4>7 DEF Blocked, GiveUp, HangUp, NoCall
      <4>8. CASE NoRoute(c)
        BY <4>0, <4>8 DEF NoRoute, Call, NoCall
      <4>9. CASE ChatAnswers(c)
        BY <4>0, <4>9 DEF ChatAnswers, NoCall
      <4> QED
        BY <2>1, <4>1, <4>2, <4>3, <4>4, <4>5, <4>6, <4>7, <4>8, <4>9
    <3>5. call'[c].step \notin Metered
      BY <3>4 DEF Metered, Before
    <3> QED
      BY <3>1, <3>2, <3>3, <3>5, SharesKept
  <2> QED
    BY <1>1, <2>1, RecordMeter, RecordRuleMeter, SaveBeginMeter, SaveEndMeter DEF Proceed
<1>2. ASSUME NEW s \in Setters, QuotaStep(s) PROVE MeterInv'
  BY <1>2, MeterElsewhere DEF QuotaStep, SetQuota, QuotaSaveBegin, QuotaSaveEnd, ghosts
<1>3. CASE PauseResume \/ UNCHANGED vars
  BY <1>3, MeterElsewhere DEF PauseResume, vars, ghosts
<1> QED
  BY <1>1, <1>2, <1>3, RestartMeter DEF Next

LEMMA InitMeter == Init => MeterInv
<1> SUFFICES ASSUME Init PROVE MeterInv
  OBVIOUS
<1>1. SnapInv
  BY DEF Init, SnapInv, Saving, NoCall
<1>2. ASSUME NEW m \in Members PROVE MeterOf(m)
  <2>1. Sum(ToRule(m)) = 0 /\ Sum(ToAnswer(m)) = 0
    <3>1. /\ \A c \in Clients : ToRule(m)[c] = 0 /\ ToAnswer(m)[c] = 0
          /\ ToRule(m) \in Shares /\ ToAnswer(m) \in Shares
      BY ProxyConstants DEF Init, ToRule, ToAnswer, Before, Metered, NoCall, Shares
    <3> QED
      BY <3>1, SumOfNone
  <2> HIDE DEF Sum, ToRule, ToAnswer
  <2> QED
    BY <2>1 DEF Init, MeterOf, NoUsage
<1> QED
  BY <1>1, <1>2 DEF MeterInv

LEMMA Metering == Spec => [](Typed /\ MeterInv)
<1>1. Init => Typed /\ MeterInv
  BY InitTyped, InitMeter
<1>2. Typed /\ MeterInv /\ [Next]_vars => Typed' /\ MeterInv'
  BY StepTyped, MeterKept
<1> QED
  BY <1>1, <1>2, PTL DEF Spec

\* RulePartOfTotal, for any number of members and requests: record and record_rule
\* write the file at different times, but what the one of any request has added is
\* in every copy that holds what the other adds
THEOREM RulesAreAPart == Spec => []RulePartOfTotal
<1>1. Typed /\ MeterInv => RulePartOfTotal
  <2> SUFFICES ASSUME Typed, MeterInv, NEW m \in Members
               PROVE  usage[m].rule <= usage[m].total
    BY DEF RulePartOfTotal
  <2>1. Sum(ToRule(m)) \in Nat
    BY SumTyped
  <2>2. usage[m].total \in Nat /\ usage[m].rule \in Nat
    BY DEF Typed, TypeOK, Meter
  <2> HIDE DEF Sum, ToRule
  <2> QED
    BY <2>1, <2>2 DEF MeterInv, MeterOf
<1> QED
  BY <1>1, Metering, PTL

\* AnsweredIsMetered, for any number of members and requests: the answer is sent
\* when a copy of the table with its tokens is in the file, and no later copy
\* lacks them
THEOREM AnswersAreMetered == Spec => []AnsweredIsMetered
<1>1. Typed /\ MeterInv => AnsweredIsMetered
  <2> SUFFICES ASSUME Typed, MeterInv, NEW m \in Members
               PROVE  answered[m] <= usage[m].total
    BY DEF AnsweredIsMetered
  <2>1. Sum(ToAnswer(m)) \in Nat
    BY SumTyped
  <2>2. usage[m].total \in Nat /\ answered[m] \in Nat
    BY DEF Typed, TypeOK, Meter
  <2> HIDE DEF Sum, ToAnswer
  <2> QED
    BY <2>1, <2>2 DEF MeterInv, MeterOf
<1> QED
  BY <1>1, Metering, PTL
=============================================================================
