--------------------------- MODULE GatewayProofs ---------------------------
(***************************************************************************)
(* Proofs about Gateway: its types, that what must be encrypted is, that   *)
(* what was opened is answered sealed, and that an enforce holds.          *)
(***************************************************************************)
EXTENDS Gateway, WellFoundedInduction, TLAPS

-----------------------------------------------------------------------------
(* Types *)

LEMMA Least ==
    ASSUME NEW S \in SUBSET Nat, S # {}
    PROVE  \E m \in S : \A n \in S : m <= n
<1>1. IsWellFoundedOn(OpToRel(<, Nat), Nat)
  BY NatLessThanWellFounded
<1>2. PICK m \in S : \A n \in S : ~ (<<n, m>> \in OpToRel(<, Nat))
  BY <1>1, WFMin
<1>3. \A n \in S : ~(n < m)
  BY <1>2 DEF OpToRel
<1> QED
  BY <1>3

\* The leader picked is one, and the static leader goes first
LEMMA PickedLeader ==
    ASSUME TypeOK
    PROVE  /\ PickLeader \in Leaders \cup {None}
           /\ static # None => PickLeader = static
<1>1. CASE static # None
  BY <1>1 DEF TypeOK, PickLeader, StaticLeaders, Leaders
<1>2. CASE static = None /\ Online = {}
  BY <1>2 DEF PickLeader
<1>3. CASE static = None /\ Online # {}
  <2> DEFINE Heard == {heard[l] : l \in Online}
  <2>1. Heard \in SUBSET Nat /\ Heard # {}
    <3>1. \A l \in Online : heard[l] \in Nat
      BY GatewayConstants DEF Online
    <3> QED
      BY <1>3, <3>1
  <2>2. PICK h \in Heard : \A k \in Heard : h <= k
    BY <2>1, Least
  <2>3. PICK l \in Online : heard[l] = h
    BY <2>2
  <2>4. l \in Latest
    BY <2>2, <2>3 DEF Latest
  <2>5. Latest \in SUBSET Nat /\ Latest \subseteq Lan
    BY GatewayConstants DEF Latest, Online
  <2>6. \E m \in Latest : \A k \in Latest : m <= k
    BY <2>4, <2>5, Least
  <2>7. (CHOOSE m \in Latest : \A k \in Latest : m <= k) \in Latest
    BY <2>6
  <2> QED
    BY <1>3, <2>5, <2>7 DEF PickLeader, Leaders
<1> QED
  BY <1>1, <1>2, <1>3

\* How a request that was sent ends: with what came back or with an error
EndsAs(r, s, a) == req' = [req EXCEPT ![r] = Answered(req[r], s, a)]

LEMMA EndOf ==
    ASSUME NEW r \in Requests, Answer(r) \/ Fail(r)
    PROVE  \E s \in {req[r].status, 503}, a \in {req[r].answer, "plain"} : EndsAs(r, s, a)
<1>1. CASE Fail(r)
  <2>1. EndsAs(r, 503, "plain")
    BY <1>1, Zenon DEF Fail, EndsAs
  <2> QED
    BY <2>1
<1>2. CASE Answer(r) /\ req[r].answer # "cipher"
  <2>1. EndsAs(r, req[r].status, req[r].answer)
    BY <1>2, Zenon DEF Answer, Opened, EndsAs
  <2> QED
    BY <2>1
<1>3. CASE Answer(r) /\ req[r].answer = "cipher" /\ req[r].enc
  <2>1. EndsAs(r, req[r].status, "plain")
    BY <1>3, Zenon DEF Answer, Opened, EndsAs
  <2> QED
    BY <2>1
<1>4. CASE Answer(r) /\ req[r].answer = "cipher" /\ ~req[r].enc
  <2>1. EndsAs(r, 503, "plain")
    BY <1>4, Zenon DEF Answer, Opened, EndsAs
  <2> QED
    BY <2>1
<1> QED
  BY <1>1, <1>2, <1>3, <1>4

LEMMA InitTyped == Init => TypeOK
<1> SUFFICES ASSUME Init PROVE TypeOK
  OBVIOUS
<1>1. NoRequest \in ProxyCall /\ NoRequest.phase = "idle"
  BY DEF NoRequest, ProxyCall, Bodies
<1>2. [up |-> TRUE, announcing |-> TRUE, policy |-> Configured, file |-> "absent"]
        \in ShareServer
  BY GatewayConstants DEF ShareServer, Texts
<1>3. [pc |-> "none", policy |-> "off", sound |-> FALSE] \in PolicyCall
  BY GatewayConstants DEF PolicyCall
<1> QED
  BY <1>1, <1>2, <1>3, GatewayConstants DEF Init, TypeOK, Ages, StaticLeaders

LEMMA ParseTyped == \A text : Parse(text) \in Modes
BY GatewayConstants DEF Parse

LEMMA StartTyped == ASSUME TypeOK, NEW l \in Leaders, StartLeader(l) PROVE TypeOK'
<1>1. Assembled(leader[l].file) \in Modes
  BY ParseTyped, GatewayConstants DEF Assembled
<1>2. PICK bound \in BOOLEAN :
        leader' = [leader EXCEPT ![l].up = TRUE, ![l].announcing = bound,
                                 ![l].policy = Assembled(leader[l].file)]
  BY DEF StartLeader
<1>3. leader' \in [Leaders -> ShareServer]
  BY <1>1, <1>2 DEF TypeOK, ShareServer
<1> QED
  BY <1>3 DEF TypeOK, StartLeader, memberVars

LEMMA StopTyped == ASSUME TypeOK, NEW l \in Leaders, StopLeader(l) PROVE TypeOK'
<1>1. leader' \in [Leaders -> ShareServer]
  BY DEF TypeOK, StopLeader, ShareServer
<1>2. calls' \in [Deep \X Calls -> PolicyCall]
  <2>1. Done \in PolicyCall
    BY GatewayConstants DEF Done, PolicyCall
  <2> QED
    BY <2>1 DEF TypeOK, StopLeader
<1>3. /\ req' \in [Requests -> ProxyCall]
      /\ \A r \in Requests : req'[r].phase \in {"picked", "sent", "handling", "replied"}
                             => req'[r].leader \in Leaders
  <2>1. \A r \in Requests :
          /\ [req[r] EXCEPT !.phase = "dropped"] \in ProxyCall
          /\ [req[r] EXCEPT !.phase = "dropped"].phase = "dropped"
    BY DEF TypeOK, ProxyCall
  <2>2. \A r \in Requests : req'[r] \in {req[r], [req[r] EXCEPT !.phase = "dropped"]}
    BY DEF StopLeader
  <2>3. req' = [r \in Requests |-> req'[r]]
    BY DEF StopLeader
  <2> QED
    BY <2>1, <2>2, <2>3 DEF TypeOK
<1>4. crashes' \in 0..MaxCrash
  BY GatewayConstants DEF TypeOK, StopLeader
<1> QED
  BY <1>1, <1>2, <1>3, <1>4 DEF TypeOK, StopLeader, memberVars

LEMMA NetTyped ==
    ASSUME TypeOK, Tick \/ SetStaticLeader \/ \E l \in Lan : Announce(l)
    PROVE  TypeOK'
<1>1. heard' \in [Lan -> Ages]
  <2>1. CASE Tick
    BY <2>1, GatewayConstants DEF Tick, TypeOK, Ages
  <2>2. CASE SetStaticLeader
    BY <2>2 DEF SetStaticLeader, TypeOK
  <2>3. CASE \E l \in Lan : Announce(l)
    BY <2>3, GatewayConstants DEF Announce, HandleAnnounce, TypeOK, Ages
  <2> QED
    BY <2>1, <2>2, <2>3
<1>2. static' \in StaticLeaders
  BY DEF Tick, SetStaticLeader, Announce, TypeOK, StaticLeaders
<1> QED
  BY <1>1, <1>2 DEF Tick, SetStaticLeader, Announce, TypeOK, leaderVars

PolicyStep(l, n) == LinkEncrypt(l, n) \/ Truncate(l, n) \/ Write(l, n) \/ SetPolicy(l, n)

LEMMA PolicyTyped ==
    ASSUME TypeOK, NEW l \in Deep, NEW n \in Calls, PolicyStep(l, n)
    PROVE  TypeOK'
<1>0. l \in Leaders /\ <<l, n>> \in Deep \X Calls
  BY DEF Leaders
<1>1. CASE LinkEncrypt(l, n)
  <2>1. PICK text \in Modes \cup {"mixed"} :
          calls' = [c \in DOMAIN calls |->
                     IF c = <<l, n>>
                     THEN [pc |-> "truncate", policy |-> Parse(text),
                           sound |-> \A m \in Calls : ~UnderWay(<<l, m>>)]
                     ELSE IF c[1] = l THEN [calls[c] EXCEPT !.sound = FALSE] ELSE calls[c]]
    BY <1>1 DEF LinkEncrypt
  <2> DEFINE sound == \A m \in Calls : ~UnderWay(<<l, m>>)
  <2>2. sound \in BOOLEAN /\ Parse(text) \in Modes
    BY ParseTyped
  <2> HIDE DEF sound
  <2>3. [pc |-> "truncate", policy |-> Parse(text), sound |-> sound] \in PolicyCall
    BY <2>2 DEF PolicyCall
  <2>4. \A c \in Deep \X Calls : [calls[c] EXCEPT !.sound = FALSE] \in PolicyCall
    BY DEF TypeOK, PolicyCall
  <2>5. calls' \in [Deep \X Calls -> PolicyCall]
    BY <2>1, <2>3, <2>4 DEF TypeOK, sound
  <2> QED
    BY <1>0, <1>1, <2>5 DEF LinkEncrypt, TypeOK, memberVars
<1>2. CASE Truncate(l, n) \/ Write(l, n)
  <2>1. Overwrite(leader[l].file, calls[<<l, n>>].policy) \in Texts
    BY <1>0 DEF Overwrite, TypeOK, PolicyCall, Texts
  <2>2. leader' \in [Leaders -> ShareServer]
    <3>1. \/ UNCHANGED leader
          \/ \E text \in Texts : leader' = [leader EXCEPT ![l].file = text]
      BY <1>2, <2>1 DEF Truncate, Write, Texts
    <3> QED
      BY <1>0, <3>1 DEF TypeOK, ShareServer
  <2>3. calls' \in [Deep \X Calls -> PolicyCall]
    <3> DEFINE c == <<l, n>>
    <3>1. \/ calls' = [calls EXCEPT ![c].pc = "write"]
          \/ calls' = [calls EXCEPT ![c].pc = "set"]
          \/ calls' = [calls EXCEPT ![c].pc = "set", ![c].sound = FALSE]
      BY <1>2, Zenon DEF Truncate, Write
    <3>2. c \in Deep \X Calls /\ calls[c] \in PolicyCall
      BY <1>0 DEF TypeOK
    <3> HIDE DEF c
    <3>3. \A x \in {"write", "set"} :
            /\ [calls[c] EXCEPT !.pc = x] \in PolicyCall
            /\ [[calls[c] EXCEPT !.pc = x] EXCEPT !.sound = FALSE] \in PolicyCall
      BY <3>2 DEF PolicyCall
    <3>4. \E k \in PolicyCall : calls' = [calls EXCEPT ![c] = k]
      BY <3>1, <3>3
    <3> QED
      BY <3>2, <3>4 DEF TypeOK
  <2> QED
    BY <1>2, <2>2, <2>3 DEF Truncate, Write, TypeOK, memberVars
<1>4. CASE SetPolicy(l, n)
  <2>1. Done \in PolicyCall
    BY GatewayConstants DEF Done, PolicyCall
  <2> QED
    BY <1>0, <1>4, <2>1 DEF SetPolicy, TypeOK, PolicyCall, ShareServer, memberVars
<1> QED
  BY <1>1, <1>2, <1>4 DEF PolicyStep

RequestStep(r) == Request(r) \/ MemberStep(r) \/ Receive(r) \/ Reply(r) \/ Fail(r)

\* A step that changes one request, into one that is well typed
LEMMA OneRequest ==
    ASSUME TypeOK, NEW r \in Requests, NEW q \in ProxyCall,
           q.phase \in {"picked", "sent", "handling", "replied"} => q.leader \in Leaders,
           req' = [req EXCEPT ![r] = q], UNCHANGED <<leaderVars, memberVars>>
    PROVE  TypeOK'
<1>1. req' \in [Requests -> ProxyCall]
  BY DEF TypeOK
<1>2. \A x \in Requests : req'[x].phase \in {"picked", "sent", "handling", "replied"}
                         => req'[x].leader \in Leaders
  BY DEF TypeOK
<1> QED
  BY <1>1, <1>2 DEF TypeOK, leaderVars, memberVars

Statuses == {0, 200, 400, 426, 503}

Phases == {"idle", "arrived", "picked", "sent", "handling", "replied", "dropped", "answered"}

\* One field at a time
LEMMA FieldTyped ==
    ASSUME NEW q \in ProxyCall
    PROVE  /\ \A x \in Phases : [q EXCEPT !.phase = x] \in ProxyCall
           /\ \A x \in BOOLEAN : [q EXCEPT !.token = x] \in ProxyCall
           /\ \A x \in Leaders \cup {None} : [q EXCEPT !.leader = x] \in ProxyCall
           /\ \A x \in {"static", "lan", None} : [q EXCEPT !.by = x] \in ProxyCall
           /\ \A x \in BOOLEAN : [q EXCEPT !.enc = x] \in ProxyCall
           /\ \A x \in Bodies : [q EXCEPT !.body = x] \in ProxyCall
           /\ \A x \in BOOLEAN : [q EXCEPT !.strict = x] \in ProxyCall
           /\ \A x \in Statuses : [q EXCEPT !.status = x] \in ProxyCall
           /\ \A x \in Bodies : [q EXCEPT !.answer = x] \in ProxyCall
<1>1. \A x \in Phases : [q EXCEPT !.phase = x] \in ProxyCall
  BY DEF ProxyCall, Phases
<1>2. \A x \in BOOLEAN : [q EXCEPT !.token = x] \in ProxyCall
  BY DEF ProxyCall
<1>3. \A x \in Leaders \cup {None} : [q EXCEPT !.leader = x] \in ProxyCall
  BY DEF ProxyCall
<1>4. \A x \in {"static", "lan", None} : [q EXCEPT !.by = x] \in ProxyCall
  BY DEF ProxyCall
<1>5. \A x \in BOOLEAN : [q EXCEPT !.enc = x] \in ProxyCall
  BY DEF ProxyCall
<1>6. \A x \in Bodies : [q EXCEPT !.body = x] \in ProxyCall
  BY DEF ProxyCall
<1>7. \A x \in BOOLEAN : [q EXCEPT !.strict = x] \in ProxyCall
  BY DEF ProxyCall
<1>8. \A x \in Statuses : [q EXCEPT !.status = x] \in ProxyCall
  BY DEF ProxyCall, Statuses
<1>9. \A x \in Bodies : [q EXCEPT !.answer = x] \in ProxyCall
  BY DEF ProxyCall
<1> QED
  BY <1>1, <1>2, <1>3, <1>4, <1>5, <1>6, <1>7, <1>8, <1>9

\* A request that is under way to a leader
Underway(q) == q \in ProxyCall /\ q.leader \in Leaders

LEMMA FieldUnderway ==
    ASSUME NEW q, Underway(q)
    PROVE  /\ \A x \in Phases : Underway([q EXCEPT !.phase = x])
           /\ \A x \in {"static", "lan", None} : Underway([q EXCEPT !.by = x])
           /\ \A x \in BOOLEAN : Underway([q EXCEPT !.enc = x])
           /\ \A x \in Bodies : Underway([q EXCEPT !.body = x])
           /\ \A x \in BOOLEAN : Underway([q EXCEPT !.strict = x])
           /\ \A x \in Statuses : Underway([q EXCEPT !.status = x])
           /\ \A x \in Bodies : Underway([q EXCEPT !.answer = x])
<1>1. \A x :
        /\ [q EXCEPT !.phase = x].leader \in Leaders
        /\ [q EXCEPT !.by = x].leader \in Leaders
        /\ [q EXCEPT !.enc = x].leader \in Leaders
        /\ [q EXCEPT !.body = x].leader \in Leaders
        /\ [q EXCEPT !.strict = x].leader \in Leaders
        /\ [q EXCEPT !.status = x].leader \in Leaders
        /\ [q EXCEPT !.answer = x].leader \in Leaders
  BY DEF Underway
<1> QED
  BY <1>1, FieldTyped DEF Underway

LEMMA FieldsOf ==
    ASSUME NEW q \in ProxyCall
    PROVE  /\ q.phase \in Phases /\ q.leader \in Leaders \cup {None}
           /\ q.body \in Bodies /\ q.answer \in Bodies
           /\ q.status \in Statuses /\ q.enc \in BOOLEAN /\ q.token \in BOOLEAN
BY DEF ProxyCall, Phases, Statuses

LEMMA AnsweredTyped ==
    ASSUME NEW q \in ProxyCall, NEW s \in Statuses, NEW a \in Bodies
    PROVE  /\ Answered(q, s, a) \in ProxyCall
           /\ Answered(q, s, a).phase = "answered"
<1> DEFINE q1 == [q EXCEPT !.phase = "answered"]
           q2 == [q1 EXCEPT !.status = s]
           q3 == [q2 EXCEPT !.answer = a]
           q4 == [q3 EXCEPT !.leader = None]
           q5 == [q4 EXCEPT !.by = None]
           q6 == [q5 EXCEPT !.token = FALSE]
<1>0. Answered(q, s, a) = q6
  BY DEF Answered
<1>1. q1 \in ProxyCall
  BY FieldTyped DEF Phases
<1>2. q2 \in ProxyCall
  BY <1>1, FieldTyped
<1>3. q3 \in ProxyCall
  BY <1>2, FieldTyped
<1>4. q4 \in ProxyCall
  BY <1>3, FieldTyped
<1>5. q5 \in ProxyCall
  BY <1>4, FieldTyped
<1>6. q6 \in ProxyCall
  BY <1>5, FieldTyped
<1>7. Answered(q, s, a).phase = "answered"
  BY FieldsOf DEF Answered, ProxyCall
<1> QED
  BY <1>0, <1>6, <1>7

LEMMA RequestTyped ==
    ASSUME TypeOK, NEW r \in Requests, RequestStep(r)
    PROVE  TypeOK'
<1>0. req[r] \in ProxyCall /\ "plain" \in Bodies
  BY DEF TypeOK, Bodies
<1>1. CASE Request(r)
  <2>0. PICK path \in Paths : \E token \in Auths(path) :
          req' = [req EXCEPT ![r] = [NoRequest EXCEPT !.phase = "arrived", !.path = path,
                                                      !.token = token]]
    BY <1>1 DEF Request
  <2>1. PICK token \in Auths(path) :
          req' = [req EXCEPT ![r] = [NoRequest EXCEPT !.phase = "arrived", !.path = path,
                                                      !.token = token]]
    BY <2>0
  <2>2. token \in BOOLEAN
    BY DEF Auths, Paths
  <2> DEFINE q == [NoRequest EXCEPT !.phase = "arrived", !.path = path, !.token = token]
  <2>3. q \in ProxyCall /\ q.phase = "arrived"
    BY <2>2 DEF NoRequest, ProxyCall, Bodies
  <2>4. UNCHANGED <<leaderVars, memberVars>>
    BY <1>1 DEF Request
  <2> HIDE DEF q
  <2> QED
    BY <2>1, <2>3, <2>4, OneRequest DEF q
<1>2. CASE Pick(r)
  <2>1. CASE PickLeader = None
    <3> DEFINE q == Answered(req[r], 503, "plain")
    <3>0. 503 \in Statuses
      BY DEF Statuses
    <3>1. q \in ProxyCall /\ q.phase = "answered"
      BY <1>0, <3>0, AnsweredTyped
    <3>2. req' = [req EXCEPT ![r] = q] /\ UNCHANGED <<leaderVars, memberVars>>
      BY <1>2, <2>1 DEF Pick
    <3> HIDE DEF q
    <3> QED
      BY <3>1, <3>2, OneRequest
  <2>2. CASE PickLeader # None
    <3> DEFINE q == [req[r] EXCEPT !.phase = "picked", !.leader = PickLeader,
                                   !.by = IF static # None THEN "static" ELSE "lan"]
               q1 == [req[r] EXCEPT !.phase = "picked"]
               q2 == [q1 EXCEPT !.leader = PickLeader]
    <3>1. q1 \in ProxyCall /\ PickLeader \in Leaders
      BY <1>0, <2>2, FieldTyped, PickedLeader DEF Phases
    <3>2. Underway(q2)
      <4>1. q2 \in ProxyCall
        BY <3>1, FieldTyped
      <4>2. q2.leader = PickLeader
        BY <3>1 DEF ProxyCall
      <4> QED
        BY <3>1, <4>1, <4>2 DEF Underway
    <3>3. q = [q2 EXCEPT !.by = IF static # None THEN "static" ELSE "lan"]
      OBVIOUS
    <3>4. Underway(q)
      BY <3>2, <3>3, FieldUnderway
    <3>5. req' = [req EXCEPT ![r] = q] /\ UNCHANGED <<leaderVars, memberVars>>
      BY <1>2, <2>2 DEF Pick
    <3> HIDE DEF q
    <3> QED
      BY <3>4, <3>5, OneRequest DEF Underway
  <2> QED
    BY <2>1, <2>2
<1>3. CASE Send(r)
  <2> DEFINE enc == LinkEncrypts /\ req[r].path \notin Exempt /\ req[r].token
             b == IF ~IsPost(req[r].path) THEN "none" ELSE IF enc THEN "cipher" ELSE "plain"
             q == [req[r] EXCEPT !.phase = "sent", !.enc = enc, !.body = b]
  <2>1. req[r].leader \in Leaders
    BY <1>3 DEF Send, TypeOK
  <2>2. enc \in BOOLEAN /\ b \in Bodies
    BY <1>0 DEF LinkEncrypts, ProxyCall, Bodies
  <2>3. req' = [req EXCEPT ![r].phase = "sent", ![r].enc = enc, ![r].body = b]
        /\ UNCHANGED <<leaderVars, memberVars>>
    BY <1>3, Zenon DEF Send
  <2> HIDE DEF enc, b
  <2>4. Underway(q)
    <3> DEFINE q1 == [req[r] EXCEPT !.phase = "sent"]
               q2 == [q1 EXCEPT !.enc = enc]
    <3>1. Underway(q1)
      BY <1>0, <2>1, FieldUnderway DEF Phases, Underway
    <3>2. Underway(q2)
      BY <2>2, <3>1, FieldUnderway
    <3>3. q = [q2 EXCEPT !.body = b]
      OBVIOUS
    <3> QED
      BY <2>2, <3>2, <3>3, FieldUnderway
  <2>5. req' = [req EXCEPT ![r] = q]
    BY <2>3 DEF TypeOK
  <2> HIDE DEF q
  <2> QED
    BY <2>3, <2>4, <2>5, OneRequest DEF Underway
<1>4. CASE Receive(r)
  <2> DEFINE l == req[r].leader
             q == [req[r] EXCEPT !.strict = acked[l]]
             refused == [q EXCEPT !.phase = "replied", !.status = 426, !.answer = "plain"]
             opened == [q EXCEPT !.phase = "handling", !.answer = "cipher",
                                 !.body = IF q.body = "cipher" THEN "plain" ELSE q.body]
             passed == [q EXCEPT !.phase = "handling", !.answer = "plain"]
  <2>1. l \in Leaders /\ acked[l] \in BOOLEAN
    BY <1>4 DEF Receive, TypeOK
  <2>2. Underway(q)
    BY <1>0, <2>1, FieldUnderway DEF Underway
  <2>3. \/ req' = [req EXCEPT ![r] = refused]
        \/ req' = [req EXCEPT ![r] = opened]
        \/ req' = [req EXCEPT ![r] = passed]
    BY <1>4 DEF Receive
  <2>4. UNCHANGED <<leaderVars, memberVars>>
    BY <1>4 DEF Receive
  <2> HIDE DEF q
  <2>5. \A x \in {refused, opened, passed} : Underway(x)
    <3> DEFINE b == IF q.body = "cipher" THEN "plain" ELSE q.body
               q1 == [q EXCEPT !.phase = "handling"]
               o1 == [q1 EXCEPT !.answer = "cipher"]
               r1 == [q EXCEPT !.phase = "replied"]
               r2 == [r1 EXCEPT !.status = 426]
    <3>1. b \in Bodies /\ {"plain", "cipher"} \subseteq Bodies
      BY <2>2, FieldsOf DEF Bodies, Underway
    <3> HIDE DEF b
    <3>2. Underway(q1) /\ Underway(r1)
      BY <2>2, FieldUnderway DEF Phases
    <3>3. passed = [q1 EXCEPT !.answer = "plain"] /\ Underway(passed)
      BY <3>1, <3>2, FieldUnderway
    <3>4. opened = [o1 EXCEPT !.body = b] /\ Underway(o1) /\ Underway(opened)
      <4>1. opened = [o1 EXCEPT !.body = b]
        BY DEF b
      <4>2. Underway(o1)
        BY <3>1, <3>2, FieldUnderway
      <4> QED
        BY <3>1, <4>1, <4>2, FieldUnderway
    <3>5. Underway(r2)
      <4>1. 426 \in Statuses
        BY DEF Statuses
      <4>2. \A x \in Statuses : Underway([r1 EXCEPT !.status = x])
        BY <3>2, FieldUnderway
      <4> QED
        BY <4>1, <4>2
    <3>6. Underway(refused)
      <4>1. refused = [r2 EXCEPT !.answer = "plain"]
        OBVIOUS
      <4>2. \A x \in Bodies : Underway([r2 EXCEPT !.answer = x])
        BY <3>5, FieldUnderway
      <4> QED
        BY <3>1, <4>1, <4>2
    <3> QED
      BY <3>3, <3>4, <3>6
  <2> HIDE DEF refused, opened, passed
  <2> QED
    BY <2>3, <2>4, <2>5, OneRequest DEF Underway
<1>5. CASE Reply(r)
  <2> DEFINE st == IF req[r].body = "cipher" THEN 400 ELSE 200
             q == [req[r] EXCEPT !.phase = "replied", !.status = st]
  <2>1. st \in Statuses /\ req[r].leader \in Leaders
    BY <1>5 DEF Reply, TypeOK, Statuses
  <2>2. req' = [req EXCEPT ![r].phase = "replied", ![r].status = st]
        /\ UNCHANGED <<leaderVars, memberVars>>
    BY <1>5 DEF Reply
  <2> HIDE DEF st
  <2>3. Underway(q)
    <3> DEFINE q1 == [req[r] EXCEPT !.phase = "replied"]
    <3>1. Underway(q1)
      BY <1>0, <2>1, FieldUnderway DEF Phases, Underway
    <3>2. q = [q1 EXCEPT !.status = st]
      OBVIOUS
    <3> QED
      BY <2>1, <3>1, <3>2, FieldUnderway
  <2>4. req' = [req EXCEPT ![r] = q]
    BY <2>2 DEF TypeOK
  <2> HIDE DEF q
  <2> QED
    BY <2>2, <2>3, <2>4, OneRequest DEF Underway
<1>6. CASE Answer(r) \/ Fail(r)
  <2>1. req[r].status \in Statuses /\ 503 \in Statuses
    BY <1>0, FieldsOf DEF Statuses
  <2>2. \E s \in Statuses, a \in Bodies : req' = [req EXCEPT ![r] = Answered(req[r], s, a)]
    <3>1. req[r].answer \in Bodies /\ "plain" \in Bodies
      BY <1>0, FieldsOf DEF Bodies
    <3> QED
      BY <1>6, <2>1, <3>1, EndOf DEF EndsAs
  <2>3. UNCHANGED <<leaderVars, memberVars>>
    BY <1>6 DEF Answer, Fail
  <2> QED
    BY <1>0, <2>2, <2>3, AnsweredTyped, OneRequest
<1> QED
  BY <1>1, <1>2, <1>3, <1>4, <1>5, <1>6 DEF RequestStep, MemberStep

LEMMA StepTyped == TypeOK /\ [Next]_vars => TypeOK'
<1> SUFFICES ASSUME TypeOK, [Next]_vars PROVE TypeOK'
  OBVIOUS
<1>1. CASE UNCHANGED vars
  BY <1>1 DEF TypeOK, vars, leaderVars, memberVars
<1>2. CASE Next
  BY <1>2, StartTyped, StopTyped, NetTyped, PolicyTyped, RequestTyped
     DEF Next, PolicyStep, RequestStep
<1> QED
  BY <1>1, <1>2

\* The types hold in every reachable state (Gateway.tla; gateway.rs, link.rs,
\* discovery.rs)
THEOREM GatewayTypes == Spec => []TypeOK
<1>1. Init => TypeOK
  BY InitTyped
<1>2. TypeOK /\ [Next]_vars => TypeOK'
  BY StepTyped
<1> QED
  BY <1>1, <1>2, PTL DEF Spec
-----------------------------------------------------------------------------
(* What must be encrypted is *)

\* Of one request: a call to the static leader knows that there is one, what comes
\* with a token is never the exchange of a token, and StaticIsEncrypted
EncOK(q, s) ==
    /\ q.phase \in {"picked", "sent", "handling", "replied"} /\ q.by = "static" => s # None
    /\ q.token = TRUE => q.path \notin Exempt
    /\ /\ q.phase \in {"sent", "handling", "replied"} /\ q.by = "static"
       /\ mode # "off" /\ q.token = TRUE
       => q.enc = TRUE

EncInv == TypeOK /\ \A r \in Requests : EncOK(req[r], static)

LEMMA StaticStays == [Next]_vars => (static # None => static' # None) /\ mode' = mode
BY GatewayConstants
   DEF Next, vars, leaderVars, memberVars, StartLeader, StopLeader, Announce, LinkEncrypt,
       Truncate, Write, SetPolicy, Tick, SetStaticLeader, Request, MemberStep, Pick, Send,
       Answer, Receive, Reply, Fail, Leaders

\* A request that was answered, or has just arrived
LEMMA AnsweredEnc ==
    ASSUME NEW q \in ProxyCall, NEW s, NEW a
    PROVE  EncOK(Answered(q, s, a), static)
<1> DEFINE x == Answered(q, s, a)
<1>1. x.phase = "answered" /\ x.token = FALSE
  BY DEF Answered, ProxyCall
<1> HIDE DEF x
<1>2. EncOK(x, static)
  BY <1>1 DEF EncOK
<1> QED
  BY <1>2 DEF x

LEMMA EncStep ==
    ASSUME EncInv, NEW r \in Requests, RequestStep(r)
    PROVE  EncOK(req'[r], static)
<1>0. req[r] \in ProxyCall /\ EncOK(req[r], static) /\ req \in [Requests -> ProxyCall]
  BY DEF EncInv, TypeOK
<1>1. CASE Request(r)
  <2>0. PICK path \in Paths : \E token \in Auths(path) :
          req' = [req EXCEPT ![r] = [NoRequest EXCEPT !.phase = "arrived", !.path = path,
                                                      !.token = token]]
    BY <1>1 DEF Request
  <2>1. PICK token \in Auths(path) :
          req' = [req EXCEPT ![r] = [NoRequest EXCEPT !.phase = "arrived", !.path = path,
                                                      !.token = token]]
    BY <2>0
  <2>2. token = TRUE => path \notin Exempt
    BY DEF Auths, Exempt, Paths
  <2>3. /\ req'[r].phase = "arrived" /\ req'[r].path = path /\ req'[r].token = token
    BY <1>0, <2>1 DEF NoRequest
  <2> QED
    BY <2>2, <2>3 DEF EncOK
<1>2. CASE Pick(r)
  <2>1. CASE PickLeader = None
    BY <1>0, <1>2, <2>1, AnsweredEnc DEF Pick
  <2>2. CASE PickLeader # None
    <3>1. /\ req'[r].phase = "picked" /\ req'[r].path = req[r].path
          /\ req'[r].token = req[r].token
          /\ req'[r].by = IF static # None THEN "static" ELSE "lan"
      BY <1>0, <1>2, <2>2 DEF Pick
    <3> QED
      BY <1>0, <3>1 DEF EncOK
  <2> QED
    BY <2>1, <2>2
<1>3. CASE Send(r)
  <2> DEFINE enc == LinkEncrypts /\ req[r].path \notin Exempt /\ req[r].token
  <2>1. req[r].phase = "picked" /\ req'[r].phase = "sent" /\ req'[r].by = req[r].by
        /\ req'[r].path = req[r].path /\ req'[r].token = req[r].token /\ req'[r].enc = enc
    BY <1>0, <1>3 DEF Send
  <2>2. req[r].by = "static" /\ mode # "off" /\ req[r].token = TRUE => enc = TRUE
    BY <1>0, <2>1 DEF EncOK, LinkEncrypts
  <2> HIDE DEF enc
  <2> QED
    BY <1>0, <2>1, <2>2 DEF EncOK
<1>4. CASE Receive(r) \/ Reply(r)
  <2>1. /\ req[r].phase \in {"sent", "handling"} /\ req'[r].phase \in {"handling", "replied"}
        /\ req'[r].by = req[r].by /\ req'[r].path = req[r].path
        /\ req'[r].token = req[r].token /\ req'[r].enc = req[r].enc
    <3>1. CASE Receive(r)
      BY <1>0, <3>1 DEF Receive
    <3>2. CASE Reply(r)
      BY <1>0, <3>2 DEF Reply
    <3> QED
      BY <1>4, <3>1, <3>2
  <2> QED
    BY <1>0, <2>1 DEF EncOK
<1>5. CASE Answer(r) \/ Fail(r)
  <2>1. \E s, a : req' = [req EXCEPT ![r] = Answered(req[r], s, a)]
    BY <1>5, EndOf DEF EndsAs
  <2> QED
    BY <1>0, <2>1, AnsweredEnc
<1> QED
  BY <1>1, <1>2, <1>3, <1>4, <1>5 DEF RequestStep, MemberStep

\* What the other steps do to a request: nothing, or it is dropped
LEMMA OtherSteps ==
    ASSUME TypeOK, [Next]_vars, NEW r \in Requests, ~RequestStep(r)
    PROVE  req'[r] = req[r] \/ req'[r] = [req[r] EXCEPT !.phase = "dropped"]
<1>1. CASE \E x \in Requests : RequestStep(x)
  <2>1. PICK x \in Requests : RequestStep(x)
    BY <1>1
  <2>2. x # r
    BY <2>1
  <2>3. req \in [Requests -> ProxyCall]
    BY DEF TypeOK
  <2>4. req'[r] = req[r]
    <3>1. CASE Request(x) \/ Pick(x)
      BY <2>2, <2>3, <3>1 DEF Request, Pick
    <3>2. CASE Receive(x)
      BY <2>2, <2>3, <3>2 DEF Receive
    <3>3. CASE Answer(x) \/ Fail(x)
      BY <2>2, <2>3, <3>3 DEF Answer, Fail
    <3>4. CASE Send(x) \/ Reply(x)
      BY <2>2, <2>3, <3>4 DEF Send, Reply
    <3> QED
      BY <2>1, <3>1, <3>2, <3>3, <3>4 DEF RequestStep, MemberStep
  <2> QED
    BY <2>4
<1>2. CASE \E l \in Leaders : StopLeader(l)
  BY <1>2 DEF StopLeader
<1>3. CASE UNCHANGED req
  BY <1>3
<1> QED
  BY <1>1, <1>2, <1>3
     DEF Next, vars, StartLeader, Announce, LinkEncrypt, Truncate, Write, SetPolicy, Tick,
         SetStaticLeader, RequestStep

\* Neither the second look at the static leader nor a deep link that comes in
\* between lets a body or a token go to the other network in the clear
\* (gateway.rs 107, 124)
THEOREM StaticLinkIsEncrypted == Spec => []StaticIsEncrypted
<1>1. Init => EncInv
  BY InitTyped DEF Init, EncInv, EncOK, NoRequest
<1>2. EncInv /\ [Next]_vars => EncInv'
  <2> SUFFICES ASSUME EncInv, [Next]_vars, NEW r \in Requests PROVE EncOK(req[r], static)'
    BY StepTyped DEF EncInv
  <2>1. EncOK(req'[r], static)
    <3>1. CASE RequestStep(r)
      BY <3>1, EncStep
    <3>2. CASE ~RequestStep(r)
      <4>1. req'[r] = req[r] \/ req'[r] = [req[r] EXCEPT !.phase = "dropped"]
        BY <3>2, OtherSteps DEF EncInv
      <4>2. req[r] \in ProxyCall /\ EncOK(req[r], static)
        BY DEF EncInv, TypeOK
      <4> QED
        BY <4>1, <4>2 DEF EncOK, ProxyCall
    <3> QED
      BY <3>1, <3>2
  <2> QED
    BY <2>1, StaticStays DEF EncOK
<1>3. EncInv => StaticIsEncrypted
  <2> SUFFICES ASSUME EncInv, NEW r \in Requests
               PROVE  /\ req[r].phase \in {"sent", "handling", "replied"} /\ req[r].by = "static"
                      /\ mode # "off" /\ req[r].token
                      => req[r].enc
    BY DEF StaticIsEncrypted
  <2>1. req[r].token \in BOOLEAN /\ req[r].enc \in BOOLEAN
    BY FieldsOf DEF EncInv, TypeOK
  <2> QED
    BY <2>1 DEF EncInv, EncOK
<1> QED
  BY <1>1, <1>2, <1>3, PTL DEF Spec

-----------------------------------------------------------------------------
(* What was opened is answered sealed *)

\* Of one request: it is sealed, if at all, when it is sent; and from the moment it
\* was received it is settled how it will be answered
SealOK(q) ==
    /\ q.phase = "sent" /\ q.enc = TRUE => q.body # "plain"
    /\ q.phase \in {"handling", "replied"} =>
         /\ q.enc = TRUE /\ q.body = "plain" => q.answer = "cipher"
         /\ q.answer = "cipher" => q.enc = TRUE

SealInv == TypeOK /\ \A r \in Requests : SealOK(req[r])

\* What an answered request keeps of the one it was
LEMMA AnsweredFields ==
    ASSUME NEW q \in ProxyCall, NEW s, NEW a
    PROVE  LET x == Answered(q, s, a)
           IN  /\ x.phase = "answered" /\ x.status = s /\ x.answer = a /\ x.body = q.body
               /\ x.path = q.path /\ x.enc = q.enc /\ x.strict = q.strict
BY DEF Answered, ProxyCall

LEMMA SealStep ==
    ASSUME SealInv, NEW r \in Requests, RequestStep(r)
    PROVE  SealOK(req'[r])
<1>0. req[r] \in ProxyCall /\ SealOK(req[r]) /\ req \in [Requests -> ProxyCall]
  BY DEF SealInv, TypeOK
<1>1. CASE Request(r) \/ Pick(r) \/ Answer(r) \/ Fail(r)
  <2>1. req'[r].phase \in {"arrived", "picked", "answered"}
    <3>1. CASE Request(r)
      BY <1>0, <3>1 DEF Request, NoRequest
    <3>2. CASE Pick(r)
      <4>1. CASE PickLeader = None
        BY <1>0, <3>2, <4>1, AnsweredFields DEF Pick
      <4>2. CASE PickLeader # None
        BY <1>0, <3>2, <4>2 DEF Pick
      <4> QED
        BY <4>1, <4>2
    <3>3. CASE Answer(r) \/ Fail(r)
      <4>1. \E s, a : req' = [req EXCEPT ![r] = Answered(req[r], s, a)]
        BY <3>3, EndOf DEF EndsAs
      <4> QED
        BY <1>0, <4>1, AnsweredFields
    <3> QED
      BY <1>1, <3>1, <3>2, <3>3
  <2> QED
    BY <2>1 DEF SealOK
<1>2. CASE Send(r)
  <2> DEFINE enc == LinkEncrypts /\ req[r].path \notin Exempt /\ req[r].token
  <2>1. /\ req'[r].phase = "sent" /\ req'[r].enc = enc
        /\ req'[r].body = IF ~IsPost(req[r].path) THEN "none"
                          ELSE IF enc THEN "cipher" ELSE "plain"
    BY <1>0, <1>2 DEF Send
  <2> HIDE DEF enc
  <2> QED
    BY <2>1 DEF SealOK
<1>3. CASE Receive(r)
  <2> DEFINE l == req[r].leader
  <2>0. req[r].phase = "sent" /\ req'[r].enc = req[r].enc /\ req[r].enc \in BOOLEAN
    BY <1>0, <1>3, FieldsOf DEF Receive
  <2>1. CASE Refuses(leader[l].policy, r)
    <3>1. ~req[r].enc /\ req'[r].answer = "plain"
      BY <1>0, <1>3, <2>1 DEF Receive, Refuses
    <3> QED
      BY <2>0, <3>1 DEF SealOK
  <2>2. CASE ~Refuses(leader[l].policy, r) /\ Decrypts(leader[l].policy, r)
    <3>1. req[r].enc /\ req'[r].answer = "cipher"
      BY <1>0, <1>3, <2>2 DEF Receive, Decrypts
    <3>2. req'[r].phase = "handling"
      BY <1>0, <1>3, <2>2 DEF Receive
    <3> QED
      BY <2>0, <3>1, <3>2 DEF SealOK
  <2>3. CASE ~Refuses(leader[l].policy, r) /\ ~Decrypts(leader[l].policy, r)
    <3>1. req'[r].phase = "handling" /\ req'[r].answer = "plain" /\ req'[r].body = req[r].body
      BY <1>0, <1>3, <2>3 DEF Receive
    <3> QED
      BY <1>0, <2>0, <3>1 DEF SealOK
  <2> QED
    BY <2>1, <2>2, <2>3
<1>4. CASE Reply(r)
  <2>1. /\ req[r].phase = "handling" /\ req'[r].phase = "replied"
        /\ req'[r].body = req[r].body /\ req'[r].answer = req[r].answer
        /\ req'[r].enc = req[r].enc
    BY <1>0, <1>4 DEF Reply
  <2> QED
    BY <1>0, <2>1 DEF SealOK
<1> QED
  BY <1>1, <1>2, <1>3, <1>4 DEF RequestStep, MemberStep

\* Whatever the policy is when the handler answers: what was opened is answered
\* sealed, and a sealed answer goes to nobody without the key (link.rs 58-118)
THEOREM AnswersAreSealed == Spec => []OpenedIsSealed
<1>1. Init => SealInv
  BY InitTyped DEF Init, SealInv, SealOK, NoRequest
<1>2. SealInv /\ [Next]_vars => SealInv'
  <2> SUFFICES ASSUME SealInv, [Next]_vars, NEW r \in Requests PROVE SealOK(req'[r])
    BY StepTyped DEF SealInv
  <2>1. CASE RequestStep(r)
    BY <2>1, SealStep
  <2>2. CASE ~RequestStep(r)
    <3>1. req'[r] = req[r] \/ req'[r] = [req[r] EXCEPT !.phase = "dropped"]
      BY <2>2, OtherSteps DEF SealInv
    <3>2. req[r] \in ProxyCall /\ SealOK(req[r])
      BY DEF SealInv, TypeOK
    <3> QED
      BY <3>1, <3>2 DEF SealOK, ProxyCall
  <2> QED
    BY <2>1, <2>2
<1>3. SealInv => OpenedIsSealed
  <2> SUFFICES ASSUME SealInv, NEW r \in Requests, req[r].phase = "replied"
               PROVE  /\ req[r].enc /\ req[r].body = "plain" => req[r].answer = "cipher"
                      /\ req[r].answer = "cipher" => req[r].enc
    BY DEF OpenedIsSealed
  <2>1. req[r].enc \in BOOLEAN
    BY FieldsOf DEF SealInv, TypeOK
  <2> QED
    BY <2>1 DEF SealInv, SealOK
<1> QED
  BY <1>1, <1>2, <1>3, PTL DEF Spec

-----------------------------------------------------------------------------
(* An acknowledged enforce holds *)

\* A leader that was told to enforce does, its file says so, and no call is about
\* to change either
AckedOK(l) ==
    acked[l] = TRUE =>
        /\ leader[l].policy = "enforce" /\ leader[l].file = "enforce"
        /\ \A c \in Deep \X Calls : c[1] = l => ~UnderWay(c)

\* A sound call is alone at its leader, and the file is as it has left it
SoundOK(c) ==
    calls[c].sound = TRUE /\ UnderWay(c) =>
        /\ \A d \in Deep \X Calls : d[1] = c[1] /\ d # c => ~UnderWay(d)
        /\ calls[c].pc = "write" => leader[c[1]].file = "empty"
        /\ calls[c].pc = "set" => leader[c[1]].file = calls[c].policy

PolicyInv ==
    /\ \A l \in Leaders : AckedOK(l)
    /\ \A c \in Deep \X Calls : SoundOK(c)

\* Of one request: what was received under an acknowledged enforce is encrypted
StrictOK(q) ==
    /\ q.phase \in {"arrived", "picked", "sent"} => q.strict # TRUE
    /\ q.strict = TRUE /\ IsModel(q.path) /\ (q.phase = "handling" \/ q.status = 200)
       => q.enc = TRUE

EnforceInv == TypeOK /\ PolicyInv /\ \A r \in Requests : StrictOK(req[r])

LEMMA StartPolicy ==
    ASSUME TypeOK, PolicyInv, NEW l \in Leaders, StartLeader(l)
    PROVE  PolicyInv'
<1>1. PICK bound \in BOOLEAN :
        leader' = [leader EXCEPT ![l].up = TRUE, ![l].announcing = bound,
                                 ![l].policy = Assembled(leader[l].file)]
  BY DEF StartLeader
<1>2. /\ \A k \in Leaders : leader'[k].file = leader[k].file
      /\ \A k \in Leaders \ {l} : leader'[k].policy = leader[k].policy
      /\ leader'[l].policy = Assembled(leader[l].file)
  BY <1>1 DEF TypeOK, ShareServer
<1>3. UNCHANGED <<calls, acked>>
  BY DEF StartLeader
<1>4. leader[l].policy \in Modes
  BY DEF TypeOK, ShareServer
<1>5. ASSUME NEW k \in Leaders PROVE AckedOK(k)'
  BY <1>2, <1>3, <1>4 DEF PolicyInv, AckedOK, Assembled, Parse, UnderWay
<1>6. ASSUME NEW c \in Deep \X Calls PROVE SoundOK(c)'
  <2>1. c[1] \in Leaders
    BY DEF Leaders
  <2> QED
    BY <1>2, <1>3, <2>1 DEF PolicyInv, SoundOK, UnderWay
<1> QED
  BY <1>5, <1>6 DEF PolicyInv

LEMMA StopPolicy ==
    ASSUME TypeOK, PolicyInv, NEW l \in Leaders, StopLeader(l)
    PROVE  PolicyInv'
<1>1. /\ \A k \in Leaders : leader'[k].file = leader[k].file
      /\ \A k \in Leaders : leader'[k].policy = leader[k].policy
  BY DEF TypeOK, ShareServer, StopLeader
<1>2. /\ UNCHANGED acked
      /\ \A c \in Deep \X Calls : calls'[c] \in {calls[c], Done}
  BY DEF StopLeader, TypeOK
<1>3. Done.pc = "done"
  BY DEF Done
<1>4. \A c \in Deep \X Calls : UnderWay(c)' => UnderWay(c) /\ calls'[c] = calls[c]
  BY <1>2, <1>3 DEF UnderWay
<1>5. ASSUME NEW k \in Leaders PROVE AckedOK(k)'
  BY <1>1, <1>2, <1>4 DEF PolicyInv, AckedOK
<1>6. ASSUME NEW c \in Deep \X Calls PROVE SoundOK(c)'
  <2>1. c[1] \in Leaders
    BY DEF Leaders
  <2> QED
    BY <1>1, <1>4, <2>1 DEF PolicyInv, SoundOK
<1> QED
  BY <1>5, <1>6 DEF PolicyInv

LEMMA CallPolicy ==
    ASSUME TypeOK, PolicyInv, NEW l \in Deep, NEW n \in Calls, PolicyStep(l, n)
    PROVE  PolicyInv'
<1> DEFINE a == <<l, n>>
<1>0. a \in Deep \X Calls /\ a[1] = l /\ l \in Leaders
  BY DEF Leaders
<1>1. CASE LinkEncrypt(l, n)
  <2> DEFINE alone == \A m \in Calls : ~UnderWay(<<l, m>>)
  <2>1. /\ UNCHANGED leader
        /\ acked' = [acked EXCEPT ![l] = FALSE]
        /\ calls[a].pc = "none"
    BY <1>1 DEF LinkEncrypt
  <2>2. PICK text \in Modes \cup {"mixed"} :
          calls' = [c \in DOMAIN calls |->
                     IF c = <<l, n>>
                     THEN [pc |-> "truncate", policy |-> Parse(text),
                           sound |-> \A m \in Calls : ~UnderWay(<<l, m>>)]
                     ELSE IF c[1] = l THEN [calls[c] EXCEPT !.sound = FALSE] ELSE calls[c]]
    BY <1>1 DEF LinkEncrypt
  <2>3. /\ calls'[a].pc = "truncate" /\ calls'[a].sound = alone
        /\ \A c \in Deep \X Calls : c # a => /\ calls'[c].pc = calls[c].pc
                                            /\ calls'[c].policy = calls[c].policy
                                            /\ calls'[c].sound = IF c[1] = l THEN FALSE
                                                                ELSE calls[c].sound
    BY <1>0, <2>2 DEF TypeOK, PolicyCall
  <2>4. alone = TRUE => \A d \in Deep \X Calls : d[1] = l => ~UnderWay(d)
    OBVIOUS
  <2> HIDE DEF a, alone
  <2>0. \A c \in Deep \X Calls : c # a => (UnderWay(c)' <=> UnderWay(c))
    BY <2>3 DEF UnderWay
  <2>5. ASSUME NEW k \in Leaders PROVE AckedOK(k)'
    <3>1. CASE k = l
      BY <2>1, <3>1 DEF AckedOK, TypeOK
    <3>2. CASE k # l
      <4>1. acked'[k] = acked[k] /\ leader' = leader
        BY <2>1, <3>2 DEF TypeOK
      <4>2. \A c \in Deep \X Calls : c[1] = k => c # a
        BY <1>0, <3>2
      <4> QED
        BY <2>0, <4>1, <4>2 DEF PolicyInv, AckedOK
    <3> QED
      BY <3>1, <3>2
  <2>6. ASSUME NEW c \in Deep \X Calls PROVE SoundOK(c)'
    <3>1. CASE c = a
      BY <1>0, <2>3, <2>4, <3>1 DEF SoundOK, UnderWay
    <3>2. CASE c # a /\ c[1] = l
      BY <2>3, <3>2 DEF SoundOK
    <3>3. CASE c # a /\ c[1] # l
      <4>1. \A d \in Deep \X Calls : d[1] = c[1] => d # a
        BY <1>0, <3>3
      <4> QED
        <5>1. /\ leader' = leader /\ calls'[c].sound = calls[c].sound
              /\ calls'[c].pc = calls[c].pc /\ calls'[c].policy = calls[c].policy
          BY <2>1, <2>3, <3>3
        <5> QED
          BY <2>0, <3>3, <4>1, <5>1 DEF PolicyInv, SoundOK
    <3> QED
      BY <3>1, <3>2, <3>3
  <2> QED
    BY <2>5, <2>6 DEF PolicyInv
<1>2. CASE Truncate(l, n) \/ Write(l, n) \/ SetPolicy(l, n)
  <2>1. UnderWay(a) /\ acked[l] # TRUE
    BY <1>0, <1>2 DEF Truncate, Write, SetPolicy, UnderWay, PolicyInv, AckedOK
  <2>2. \A c \in Deep \X Calls : c # a => calls'[c] = calls[c]
    BY <1>2 DEF Truncate, Write, SetPolicy, TypeOK
  <2>3. \A k \in Leaders : k # l => leader'[k] = leader[k] /\ acked'[k] = acked[k]
    BY <1>2 DEF Truncate, Write, SetPolicy, TypeOK
  <2>4. /\ calls[a] \in PolicyCall /\ leader[l] \in ShareServer
        /\ calls[a].sound \in BOOLEAN /\ calls[a].policy \in Modes
    BY <1>0 DEF TypeOK, PolicyCall
  \* The step itself
  <2>5. SoundOK(a)' /\ AckedOK(l)'
    <3>1. CASE Truncate(l, n) \/ Write(l, n)
      <4>1. acked'[l] # TRUE
        BY <2>1, <3>1 DEF Truncate, Write
      <4>2. \/ /\ calls[a].pc = "truncate" /\ leader'[l].file = "empty"
               /\ calls'[a] = [calls[a] EXCEPT !.pc = "write"]
            \/ /\ calls[a].pc = "write"
               /\ leader'[l].file = Overwrite(leader[l].file, calls[a].policy)
               /\ calls'[a] = [calls[a] EXCEPT !.pc = "set"]
            \/ calls'[a].sound = FALSE
        <5>1. leader \in [Leaders -> ShareServer] /\ calls \in [Deep \X Calls -> PolicyCall]
          BY DEF TypeOK
        <5>2. CASE Truncate(l, n)
          <6>1. \/ /\ leader' = [leader EXCEPT ![l].file = "empty"]
                   /\ calls' = [calls EXCEPT ![a].pc = "write"]
                \/ calls' = [calls EXCEPT ![a].pc = "set", ![a].sound = FALSE]
            BY <5>2, Zenon DEF Truncate
          <6>2. calls[a].pc = "truncate"
            BY <5>2 DEF Truncate
          <6> HIDE DEF a
          <6> QED
            BY <1>0, <2>4, <5>1, <6>1, <6>2 DEF ShareServer, PolicyCall
        <5>3. CASE Write(l, n)
          <6>1. \/ /\ leader' = [leader EXCEPT ![l].file =
                                    Overwrite(leader[l].file, calls[a].policy)]
                   /\ calls' = [calls EXCEPT ![a].pc = "set"]
                \/ calls' = [calls EXCEPT ![a].pc = "set", ![a].sound = FALSE]
            BY <5>3, Zenon DEF Write
          <6>2. calls[a].pc = "write"
            BY <5>3 DEF Write
          <6> HIDE DEF a
          <6> QED
            BY <1>0, <2>4, <5>1, <6>1, <6>2 DEF ShareServer, PolicyCall
        <5> QED
          BY <3>1, <5>2, <5>3
      <4>3. calls[a].sound = TRUE /\ calls[a].pc = "write" => leader[l].file = "empty"
        BY <1>0, <2>1 DEF PolicyInv, SoundOK
      <4>4. calls[a].sound = TRUE => \A d \in Deep \X Calls : d[1] = l /\ d # a => ~UnderWay(d)
        BY <1>0, <2>1 DEF PolicyInv, SoundOK
      <4> HIDE DEF a
      <4>5. \A d \in Deep \X Calls : d # a => (UnderWay(d)' <=> UnderWay(d))
        BY <2>2 DEF UnderWay
      <4>6. SoundOK(a)'
        BY <1>0, <2>4, <4>2, <4>3, <4>4, <4>5 DEF SoundOK, UnderWay, Overwrite, PolicyCall
      <4> QED
        BY <4>1, <4>6 DEF AckedOK
    <3>2. CASE SetPolicy(l, n)
      <4>1. /\ calls[a].pc = "set" /\ calls'[a] = Done
            /\ leader'[l].policy = calls[a].policy /\ leader'[l].file = leader[l].file
            /\ acked'[l] = (calls[a].policy = "enforce" /\ calls[a].sound)
        BY <1>0, <2>4, <3>2 DEF SetPolicy, TypeOK, ShareServer
      <4>2. calls[a].sound = TRUE =>
              /\ \A d \in Deep \X Calls : d[1] = l /\ d # a => ~UnderWay(d)
              /\ leader[l].file = calls[a].policy
        BY <1>0, <2>1, <4>1 DEF PolicyInv, SoundOK
      <4>3. ~UnderWay(a)'
        BY <4>1 DEF UnderWay, Done
      <4>4. acked'[l] = TRUE => calls[a].policy = "enforce" /\ calls[a].sound = TRUE
        BY <2>4, <4>1
      <4> HIDE DEF a
      <4>5. \A d \in Deep \X Calls : d # a => (UnderWay(d)' <=> UnderWay(d))
        BY <2>2 DEF UnderWay
      <4>6. AckedOK(l)'
        BY <4>1, <4>2, <4>3, <4>4, <4>5 DEF AckedOK
      <4> QED
        BY <4>3, <4>6 DEF SoundOK
    <3> QED
      BY <1>2, <3>1, <3>2
  \* The other calls of the leader are not sound, or not under way
  <2> HIDE DEF a
  <2>6. ASSUME NEW k \in Leaders, k # l PROVE AckedOK(k)'
    <3>1. \A c \in Deep \X Calls : c[1] = k => (UnderWay(c)' <=> UnderWay(c))
      BY <1>0, <2>2, <2>6 DEF UnderWay
    <3> QED
      BY <2>3, <2>6, <3>1 DEF PolicyInv, AckedOK
  <2>7. ASSUME NEW c \in Deep \X Calls, c # a, c[1] = l PROVE SoundOK(c)'
    <3>1. ~(calls[c].sound = TRUE /\ UnderWay(c))
      BY <1>0, <2>1, <2>7 DEF PolicyInv, SoundOK
    <3> QED
      BY <2>2, <2>7, <3>1 DEF SoundOK, UnderWay
  <2>8. ASSUME NEW c \in Deep \X Calls, c # a, c[1] # l PROVE SoundOK(c)'
    <3>1. \A d \in Deep \X Calls : d[1] = c[1] => calls'[d] = calls[d]
      BY <1>0, <2>2, <2>8
    <3>2. c[1] \in Leaders
      BY DEF Leaders
    <3> QED
      BY <2>3, <2>8, <3>1, <3>2 DEF PolicyInv, SoundOK, UnderWay
  <2> QED
    BY <2>5, <2>6, <2>7, <2>8 DEF PolicyInv
<1> QED
  BY <1>1, <1>2 DEF PolicyStep

LEMMA PolicyKept ==
    ASSUME TypeOK, PolicyInv, [Next]_vars
    PROVE  PolicyInv'
<1>1. CASE UNCHANGED <<leader, calls, acked>>
  BY <1>1 DEF PolicyInv, AckedOK, SoundOK, UnderWay
<1>2. CASE ~UNCHANGED <<leader, calls, acked>>
  BY <1>2, StartPolicy, StopPolicy, CallPolicy
     DEF Next, vars, leaderVars, PolicyStep, Announce, Tick, SetStaticLeader, Request, MemberStep,
         Pick, Send, Answer, Receive, Reply, Fail
<1> QED
  BY <1>1, <1>2

LEMMA StrictStep ==
    ASSUME EnforceInv, NEW r \in Requests, RequestStep(r)
    PROVE  StrictOK(req'[r])
<1>0. req[r] \in ProxyCall /\ StrictOK(req[r]) /\ req \in [Requests -> ProxyCall]
  BY DEF EnforceInv, TypeOK
<1>1. CASE Request(r)
  <2>1. req'[r].phase = "arrived" /\ req'[r].strict = FALSE
    BY <1>0, <1>1 DEF Request, NoRequest
  <2> QED
    BY <2>1 DEF StrictOK
<1>2. CASE Pick(r)
  <2>1. CASE PickLeader = None
    <3>1. req'[r] = Answered(req[r], 503, "plain")
      BY <1>0, <1>2, <2>1 DEF Pick
    <3>2. req'[r].phase = "answered" /\ req'[r].status = 503
      BY <1>0, <3>1, AnsweredFields
    <3> QED
      BY <3>2 DEF StrictOK
  <2>2. CASE PickLeader # None
    <3>1. /\ req[r].phase = "arrived" /\ req'[r].phase = "picked"
          /\ req'[r].strict = req[r].strict
      BY <1>0, <1>2, <2>2 DEF Pick
    <3> QED
      BY <1>0, <3>1 DEF StrictOK
  <2> QED
    BY <2>1, <2>2
<1>3. CASE Send(r)
  <2>1. req[r].phase = "picked" /\ req'[r].phase = "sent" /\ req'[r].strict = req[r].strict
    BY <1>0, <1>3 DEF Send
  <2> QED
    BY <1>0, <2>1 DEF StrictOK
<1>4. CASE Receive(r)
  <2> DEFINE l == req[r].leader
  <2>1. l \in Leaders /\ req[r].enc \in BOOLEAN /\ acked[l] \in BOOLEAN
    BY <1>0, <1>4, FieldsOf DEF Receive, EnforceInv, TypeOK
  <2>2. acked[l] = TRUE => leader[l].policy = "enforce"
    BY <2>1 DEF EnforceInv, PolicyInv, AckedOK
  <2>3. CASE Refuses(leader[l].policy, r)
    <3>1. req'[r].phase = "replied" /\ req'[r].status = 426
      BY <1>0, <1>4, <2>3 DEF Receive
    <3> QED
      BY <3>1 DEF StrictOK
  <2>4. CASE ~Refuses(leader[l].policy, r)
    <3>1. /\ req'[r].phase = "handling" /\ req'[r].strict = acked[l]
          /\ req'[r].path = req[r].path /\ req'[r].enc = req[r].enc
      BY <1>0, <1>4, <2>4 DEF Receive
    <3>2. acked[l] = TRUE /\ IsModel(req[r].path) => req[r].enc = TRUE
      BY <2>1, <2>2, <2>4 DEF Refuses, IsModel, Exempt
    <3> QED
      BY <3>1, <3>2 DEF StrictOK
  <2> QED
    BY <2>3, <2>4
<1>5. CASE Reply(r)
  <2>1. /\ req[r].phase = "handling" /\ req'[r].phase = "replied"
        /\ req'[r].strict = req[r].strict /\ req'[r].path = req[r].path
        /\ req'[r].enc = req[r].enc
    BY <1>0, <1>5 DEF Reply
  <2> QED
    BY <1>0, <2>1 DEF StrictOK
<1>6. CASE Answer(r) \/ Fail(r)
  <2>1. \E s, a : req'[r] = Answered(req[r], s, a) /\ s \in {req[r].status, 503}
    BY <1>0, <1>6, EndOf DEF EndsAs
  <2>2. /\ req'[r].phase = "answered" /\ req'[r].status \in {req[r].status, 503}
        /\ req'[r].strict = req[r].strict /\ req'[r].path = req[r].path
        /\ req'[r].enc = req[r].enc
    BY <1>0, <2>1, AnsweredFields
  <2> QED
    BY <1>0, <2>2 DEF StrictOK
<1> QED
  BY <1>1, <1>2, <1>3, <1>4, <1>5, <1>6 DEF RequestStep, MemberStep

\* Once the panel was told that the policy enforces, by a call that was alone and
\* could write the file, no model request in the clear is handled until the next
\* call, neither by this program nor, after a crash, by the next
\* (api.rs 422-434, server.rs 78-82)
THEOREM EnforceSurvives == Spec => []EnforceHolds
<1>1. Init => EnforceInv
  <2> SUFFICES ASSUME Init PROVE EnforceInv
    OBVIOUS
  <2>1. \A l \in Leaders : acked[l] = FALSE
    BY DEF Init
  <2>2. \A c \in Deep \X Calls : calls[c].sound = FALSE
    BY DEF Init
  <2>3. \A r \in Requests : req[r].phase = "idle" /\ req[r].strict = FALSE
    BY DEF Init, NoRequest
  <2> QED
    BY <2>1, <2>2, <2>3, InitTyped DEF EnforceInv, PolicyInv, AckedOK, SoundOK, StrictOK
<1>2. EnforceInv /\ [Next]_vars => EnforceInv'
  <2> SUFFICES ASSUME EnforceInv, [Next]_vars, NEW r \in Requests PROVE StrictOK(req'[r])
    BY StepTyped, PolicyKept DEF EnforceInv
  <2>1. CASE RequestStep(r)
    BY <2>1, StrictStep
  <2>2. CASE ~RequestStep(r)
    <3>1. req'[r] = req[r] \/ req'[r] = [req[r] EXCEPT !.phase = "dropped"]
      BY <2>2, OtherSteps DEF EnforceInv
    <3>2. req[r] \in ProxyCall /\ StrictOK(req[r])
      BY DEF EnforceInv, TypeOK
    <3>3. /\ req'[r].phase \in {req[r].phase, "dropped"} /\ req'[r].status = req[r].status
          /\ req'[r].strict = req[r].strict /\ req'[r].path = req[r].path
          /\ req'[r].enc = req[r].enc
      BY <3>1, <3>2 DEF ProxyCall
    <3> QED
      BY <3>2, <3>3 DEF StrictOK
  <2> QED
    BY <2>1, <2>2
<1>3. EnforceInv => EnforceHolds
  <2> SUFFICES ASSUME EnforceInv, NEW r \in Requests
               PROVE  /\ req[r].strict /\ IsModel(req[r].path)
                      /\ req[r].phase = "handling" \/ req[r].status = 200
                      => req[r].enc
    BY DEF EnforceHolds
  <2>1. req[r].strict \in BOOLEAN /\ req[r].enc \in BOOLEAN
    BY DEF EnforceInv, TypeOK, ProxyCall
  <2> QED
    BY <2>1 DEF EnforceInv, StrictOK
<1> QED
  BY <1>1, <1>2, <1>3, PTL DEF Spec
=============================================================================
