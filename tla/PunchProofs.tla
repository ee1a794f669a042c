---------------------------- MODULE PunchProofs ----------------------------
(***************************************************************************)
(* Proofs about Punch: its types, that a fingerprint once given stays the  *)
(* one that is served, and that a member has one endpoint at the leader.   *)
(***************************************************************************)
EXTENDS Punch, TLAPS

-----------------------------------------------------------------------------
(* Types *)

Pcs == {"down", "failed", "up"} \cup Waiting

Tcps == {"none", "accepted", "opened", "bridged"}

Others == <<mail, inbox, leaderVars, net>>

LEMMA SeqParts ==
    ASSUME NEW S, NEW s \in Seq(S), s # <<>>
    PROVE  Head(s) \in S /\ Tail(s) \in Seq(S)
OBVIOUS

LEMMA SeqAppend ==
    ASSUME NEW S, NEW s \in Seq(S), NEW x \in S
    PROVE  Append(s, x) \in Seq(S)
OBVIOUS

LEMMA EmptySeq == ASSUME NEW S PROVE <<>> \in Seq(S)
OBVIOUS

\* The parts of TypeOK: the members, and the rest
MembersOK ==
    /\ member \in [Members -> JoinTask]
    /\ tcp \in [Members -> Tcps]
    /\ \A m \in Members : JoinOK(member[m], tcp[m])

ServerOK == mail \in [Members -> Seq(Reply)] /\ inbox \in Seq(Message)

LeaderOK ==
    /\ leader \in Session
    /\ leader.pc = "punch" => leader.batch # <<>>
    /\ ends \subseteq Join
    /\ files \in Pair
    /\ crashes \in 0..MaxCrash

NetOK == net \subseteq Datagram

LEMMA TypeParts == TypeOK <=> MembersOK /\ ServerOK /\ LeaderOK /\ NetOK
BY DEF TypeOK, MembersOK, ServerOK, LeaderOK, NetOK, Tcps

LEMMA TypePartsNext == TypeOK' <=> MembersOK' /\ ServerOK' /\ LeaderOK' /\ NetOK'
BY DEF TypeOK, MembersOK, ServerOK, LeaderOK, NetOK, Tcps

LEMMA InitTyped == Init => TypeOK
<1> SUFFICES ASSUME Init PROVE TypeOK
  OBVIOUS
<1>1. \A m \in Members : member[m] \in JoinTask
  BY PunchConstants DEF Init, JoinTask
<1>2. \A m \in Members : JoinOK(member[m], tcp[m])
  BY DEF Init, JoinOK
<1>3. MembersOK
  BY <1>1, <1>2 DEF Init, MembersOK, Tcps
<1>4. ServerOK
  BY EmptySeq DEF Init, ServerOK
<1>5. leader \in Session
  BY EmptySeq DEF Init, Session
<1>6. LeaderOK
  BY <1>5, PunchConstants DEF Init, LeaderOK, Pair
<1>7. NetOK
  BY DEF Init, NetOK
<1> QED
  BY <1>3, <1>4, <1>6, <1>7, TypeParts

\* A step of one member's task, or of the connection to its port, and of nothing else
LEMMA OneMember ==
    ASSUME TypeOK, NEW m \in Members, NEW k \in JoinTask, NEW c \in Tcps, JoinOK(k, c),
           member' = [member EXCEPT ![m] = k], tcp' = [tcp EXCEPT ![m] = c]
    PROVE  MembersOK'
<1>1. member' \in [Members -> JoinTask] /\ tcp' \in [Members -> Tcps]
  BY DEF TypeOK, Tcps
<1>2. \A x \in Members : JoinOK(member'[x], tcp'[x])
  BY DEF TypeOK
<1> QED
  BY <1>1, <1>2 DEF MembersOK

\* The fields of a join task, one at a time
LEMMA FieldTyped ==
    ASSUME NEW k \in JoinTask
    PROVE  /\ \A x \in Pcs : [k EXCEPT !.pc = x] \in JoinTask
           /\ \A x \in 0..MaxTry : [k EXCEPT !.try = x] \in JoinTask
           /\ \A x \in 0..MaxTry : [k EXCEPT !.id = x] \in JoinTask
           /\ \A x \in Reply \cup {None} : [k EXCEPT !.reply = x] \in JoinTask
           /\ \A x \in Addresses \cup {None} : [k EXCEPT !.peer = x] \in JoinTask
           /\ \A x \in {None, "direct", "tunnel"} : [k EXCEPT !.via = x] \in JoinTask
           /\ \A x \in BOOLEAN : [k EXCEPT !.conn = x] \in JoinTask
<1>1. \A x \in Pcs : [k EXCEPT !.pc = x] \in JoinTask
  BY DEF JoinTask, Pcs
<1>2. \A x \in 0..MaxTry : [k EXCEPT !.try = x] \in JoinTask
  BY DEF JoinTask
<1>3. \A x \in 0..MaxTry : [k EXCEPT !.id = x] \in JoinTask
  BY DEF JoinTask
<1>4. \A x \in Reply \cup {None} : [k EXCEPT !.reply = x] \in JoinTask
  BY DEF JoinTask
<1>5. \A x \in Addresses \cup {None} : [k EXCEPT !.peer = x] \in JoinTask
  BY DEF JoinTask
<1>6. \A x \in {None, "direct", "tunnel"} : [k EXCEPT !.via = x] \in JoinTask
  BY DEF JoinTask
<1>7. \A x \in BOOLEAN : [k EXCEPT !.conn = x] \in JoinTask
  BY DEF JoinTask
<1> QED
  BY <1>1, <1>2, <1>3, <1>4, <1>5, <1>6, <1>7

\* Two fields at once, as the steps write them
LEMMA PairTyped ==
    ASSUME NEW k \in JoinTask, NEW p \in Pcs
    PROVE  /\ \A x \in Reply : [k EXCEPT !.pc = p, !.reply = x] \in JoinTask
           /\ \A x \in Addresses : [k EXCEPT !.pc = p, !.peer = x] \in JoinTask
           /\ \A x \in {"direct", "tunnel"} : [k EXCEPT !.pc = p, !.via = x] \in JoinTask
           /\ \A x \in BOOLEAN : [k EXCEPT !.pc = p, !.conn = x] \in JoinTask
<1> DEFINE q == [k EXCEPT !.pc = p]
<1>1. q \in JoinTask
  BY FieldTyped
<1> HIDE DEF q
<1>2. /\ \A x \in Reply : [q EXCEPT !.reply = x] \in JoinTask
      /\ \A x \in Addresses : [q EXCEPT !.peer = x] \in JoinTask
      /\ \A x \in {"direct", "tunnel"} : [q EXCEPT !.via = x] \in JoinTask
      /\ \A x \in BOOLEAN : [q EXCEPT !.conn = x] \in JoinTask
  BY <1>1, FieldTyped
<1>3. /\ \A x : [k EXCEPT !.pc = p, !.reply = x] = [q EXCEPT !.reply = x]
      /\ \A x : [k EXCEPT !.pc = p, !.peer = x] = [q EXCEPT !.peer = x]
      /\ \A x : [k EXCEPT !.pc = p, !.via = x] = [q EXCEPT !.via = x]
      /\ \A x : [k EXCEPT !.pc = p, !.conn = x] = [q EXCEPT !.conn = x]
  BY DEF q
<1> QED
  BY <1>2, <1>3

LEMMA PairFields ==
    ASSUME NEW k \in JoinTask, NEW p \in Pcs
    PROVE  /\ \A x : LET q == [k EXCEPT !.pc = p, !.reply = x]
                     IN  q.pc = p /\ q.reply = x /\ q.try = k.try /\ q.id = k.id /\ q.conn = k.conn
           /\ \A x : LET q == [k EXCEPT !.pc = p, !.peer = x]
                     IN  q.pc = p /\ q.reply = k.reply /\ q.try = k.try /\ q.id = k.id /\ q.conn = k.conn
           /\ \A x : LET q == [k EXCEPT !.pc = p, !.via = x]
                     IN  q.pc = p /\ q.reply = k.reply /\ q.try = k.try /\ q.id = k.id /\ q.conn = k.conn
           /\ \A x : LET q == [k EXCEPT !.pc = p, !.conn = x]
                     IN  q.pc = p /\ q.reply = k.reply /\ q.try = k.try /\ q.id = k.id /\ q.conn = x
BY DEF JoinTask

LEMMA FieldsOf ==
    ASSUME NEW k \in JoinTask
    PROVE  /\ k.pc \in Pcs /\ k.try \in 0..MaxTry /\ k.id \in 0..MaxTry
           /\ k.reply \in Reply \cup {None} /\ k.peer \in Addresses \cup {None}
           /\ k.conn \in BOOLEAN
BY DEF JoinTask, Pcs

\* Whoever has started its program has a join
LEMMA ThisTyped ==
    ASSUME TypeOK, NEW m \in Members, member[m].pc # "down"
    PROVE  /\ This(m) \in Join
           /\ At("member", This(m)) \in Addresses /\ At("leader", This(m)) \in Addresses
<1>1. member[m] \in JoinTask /\ JoinOK(member[m], tcp[m])
  BY DEF TypeOK
<1>2. member[m].try \in 1..MaxTry /\ member[m].id \in 1..MaxTry
  BY <1>1, FieldsOf, PunchConstants DEF JoinOK
<1> QED
  BY <1>2 DEF This, Join, At, Addresses

LEMMA StartTyped == ASSUME TypeOK, NEW m \in Members, Start(m) PROVE TypeOK'
<1>1. member[m] \in JoinTask /\ JoinOK(member[m], tcp[m]) /\ member[m].pc = "down"
      /\ tcp[m] \in Tcps
  BY DEF TypeOK, Start, Tcps
<1>2. member[m].try \in 0..MaxTry /\ member[m].id \in 0..MaxTry /\ member[m].try < MaxTry
      /\ member[m].conn \in BOOLEAN
  BY <1>1, FieldsOf DEF Start
<1>3. PICK id \in Register(m) :
        /\ member' = [member EXCEPT ![m].pc = "resolve", ![m].try = @ + 1, ![m].id = id]
        /\ mail' = IF id = member[m].id THEN mail ELSE [mail EXCEPT ![m] = <<>>]
  BY DEF Start
<1>4. /\ id \in 0..MaxTry /\ id # 0
      /\ member[m].try + 1 \in 0..MaxTry /\ member[m].try + 1 # 0
  BY <1>2, PunchConstants DEF Register
<1> DEFINE k1 == [member[m] EXCEPT !.pc = "resolve"]
           k2 == [k1 EXCEPT !.try = member[m].try + 1]
           k == [k2 EXCEPT !.id = id]
<1>5. k1 \in JoinTask
  <2>1. \A x \in Pcs : [member[m] EXCEPT !.pc = x] \in JoinTask
    BY <1>1, FieldTyped
  <2> QED
    BY <2>1 DEF Pcs, Waiting
<1>6. k2 \in JoinTask
  <2>1. \A x \in 0..MaxTry : [k1 EXCEPT !.try = x] \in JoinTask
    BY <1>5, FieldTyped
  <2> QED
    BY <1>4, <2>1
<1>7. k \in JoinTask
  <2>1. \A x \in 0..MaxTry : [k2 EXCEPT !.id = x] \in JoinTask
    BY <1>6, FieldTyped
  <2> QED
    BY <1>4, <2>1
<1>8. k.pc = "resolve" /\ k.try = member[m].try + 1 /\ k.id = id /\ k.conn = member[m].conn
  BY <1>1, <1>5, <1>6 DEF JoinTask
<1>9. member' = [member EXCEPT ![m] = k]
  BY <1>1, <1>3 DEF TypeOK
<1> HIDE DEF k
<1>10. JoinOK(k, tcp[m])
  BY <1>1, <1>2, <1>4, <1>8 DEF JoinOK
<1>11. tcp' = [tcp EXCEPT ![m] = tcp[m]]
  BY DEF Start, TypeOK
<1>12. MembersOK'
  BY <1>1, <1>7, <1>9, <1>10, <1>11, OneMember
<1>13. ServerOK'
  BY <1>3, EmptySeq DEF TypeOK, Start, ServerOK
<1>14. LeaderOK' /\ NetOK'
  BY DEF TypeOK, Start, LeaderOK, NetOK, leaderVars
<1> QED
  BY <1>12, <1>13, <1>14, TypePartsNext

\* What a step of a task that has started must keep
LEMMA StepTyped ==
    ASSUME TypeOK, NEW m \in Members, NEW k \in JoinTask,
           member' = [member EXCEPT ![m] = k], UNCHANGED tcp,
           member[m].pc # "down", k.try = member[m].try, k.id = member[m].id,
           k.pc \in {"punch", "shake", "bound", "up"} => k.reply # None,
           k.conn = TRUE => k.pc \in {"bound", "up"},
           tcp[m] # "none" => k.pc = "up"
    PROVE  MembersOK'
<1>1. JoinOK(member[m], tcp[m]) /\ tcp[m] \in Tcps
  BY DEF TypeOK, Tcps
<1>2. JoinOK(k, tcp[m])
  BY <1>1 DEF JoinOK
<1>3. tcp' = [tcp EXCEPT ![m] = tcp[m]]
  BY DEF TypeOK
<1> QED
  BY <1>1, <1>2, <1>3, OneMember

LEMMA GoesTyped ==
    ASSUME TypeOK, NEW m \in Members, NEW p \in Pcs, Goes(m, p), UNCHANGED tcp,
           member[m].pc # "down",
           p \in {"punch", "shake", "bound", "up"} => member[m].reply # None,
           member[m].conn = TRUE => p \in {"bound", "up"},
           tcp[m] # "none" => p = "up"
    PROVE  MembersOK'
<1> DEFINE k == [member[m] EXCEPT !.pc = p]
<1>1. member[m] \in JoinTask
  BY DEF TypeOK
<1>2. k \in JoinTask
  BY <1>1, FieldTyped
<1>3. k.pc = p /\ k.try = member[m].try /\ k.id = member[m].id
      /\ k.reply = member[m].reply /\ k.conn = member[m].conn
  BY <1>1 DEF JoinTask
<1>4. member' = [member EXCEPT ![m] = k]
  BY <1>1 DEF Goes, TypeOK
<1> HIDE DEF k
<1> QED
  BY <1>2, <1>3, <1>4, StepTyped

LEMMA ResolveTyped == ASSUME TypeOK, NEW m \in Members, Resolve(m) PROVE MembersOK'
<1>1. member[m] \in JoinTask /\ JoinOK(member[m], tcp[m]) /\ member[m].pc = "resolve"
  BY DEF TypeOK, Resolve
<1>2. CASE member' = [member EXCEPT ![m].pc = "post", ![m].via = "direct"]
  <2> DEFINE k == [member[m] EXCEPT !.pc = "post", !.via = "direct"]
  <2>1. "post" \in Pcs
    BY DEF Pcs, Waiting
  <2>2. k \in JoinTask
    BY <1>1, <2>1, PairTyped
  <2>3. k.pc = "post" /\ k.try = member[m].try /\ k.id = member[m].id /\ k.conn = member[m].conn
    BY <1>1, <2>1, PairFields
  <2>4. member' = [member EXCEPT ![m] = k]
    BY <1>1, <1>2 DEF TypeOK
  <2> HIDE DEF k
  <2> QED
    BY <1>1, <2>2, <2>3, <2>4, StepTyped DEF JoinOK, Resolve
<1>3. CASE Goes(m, "failed")
  BY <1>1, <1>3, GoesTyped DEF JoinOK, Resolve, Pcs
<1> QED
  BY <1>2, <1>3 DEF Resolve

\* The candidates' datagrams, and those of a socket
LEMMA NetTyped ==
    ASSUME TypeOK, NEW a \in Addresses, NEW b \in Addresses
    PROVE  /\ net \cup {[from |-> a, to |-> b]} \subseteq Datagram
           /\ \A d : net \ {d} \subseteq Datagram
BY DEF TypeOK, Datagram

LEMMA GatherTyped ==
    ASSUME TypeOK, NEW a \in Addresses, NEW cands, Gather(a, cands)
    PROVE  NetOK'
<1>1. Stun \in Addresses
  BY DEF Addresses
<1> QED
  BY <1>1, NetTyped DEF Gather, NetOK, TypeOK

LEMMA ProbesTyped ==
    ASSUME TypeOK, NEW a \in Addresses, NEW b \in Addresses, NEW cands,
           net' = net \cup Probes(a, b, cands)
    PROVE  NetOK'
BY NetTyped DEF Probes, NetOK, TypeOK

LEMMA HeardTyped ==
    ASSUME TypeOK, NEW a \in Addresses, NEW b \in Addresses, Heard(a, b)
    PROVE  NetOK'
<1>1. net \ {[from |-> b, to |-> a]} \subseteq Datagram /\ [from |-> a, to |-> b] \in Datagram
  BY DEF TypeOK, Datagram
<1> QED
  BY <1>1 DEF Heard, NetOK

LEMMA PushTyped ==
    ASSUME NEW S, NEW box \in Seq(S), NEW x \in S, NEW push \in SignalPush(box, x)
    PROVE  push.box \in Seq(S)
<1>1. Append(box, x) \in Seq(S)
  BY SeqAppend
<1> QED
  BY <1>1 DEF SignalPush

LEMMA PostTyped == ASSUME TypeOK, NEW m \in Members, Post(m) PROVE TypeOK'
<1>1. /\ This(m) \in Join /\ At("member", This(m)) \in Addresses
      /\ JoinOK(member[m], tcp[m]) /\ member[m].pc = "post"
  BY ThisTyped DEF Post, TypeOK
<1>2. PICK cands \in Candidates :
        /\ Gather(At("member", This(m)), cands)
        /\ \E push \in SignalPush(inbox, [join |-> This(m), cands |-> cands]) :
             /\ inbox' = push.box
             /\ Goes(m, IF push.ok THEN "wait" ELSE "failed")
  BY DEF Post
<1>3. NetOK'
  BY <1>1, <1>2, GatherTyped
<1>4. [join |-> This(m), cands |-> cands] \in Message
  BY <1>1 DEF Message
<1>5. PICK push \in SignalPush(inbox, [join |-> This(m), cands |-> cands]) :
        /\ inbox' = push.box
        /\ Goes(m, IF push.ok THEN "wait" ELSE "failed")
  BY <1>2
<1>6. inbox' \in Seq(Message)
  BY <1>4, <1>5, PushTyped DEF TypeOK
<1>7. ServerOK'
  BY <1>6 DEF ServerOK, TypeOK, Post
<1>8. "wait" \in Pcs /\ "failed" \in Pcs /\ UNCHANGED tcp
  BY DEF Pcs, Waiting, Post
<1>9. Goes(m, "wait") \/ Goes(m, "failed")
  BY <1>5
<1>10. MembersOK'
  BY <1>1, <1>8, <1>9, GoesTyped DEF JoinOK
<1>11. LeaderOK'
  BY DEF Post, leaderVars, LeaderOK, TypeOK
<1> QED
  BY <1>3, <1>7, <1>10, <1>11, TypePartsNext

LEMMA PullTyped == ASSUME TypeOK, NEW m \in Members, Pull(m) PROVE TypeOK'
<1>1. /\ member[m] \in JoinTask /\ JoinOK(member[m], tcp[m]) /\ member[m].pc = "wait"
      /\ mail[m] \in Seq(Reply) /\ mail[m] # <<>>
  BY DEF TypeOK, Pull
<1>2. mail' = [mail EXCEPT ![m] = <<>>] /\ UNCHANGED <<tcp, inbox, leaderVars, net>>
  BY DEF Pull
<1>3. ServerOK'
  BY <1>2, EmptySeq DEF ServerOK, TypeOK
<1>4. PICK got \in SignalPull(mail[m]) :
        member' = IF got = <<>> THEN member
                  ELSE [member EXCEPT ![m].pc = "punch", ![m].reply = Head(got)]
  BY DEF Pull
<1>5. ASSUME got = <<>> PROVE MembersOK'
  <2>1. UNCHANGED member /\ UNCHANGED tcp
    BY <1>2, <1>4, <1>5
  <2>2. MembersOK
    BY TypeParts
  <2> QED
    BY <2>1, <2>2 DEF MembersOK, JoinOK
<1>6. ASSUME got # <<>> PROVE MembersOK'
  <2>1. got = mail[m]
    BY <1>4, <1>6 DEF SignalPull
  <2>2. Head(got) \in Reply
    BY <1>1, <2>1, SeqParts
  <2> DEFINE k == [member[m] EXCEPT !.pc = "punch", !.reply = Head(got)]
  <2>3. "punch" \in Pcs
    BY DEF Pcs, Waiting
  <2>4. k \in JoinTask
    BY <1>1, <2>2, <2>3, PairTyped
  <2>5. k.pc = "punch" /\ k.reply = Head(got) /\ k.try = member[m].try /\ k.id = member[m].id
        /\ k.conn = member[m].conn
    BY <1>1, <2>3, PairFields
  <2>6. member' = [member EXCEPT ![m] = k]
    BY <1>1, <1>4, <1>6 DEF TypeOK
  <2>7. Head(got) # None
    BY <2>2, PunchPlaceholder
  <2> HIDE DEF k
  <2>8. UNCHANGED tcp /\ member[m].pc # "down" /\ member[m].conn # TRUE /\ tcp[m] = "none"
    BY <1>1, <1>2 DEF JoinOK
  <2>9. k.conn # TRUE
    BY <2>5, <2>8
  <2>10. k.pc \in {"punch", "shake", "bound", "up"} => k.reply # None
    BY <2>5, <2>7
  <2> QED
    BY <2>4, <2>5, <2>6, <2>8, <2>9, <2>10, StepTyped
<1>7. LeaderOK' /\ NetOK'
  BY <1>2 DEF leaderVars, LeaderOK, NetOK, TypeOK
<1> QED
  BY <1>3, <1>5, <1>6, <1>7, TypePartsNext

LEMMA ReplyTyped == ASSUME NEW r \in Reply PROVE At("leader", r.join) \in Addresses
BY DEF Reply, At, Addresses

LEMMA ProbeTyped == ASSUME TypeOK, NEW m \in Members, Probe(m) PROVE TypeOK'
<1>1. /\ JoinOK(member[m], tcp[m]) /\ member[m] \in JoinTask /\ member[m].pc = "punch"
      /\ At("member", This(m)) \in Addresses
  BY ThisTyped DEF TypeOK, Probe
<1>2. member[m].reply \in Reply
  BY <1>1, FieldsOf DEF JoinOK
<1>3. NetOK'
  BY <1>1, <1>2, ReplyTyped, ProbesTyped DEF Probe
<1> QED
  BY <1>3, TypePartsNext DEF Probe, TypeOK, MembersOK, ServerOK, LeaderOK, memberVars, leaderVars, Tcps

LEMMA HearTyped == ASSUME TypeOK, NEW m \in Members, Hear(m) PROVE TypeOK'
<1>1. /\ member[m] \in JoinTask /\ JoinOK(member[m], tcp[m]) /\ member[m].pc = "punch"
      /\ At("member", This(m)) \in Addresses
  BY ThisTyped DEF TypeOK, Hear
<1>2. PICK a \in Addresses :
        /\ Heard(At("member", This(m)), a)
        /\ member' = [member EXCEPT ![m].pc = "shake", ![m].peer = a]
  BY DEF Hear
<1>3. NetOK'
  BY <1>1, <1>2, HeardTyped
<1> DEFINE k == [member[m] EXCEPT !.pc = "shake", !.peer = a]
<1>4. "shake" \in Pcs
  BY DEF Pcs, Waiting
<1>5. k \in JoinTask
  BY <1>1, <1>4, PairTyped
<1>6. k.pc = "shake" /\ k.reply = member[m].reply /\ k.try = member[m].try /\ k.id = member[m].id
      /\ k.conn = member[m].conn
  BY <1>1, <1>4, PairFields
<1>7. member' = [member EXCEPT ![m] = k]
  BY <1>1, <1>2 DEF TypeOK
<1> HIDE DEF k
<1>8. MembersOK'
  BY <1>1, <1>5, <1>6, <1>7, StepTyped DEF JoinOK, Hear
<1> QED
  BY <1>3, <1>8, TypePartsNext DEF Hear, TypeOK, ServerOK, LeaderOK, leaderVars

LEMMA ShakeTyped == ASSUME TypeOK, NEW m \in Members, Shake(m) PROVE MembersOK'
<1>1. /\ member[m] \in JoinTask /\ JoinOK(member[m], tcp[m]) /\ member[m].pc = "shake"
      /\ member' = [member EXCEPT ![m].pc = "bound", ![m].conn = TRUE]
  BY DEF TypeOK, Shake
<1> DEFINE k == [member[m] EXCEPT !.pc = "bound", !.conn = TRUE]
<1>2. "bound" \in Pcs
  BY DEF Pcs, Waiting
<1>3. k \in JoinTask
  BY <1>1, <1>2, PairTyped
<1>4. k.pc = "bound" /\ k.reply = member[m].reply /\ k.try = member[m].try /\ k.id = member[m].id
  BY <1>1, <1>2, PairFields
<1>5. member' = [member EXCEPT ![m] = k]
  BY <1>1 DEF TypeOK
<1> HIDE DEF k
<1> QED
  BY <1>1, <1>3, <1>4, <1>5, StepTyped DEF JoinOK, Shake

LEMMA SwitchTyped == ASSUME TypeOK, NEW m \in Members, Switch(m) PROVE MembersOK'
<1>1. /\ member[m] \in JoinTask /\ JoinOK(member[m], tcp[m]) /\ member[m].pc = "bound"
  BY DEF TypeOK, Switch
<1>2. "up" \in Pcs /\ "failed" \in Pcs
  BY DEF Pcs
<1>3. CASE member' = [member EXCEPT ![m].pc = "up", ![m].via = "tunnel"]
  <2> DEFINE k == [member[m] EXCEPT !.pc = "up", !.via = "tunnel"]
  <2>1. k \in JoinTask
    BY <1>1, <1>2, PairTyped
  <2>2. k.pc = "up" /\ k.reply = member[m].reply /\ k.try = member[m].try /\ k.id = member[m].id
    BY <1>1, <1>2, PairFields
  <2>3. member' = [member EXCEPT ![m] = k]
    BY <1>1, <1>3 DEF TypeOK
  <2> HIDE DEF k
  <2> QED
    BY <1>1, <2>1, <2>2, <2>3, StepTyped DEF JoinOK, Switch
<1>4. CASE member' = [member EXCEPT ![m].pc = "failed", ![m].conn = FALSE]
  <2> DEFINE k == [member[m] EXCEPT !.pc = "failed", !.conn = FALSE]
  <2>1. k \in JoinTask
    BY <1>1, <1>2, PairTyped
  <2>2. k.pc = "failed" /\ k.conn = FALSE /\ k.try = member[m].try /\ k.id = member[m].id
    BY <1>1, <1>2, PairFields
  <2>3. member' = [member EXCEPT ![m] = k]
    BY <1>1, <1>4 DEF TypeOK
  <2> HIDE DEF k
  <2> QED
    BY <1>1, <2>1, <2>2, <2>3, StepTyped DEF JoinOK, Switch
<1> QED
  BY <1>3, <1>4 DEF Switch

LEMMA TimeOutTyped == ASSUME TypeOK, NEW m \in Members, TimeOut(m) PROVE MembersOK'
<1>1. JoinOK(member[m], tcp[m]) /\ member[m].pc \in {"wait", "punch", "shake"}
      /\ Goes(m, "failed") /\ UNCHANGED tcp
  BY DEF TypeOK, TimeOut
<1>2. "failed" \in Pcs
  BY DEF Pcs
<1> QED
  BY <1>1, <1>2, GoesTyped DEF JoinOK

LEMMA StopTyped == ASSUME TypeOK, NEW m \in Members, Stop(m) PROVE MembersOK'
<1>1. /\ member[m] \in JoinTask /\ JoinOK(member[m], tcp[m]) /\ member[m].pc # "down"
      /\ member' = [member EXCEPT ![m] = Stopped(m)] /\ tcp' = [tcp EXCEPT ![m] = "none"]
  BY DEF TypeOK, Stop
<1> DEFINE k1 == [member[m] EXCEPT !.pc = "down"]
           k2 == [k1 EXCEPT !.reply = None]
           k3 == [k2 EXCEPT !.peer = None]
           k4 == [k3 EXCEPT !.via = None]
           k5 == [k4 EXCEPT !.conn = FALSE]
<1>2. Stopped(m) = k5
  BY DEF Stopped
<1>3. k5 \in JoinTask
  <2>1. k1 \in JoinTask
    BY <1>1, FieldTyped DEF Pcs
  <2> HIDE DEF k1
  <2>2. k2 \in JoinTask
    BY <2>1, FieldTyped
  <2> HIDE DEF k2
  <2>3. k3 \in JoinTask
    BY <2>2, FieldTyped
  <2> HIDE DEF k3
  <2>4. k4 \in JoinTask
    BY <2>3, FieldTyped
  <2> HIDE DEF k4
  <2> QED
    BY <2>4, FieldTyped
<1>4. k5.pc = "down" /\ k5.conn = FALSE
  BY <1>1 DEF JoinTask
<1> HIDE DEF k5
<1>5. Stopped(m) \in JoinTask /\ JoinOK(Stopped(m), "none")
  BY <1>2, <1>3, <1>4 DEF JoinOK
<1>6. "none" \in Tcps
  BY DEF Tcps
<1> QED
  BY <1>1, <1>5, <1>6, OneMember

LEMMA LoseConnectionTyped ==
    ASSUME TypeOK, NEW m \in Members, LoseConnection(m) PROVE MembersOK'
<1>1. /\ member[m] \in JoinTask /\ JoinOK(member[m], tcp[m]) /\ member[m].conn
      /\ member' = [member EXCEPT ![m].conn = FALSE] /\ UNCHANGED tcp
  BY DEF TypeOK, LoseConnection
<1> DEFINE k == [member[m] EXCEPT !.conn = FALSE]
<1>2. k \in JoinTask
  BY <1>1, FieldTyped
<1>3. k.pc = member[m].pc /\ k.conn = FALSE /\ k.reply = member[m].reply
      /\ k.try = member[m].try /\ k.id = member[m].id
  BY <1>1 DEF JoinTask
<1>4. member' = [member EXCEPT ![m] = k]
  BY <1>1 DEF TypeOK
<1>5. member[m].conn = TRUE
  BY <1>1, FieldsOf
<1> HIDE DEF k
<1>6. /\ member[m].pc \in {"bound", "up"} /\ member[m].reply # None
      /\ tcp[m] # "none" => member[m].pc = "up"
  BY <1>1, <1>5 DEF JoinOK
<1>7. /\ k.conn # TRUE /\ member[m].pc # "down"
      /\ k.pc \in {"punch", "shake", "bound", "up"} => k.reply # None
      /\ tcp[m] # "none" => k.pc = "up"
  BY <1>3, <1>6
<1>8. UNCHANGED tcp /\ k.try = member[m].try /\ k.id = member[m].id
  BY <1>1, <1>3
<1> QED
  BY <1>2, <1>4, <1>7, <1>8, StepTyped

\* The connection to the local port: only in a program that is up, or gone
LEMMA PortTyped ==
    ASSUME TypeOK, NEW m \in Members, NEW c \in Tcps,
           tcp' = [tcp EXCEPT ![m] = c], UNCHANGED member,
           c # "none" => member[m].pc = "up"
    PROVE  MembersOK'
<1>1. member[m] \in JoinTask /\ JoinOK(member[m], tcp[m])
  BY DEF TypeOK
<1>2. JoinOK(member[m], c)
  BY <1>1 DEF JoinOK
<1>3. member' = [member EXCEPT ![m] = member[m]]
  BY DEF TypeOK
<1> QED
  BY <1>1, <1>2, <1>3, OneMember

LEMMA StreamTyped ==
    ASSUME TypeOK, NEW m \in Members, Accept(m) \/ StreamStep(m) \/ Unbridge(m)
    PROVE  MembersOK'
<1>1. JoinOK(member[m], tcp[m]) /\ UNCHANGED member
  BY DEF TypeOK, Accept, StreamStep, OpenBi, Bridge, Unbridge
<1>2. \E c \in Tcps : tcp' = [tcp EXCEPT ![m] = c] /\ (c # "none" => member[m].pc = "up")
  <2>1. CASE Accept(m)
    BY <2>1 DEF Accept, Tcps
  <2>2. CASE OpenBi(m)
    BY <1>1, <2>2 DEF OpenBi, Tcps, JoinOK
  <2>3. CASE Bridge(m)
    BY <1>1, <2>3 DEF Bridge, Tcps, JoinOK
  <2>4. CASE Unbridge(m)
    BY <1>1, <2>4 DEF Unbridge, Tcps, JoinOK
  <2> QED
    BY <2>1, <2>2, <2>3, <2>4 DEF StreamStep
<1> QED
  BY <1>1, <1>2, PortTyped

\* Steps of a member alone
LEMMA MemberAlone ==
    ASSUME TypeOK, MembersOK', UNCHANGED <<mail, inbox, leaderVars, net>> PROVE TypeOK'
BY TypePartsNext DEF TypeOK, ServerOK, LeaderOK, NetOK, leaderVars

-----------------------------------------------------------------------------
\* The fields of the session, one at a time
LEMMA SessionTyped ==
    ASSUME NEW l \in Session
    PROVE  /\ \A x \in {"down"} \cup Serving \cup Writing : [l EXCEPT !.pc = x] \in Session
           /\ \A x \in Certs \cup {0} : [l EXCEPT !.cert = x] \in Session
           /\ \A x \in Certs \cup {0} : [l EXCEPT !.key = x] \in Session
           /\ \A x \in Seq(Message) : [l EXCEPT !.batch = x] \in Session
           /\ \A x \in SUBSET (Members \X (1..MaxTry)) : [l EXCEPT !.tunnels = x] \in Session
<1>1. \A x \in {"down"} \cup Serving \cup Writing : [l EXCEPT !.pc = x] \in Session
  BY DEF Session
<1>2. \A x \in Certs \cup {0} : [l EXCEPT !.cert = x] \in Session
  BY DEF Session
<1>3. \A x \in Certs \cup {0} : [l EXCEPT !.key = x] \in Session
  BY DEF Session
<1>4. \A x \in Seq(Message) : [l EXCEPT !.batch = x] \in Session
  BY DEF Session
<1>5. \A x \in SUBSET (Members \X (1..MaxTry)) : [l EXCEPT !.tunnels = x] \in Session
  BY DEF Session
<1> QED
  BY <1>1, <1>2, <1>3, <1>4, <1>5

LEMMA SessionFields ==
    ASSUME NEW l \in Session
    PROVE  /\ l.pc \in {"down"} \cup Serving \cup Writing
           /\ l.cert \in Certs \cup {0} /\ l.key \in Certs \cup {0}
           /\ l.batch \in Seq(Message) /\ l.tunnels \subseteq Members \X (1..MaxTry)
BY DEF Session

\* The message taken, the rest of the batch
LEMMA TakenTyped ==
    ASSUME TypeOK, leader.batch # <<>>
    PROVE  /\ Taken \in Message /\ Taken.join \in Join
           /\ Drop \in Session /\ Drop.pc = "batch" /\ Drop.cert = leader.cert
           /\ Drop.key = leader.key /\ Drop.tunnels = leader.tunnels
           /\ Drop.batch = Tail(leader.batch)
<1>1. leader \in Session /\ leader.batch \in Seq(Message)
  BY SessionFields DEF TypeOK
<1>2. Taken \in Message /\ Tail(leader.batch) \in Seq(Message)
  BY <1>1, SeqParts DEF Taken
<1> DEFINE l == [leader EXCEPT !.pc = "batch"]
<1>3. l \in Session
  BY <1>1, SessionTyped DEF Serving
<1>4. Drop = [l EXCEPT !.batch = Tail(leader.batch)]
  BY <1>1 DEF Drop, Session
<1>5. Drop \in Session
  BY <1>2, <1>3, <1>4, SessionTyped
<1>6. /\ Drop.pc = "batch" /\ Drop.cert = leader.cert /\ Drop.key = leader.key
      /\ Drop.tunnels = leader.tunnels /\ Drop.batch = Tail(leader.batch)
  BY <1>1 DEF Drop, Session
<1> QED
  BY <1>2, <1>5, <1>6 DEF Message

\* Another place in the session
LEMMA PlaceTyped ==
    ASSUME NEW l \in Session, NEW p \in {"down"} \cup Serving \cup Writing
    PROVE  LET q == [l EXCEPT !.pc = p]
           IN  q \in Session /\ q.pc = p /\ q.cert = l.cert /\ q.key = l.key
               /\ q.batch = l.batch /\ q.tunnels = l.tunnels
BY DEF Session

\* A step of the leader alone
LEMMA LeaderAlone ==
    ASSUME TypeOK, leader' \in Session, leader'.pc # "punch",
           files' \in Pair,
           UNCHANGED <<memberVars, mail, inbox, ends, net, crashes>>
    PROVE  TypeOK'
<1>1. MembersOK' /\ NetOK' /\ ServerOK'
  BY DEF TypeOK, MembersOK, ServerOK, NetOK, memberVars, Tcps, JoinOK
<1>2. LeaderOK'
  BY DEF TypeOK, LeaderOK
<1> QED
  BY <1>1, <1>2, TypePartsNext

LEMMA NextCert == ASSUME TypeOK PROVE crashes + 1 \in Certs /\ crashes + 1 # 0
BY PunchConstants DEF TypeOK, Certs

LEMMA LeaderRegisterTyped == ASSUME TypeOK, LeaderRegister PROVE TypeOK'
<1>1. leader \in Session /\ leader' = [leader EXCEPT !.pc = "load"]
  BY DEF TypeOK, LeaderRegister
<1>2. leader' \in Session /\ leader'.pc = "load"
  BY <1>1, PlaceTyped DEF Writing
<1>3. files' \in Pair
  BY DEF LeaderRegister, TypeOK
<1> QED
  BY <1>2, <1>3, LeaderAlone DEF LeaderRegister

\* What load_or_generate does to the session
LEMMA LoadFields ==
    ASSUME TypeOK, LoadOrGenerate
    PROVE  /\ leader' \in Session /\ UNCHANGED files
           /\ leader'.tunnels = leader.tunnels
           /\ \/ /\ files.cert # 0 /\ files.key # 0 /\ leader'.pc = "pull"
                 /\ leader'.cert = files.cert /\ leader'.key = files.key
              \/ /\ files.cert = 0 \/ files.key = 0
                 /\ leader'.pc = "cert"
                 /\ leader'.cert = crashes + 1 /\ leader'.key = crashes + 1
<1>1. leader \in Session /\ files.cert \in Certs \cup {0} /\ files.key \in Certs \cup {0}
      /\ UNCHANGED files
  BY DEF TypeOK, LoadOrGenerate, Pair
<1> DEFINE Load(p, c, k) == [[[leader EXCEPT !.pc = p] EXCEPT !.cert = c] EXCEPT !.key = k]
<1>0. ASSUME NEW p \in {"down"} \cup Serving \cup Writing,
             NEW c \in Certs \cup {0}, NEW k \in Certs \cup {0}
      PROVE  /\ Load(p, c, k) \in Session /\ Load(p, c, k).pc = p /\ Load(p, c, k).cert = c
             /\ Load(p, c, k).key = k /\ Load(p, c, k).tunnels = leader.tunnels
  <2> DEFINE q1 == [leader EXCEPT !.pc = p]
             q2 == [q1 EXCEPT !.cert = c]
             q3 == [q2 EXCEPT !.key = k]
  <2>1. q3.pc = p /\ q3.cert = c /\ q3.key = k /\ q3.tunnels = leader.tunnels
    BY <1>1 DEF Session
  <2>2. q3 \in Session
    <3>1. q1 \in Session
      BY <1>1, SessionTyped
    <3> HIDE DEF q1
    <3>2. q2 \in Session
      BY <3>1, SessionTyped
    <3> HIDE DEF q2
    <3> QED
      BY <3>2, SessionTyped
  <2> QED
    BY <2>1, <2>2
<1>2. crashes + 1 \in Certs \cup {0}
  BY NextCert
<1>3. "pull" \in {"down"} \cup Serving \cup Writing /\ "cert" \in {"down"} \cup Serving \cup Writing
  BY DEF Serving, Writing
<1>4. CASE files.cert # 0 /\ files.key # 0
  <2>1. leader' = Load("pull", files.cert, files.key)
    BY <1>4 DEF LoadOrGenerate
  <2> HIDE DEF Load
  <2>2. leader' \in Session /\ leader'.pc = "pull" /\ leader'.cert = files.cert
        /\ leader'.key = files.key /\ leader'.tunnels = leader.tunnels
    BY <1>0, <1>1, <1>3, <2>1
  <2> QED
    BY <1>1, <1>4, <2>2
<1>5. CASE ~(files.cert # 0 /\ files.key # 0)
  <2>1. leader' = Load("cert", crashes + 1, crashes + 1)
    BY <1>5 DEF LoadOrGenerate
  <2> HIDE DEF Load
  <2>2. leader' \in Session /\ leader'.pc = "cert" /\ leader'.cert = crashes + 1
        /\ leader'.key = crashes + 1 /\ leader'.tunnels = leader.tunnels
    BY <1>0, <1>2, <1>3, <2>1
  <2> QED
    BY <1>1, <1>5, <2>2
<1> QED
  BY <1>4, <1>5

LEMMA LoadTyped == ASSUME TypeOK, LoadOrGenerate PROVE TypeOK'
<1>1. leader' \in Session /\ leader'.pc # "punch" /\ UNCHANGED files
  BY LoadFields
<1>2. files' \in Pair
  BY <1>1 DEF TypeOK
<1> QED
  BY <1>1, <1>2, LeaderAlone DEF LoadOrGenerate

\* What each fs::write leaves: done, or failed
LEMMA WriteFields ==
    ASSUME TypeOK, WriteFiles
    PROVE  /\ leader' \in Session /\ leader'.cert = leader.cert /\ leader'.key = leader.key
           /\ leader'.tunnels = leader.tunnels
           /\ files' \in Pair
           /\ leader.pc \in {"cert", "certWrite", "key", "keyWrite"}
           /\ leader'.pc \in {"certWrite", "key", "keyWrite", "pull"}
           /\ \/ files'.lost = TRUE
              \/ files'.lost = files.lost /\ leader.pc = "cert" /\ leader'.pc = "certWrite"
                 /\ files'.cert = 0 /\ files'.key = files.key
              \/ files'.lost = files.lost /\ leader.pc = "certWrite" /\ leader'.pc = "key"
                 /\ files'.cert = leader.cert /\ files'.key = files.key
              \/ files'.lost = files.lost /\ leader.pc = "key" /\ leader'.pc = "keyWrite"
                 /\ files'.key = 0 /\ files'.cert = files.cert
              \/ files'.lost = files.lost /\ leader.pc = "keyWrite" /\ leader'.pc = "pull"
                 /\ files'.key = leader.key /\ files'.cert = files.cert
<1>1. leader \in Session /\ files \in Pair
      /\ leader.cert \in Certs \cup {0} /\ leader.key \in Certs \cup {0}
  BY SessionFields DEF TypeOK
<1>2. "certWrite" \in Writing /\ "key" \in Writing /\ "keyWrite" \in Writing /\ "pull" \in Serving
  BY DEF Serving, Writing
<1>3. PICK p \in {"certWrite", "key", "keyWrite", "pull"} : leader' = [leader EXCEPT !.pc = p]
  BY DEF WriteFiles, LeaderGoes
<1>4. leader' \in Session /\ leader'.cert = leader.cert /\ leader'.key = leader.key
      /\ leader'.tunnels = leader.tunnels /\ leader'.pc = p
  BY <1>1, <1>2, <1>3, PlaceTyped
<1>5. ASSUME NEW p1 PROVE [leader EXCEPT !.pc = p1].pc = p1
  BY <1>1 DEF Session
<1>6. ASSUME NEW x \in Certs \cup {0}
      PROVE  /\ [files EXCEPT !.cert = x] \in Pair /\ [files EXCEPT !.key = x] \in Pair
             /\ [files EXCEPT !.cert = x].cert = x /\ [files EXCEPT !.cert = x].key = files.key
             /\ [files EXCEPT !.key = x].key = x /\ [files EXCEPT !.key = x].cert = files.cert
             /\ [files EXCEPT !.cert = x].lost = files.lost
             /\ [files EXCEPT !.key = x].lost = files.lost
  BY <1>1 DEF Pair
<1>7. [files EXCEPT !.lost = TRUE] \in Pair /\ [files EXCEPT !.lost = TRUE].lost = TRUE
  BY <1>1 DEF Pair
<1>8. CASE leader.pc = "cert"
  <2>1. \/ files' = [files EXCEPT !.cert = 0] /\ leader' = [leader EXCEPT !.pc = "certWrite"]
        \/ files' = [files EXCEPT !.lost = TRUE] /\ leader' = [leader EXCEPT !.pc = "key"]
    BY <1>8 DEF WriteFiles, LeaderGoes
  <2>2. CASE files' = [files EXCEPT !.cert = 0] /\ leader' = [leader EXCEPT !.pc = "certWrite"]
    <3>1. files' \in Pair /\ files'.cert = 0 /\ files'.key = files.key /\ files'.lost = files.lost
      BY <1>6, <2>2
    <3>2. leader'.pc = "certWrite"
      BY <1>5, <2>2
    <3> QED
      BY <1>4, <1>8, <3>1, <3>2
  <2>3. CASE files' = [files EXCEPT !.lost = TRUE] /\ leader' = [leader EXCEPT !.pc = "key"]
    BY <1>4, <1>7, <1>8, <2>3
  <2> QED
    BY <2>1, <2>2, <2>3
<1>9. CASE leader.pc = "certWrite"
  <2>1. /\ leader' = [leader EXCEPT !.pc = "key"]
        /\ \/ files' = [files EXCEPT !.cert = leader.cert]
           \/ files' = [files EXCEPT !.lost = TRUE]
    BY <1>9 DEF WriteFiles, LeaderGoes
  <2>2. leader'.pc = "key"
    BY <1>5, <2>1
  <2>3. CASE files' = [files EXCEPT !.cert = leader.cert]
    <3>1. files' \in Pair /\ files'.cert = leader.cert /\ files'.key = files.key /\ files'.lost = files.lost
      BY <1>1, <1>6, <2>3
    <3> QED
      BY <1>4, <1>9, <2>2, <3>1
  <2>4. CASE files' = [files EXCEPT !.lost = TRUE]
    BY <1>4, <1>7, <1>9, <2>2, <2>4
  <2> QED
    BY <2>1, <2>3, <2>4
<1>10. CASE leader.pc = "key"
  <2>1. \/ files' = [files EXCEPT !.key = 0] /\ leader' = [leader EXCEPT !.pc = "keyWrite"]
        \/ files' = [files EXCEPT !.lost = TRUE] /\ leader' = [leader EXCEPT !.pc = "pull"]
    BY <1>10 DEF WriteFiles, LeaderGoes
  <2>2. CASE files' = [files EXCEPT !.key = 0] /\ leader' = [leader EXCEPT !.pc = "keyWrite"]
    <3>1. files' \in Pair /\ files'.key = 0 /\ files'.cert = files.cert /\ files'.lost = files.lost
      BY <1>6, <2>2
    <3>2. leader'.pc = "keyWrite"
      BY <1>5, <2>2
    <3> QED
      BY <1>4, <1>10, <3>1, <3>2
  <2>3. CASE files' = [files EXCEPT !.lost = TRUE] /\ leader' = [leader EXCEPT !.pc = "pull"]
    BY <1>4, <1>7, <1>10, <2>3
  <2> QED
    BY <2>1, <2>2, <2>3
<1>11. CASE leader.pc = "keyWrite"
  <2>1. /\ leader' = [leader EXCEPT !.pc = "pull"]
        /\ \/ files' = [files EXCEPT !.key = leader.key]
           \/ files' = [files EXCEPT !.lost = TRUE]
    BY <1>11 DEF WriteFiles, LeaderGoes
  <2>2. leader'.pc = "pull"
    BY <1>5, <2>1
  <2>3. CASE files' = [files EXCEPT !.key = leader.key]
    <3>1. files' \in Pair /\ files'.key = leader.key /\ files'.cert = files.cert /\ files'.lost = files.lost
      BY <1>1, <1>6, <2>3
    <3> QED
      BY <1>4, <1>11, <2>2, <3>1
  <2>4. CASE files' = [files EXCEPT !.lost = TRUE]
    BY <1>4, <1>7, <1>11, <2>2, <2>4
  <2> QED
    BY <2>1, <2>3, <2>4
<1> QED
  BY <1>8, <1>9, <1>10, <1>11 DEF WriteFiles

LEMMA WriteTyped == ASSUME TypeOK, WriteFiles PROVE TypeOK'
<1>1. leader' \in Session /\ leader'.pc # "punch"
      /\ files' \in Pair
  BY WriteFields
<1> QED
  BY <1>1, LeaderAlone DEF WriteFiles

LEMMA LeaderPullTyped == ASSUME TypeOK, LeaderPull PROVE TypeOK'
<1>1. leader \in Session /\ inbox \in Seq(Message) /\ inbox' = <<>>
      /\ UNCHANGED <<memberVars, mail, ends, files, net, crashes>>
  BY DEF TypeOK, LeaderPull
<1>2. PICK got \in SignalPull(inbox) : leader' = [leader EXCEPT !.pc = "batch", !.batch = got]
  BY DEF LeaderPull
<1>3. got \in Seq(Message)
  BY <1>1, <1>2, EmptySeq DEF SignalPull
<1> DEFINE l == [leader EXCEPT !.pc = "batch"]
<1>4. l \in Session /\ l.pc = "batch"
  BY <1>1, PlaceTyped DEF Serving
<1>5. leader' = [l EXCEPT !.batch = got]
  BY <1>2
<1> HIDE DEF l
<1>6. leader' \in Session
  BY <1>3, <1>4, <1>5, SessionTyped
<1>7. leader'.pc = "batch"
  BY <1>1, <1>2 DEF Session
<1>8. MembersOK' /\ NetOK'
  BY <1>1 DEF TypeOK, MembersOK, NetOK, memberVars, Tcps, JoinOK
<1>9. ServerOK'
  BY <1>1, EmptySeq DEF TypeOK, ServerOK
<1>10. LeaderOK'
  BY <1>1, <1>6, <1>7 DEF TypeOK, LeaderOK
<1> QED
  BY <1>8, <1>9, <1>10, TypePartsNext

LEMMA SkipOrEndTyped == ASSUME TypeOK, SkipOrEnd PROVE TypeOK'
<1>1. leader \in Session /\ files' \in Pair
  BY DEF TypeOK, SkipOrEnd
<1>2. leader' \in Session /\ leader'.pc # "punch"
  <2>1. CASE leader.batch = <<>>
    <3>1. leader' = [leader EXCEPT !.pc = "pull"]
      BY <2>1 DEF SkipOrEnd
    <3>2. "pull" \in {"down"} \cup Serving \cup Writing
      BY DEF Serving
    <3> QED
      BY <1>1, <3>1, <3>2, PlaceTyped
  <2>2. CASE leader.batch # <<>>
    BY <2>2, TakenTyped DEF SkipOrEnd
  <2> QED
    BY <2>1, <2>2
<1> QED
  BY <1>1, <1>2, LeaderAlone DEF SkipOrEnd

\* What answering a message does to the session and to the mailboxes
LEMMA AnswerFields ==
    ASSUME TypeOK, Answer
    PROVE  /\ leader.pc = "batch" /\ leader.batch # <<>> /\ ~Known(Taken)
           /\ leader' \in Session /\ leader'.cert = leader.cert /\ leader'.key = leader.key
           /\ leader'.tunnels = leader.tunnels
           /\ \/ leader'.pc = "punch" /\ leader'.batch = leader.batch
              \/ leader'.pc = "batch" /\ leader'.batch = Tail(leader.batch)
           /\ NetOK'
           /\ \/ UNCHANGED mail
              \/ \E cands \in Candidates :
                   LET r == [join |-> Taken.join, cands |-> cands, fp |-> leader.cert]
                   IN  mail' = [mail EXCEPT ![Taken.join.of] = Append(mail[Taken.join.of], r)]
<1>1. /\ leader \in Session /\ leader.pc = "batch" /\ leader.batch # <<>> /\ ~Known(Taken)
      /\ Taken.join \in Join /\ Drop \in Session
      /\ Drop.pc = "batch" /\ Drop.cert = leader.cert /\ Drop.key = leader.key
      /\ Drop.tunnels = leader.tunnels /\ Drop.batch = Tail(leader.batch)
  BY TakenTyped DEF TypeOK, Answer
<1> DEFINE j == Taken.join
           r(c) == [join |-> j, cands |-> c, fp |-> leader.cert]
<1>2. PICK cands \in Candidates :
        /\ Gather(At("leader", j), cands)
        /\ \E push \in SignalPush(mail[j.of], r(cands)) :
             /\ mail' = IF member[j.of].id = j.id THEN [mail EXCEPT ![j.of] = push.box] ELSE mail
             /\ leader' = IF push.ok THEN [leader EXCEPT !.pc = "punch"] ELSE Drop
  BY DEF Answer
<1>3. PICK push \in SignalPush(mail[j.of], r(cands)) :
        /\ mail' = IF member[j.of].id = j.id THEN [mail EXCEPT ![j.of] = push.box] ELSE mail
        /\ leader' = IF push.ok THEN [leader EXCEPT !.pc = "punch"] ELSE Drop
  BY <1>2
<1>4. At("leader", j) \in Addresses
  BY <1>1 DEF At, Addresses
<1>5. NetOK'
  BY <1>2, <1>4, GatherTyped
<1>6. push.box = mail[j.of] \/ push.box = Append(mail[j.of], r(cands))
  BY <1>3 DEF SignalPush
<1>7. UNCHANGED mail \/ mail' = [mail EXCEPT ![j.of] = Append(mail[j.of], r(cands))]
  BY <1>3, <1>6 DEF TypeOK
<1> DEFINE l == [leader EXCEPT !.pc = "punch"]
<1>8. /\ l \in Session /\ l.pc = "punch" /\ l.cert = leader.cert /\ l.key = leader.key
      /\ l.batch = leader.batch /\ l.tunnels = leader.tunnels
  <2>1. "punch" \in {"down"} \cup Serving \cup Writing
    BY DEF Serving
  <2> QED
    BY <1>1, <2>1, PlaceTyped
<1>9. leader' = l \/ leader' = Drop
  BY <1>3
<1> HIDE DEF l
<1>10. /\ leader' \in Session /\ leader'.cert = leader.cert /\ leader'.key = leader.key
       /\ leader'.tunnels = leader.tunnels
       /\ \/ leader'.pc = "punch" /\ leader'.batch = leader.batch
          \/ leader'.pc = "batch" /\ leader'.batch = Tail(leader.batch)
  BY <1>1, <1>8, <1>9
<1> QED
  BY <1>1, <1>5, <1>7, <1>10

LEMMA AnswerTyped == ASSUME TypeOK, leader.cert # 0, Answer PROVE TypeOK'
<1>1. /\ leader.batch # <<>> /\ leader' \in Session /\ NetOK'
      /\ leader'.pc = "punch" => leader'.batch # <<>>
      /\ Taken.join \in Join /\ leader.cert \in Certs \cup {0}
  BY AnswerFields, TakenTyped, SessionFields DEF TypeOK
<1>2. UNCHANGED <<memberVars, inbox, ends, files, crashes>>
  BY DEF Answer
<1>3. leader.cert \in Certs
  BY <1>1
<1>4. mail' \in [Members -> Seq(Reply)]
  <2>1. CASE UNCHANGED mail
    BY <2>1 DEF TypeOK
  <2>2. ASSUME NEW cands \in Candidates,
               mail' = [mail EXCEPT ![Taken.join.of] =
                          Append(mail[Taken.join.of],
                                 [join |-> Taken.join, cands |-> cands, fp |-> leader.cert])]
        PROVE  mail' \in [Members -> Seq(Reply)]
    <3>1. [join |-> Taken.join, cands |-> cands, fp |-> leader.cert] \in Reply
      BY <1>1, <1>3 DEF Reply
    <3>2. Taken.join.of \in Members
      BY <1>1 DEF Join
    <3>3. Append(mail[Taken.join.of], [join |-> Taken.join, cands |-> cands, fp |-> leader.cert])
            \in Seq(Reply)
      BY <3>1, <3>2, SeqAppend DEF TypeOK
    <3> QED
      BY <2>2, <3>3 DEF TypeOK
  <2> QED
    BY <2>1, <2>2, AnswerFields
<1>5. MembersOK' /\ ServerOK' /\ LeaderOK'
  BY <1>1, <1>2, <1>4 DEF TypeOK, MembersOK, ServerOK, LeaderOK, memberVars, Tcps, JoinOK
<1> QED
  BY <1>1, <1>5, TypePartsNext

LEMMA LeaderProbeTyped == ASSUME TypeOK, LeaderProbe PROVE TypeOK'
<1>1. leader.batch # <<>> /\ UNCHANGED <<memberVars, mail, inbox, leaderVars>>
  BY DEF TypeOK, LeaderProbe
<1>2. Taken.join \in Join
  BY <1>1, TakenTyped
<1>3. At("leader", Taken.join) \in Addresses /\ At("member", Taken.join) \in Addresses
  BY <1>2 DEF At, Addresses
<1>4. NetOK'
  BY <1>3, ProbesTyped DEF LeaderProbe
<1>5. MembersOK' /\ ServerOK' /\ LeaderOK'
  BY <1>1 DEF TypeOK, MembersOK, ServerOK, LeaderOK, memberVars, leaderVars, Tcps, JoinOK
<1> QED
  BY <1>4, <1>5, TypePartsNext

\* What the first datagram does to the session and the endpoints
LEMMA HearFields ==
    ASSUME TypeOK, LeaderHear
    PROVE  /\ leader.batch # <<>> /\ leader.pc = "punch" /\ Taken.join \in Join /\ NetOK'
           /\ leader' \in Session /\ leader'.pc = "batch" /\ leader'.cert = leader.cert
           /\ leader'.key = leader.key
           /\ \/ /\ ends' = ends \cup {Taken.join}
                 /\ leader'.tunnels = leader.tunnels \cup {<<Taken.join.of, Taken.join.id>>}
              \/ UNCHANGED ends /\ leader'.tunnels = leader.tunnels
<1>1. leader.batch # <<>> /\ leader.pc = "punch"
  BY DEF TypeOK, LeaderHear
<1>2. /\ Taken.join \in Join /\ Drop \in Session /\ Drop.pc = "batch" /\ Drop.cert = leader.cert
      /\ Drop.key = leader.key /\ Drop.tunnels = leader.tunnels
  BY <1>1, TakenTyped
<1>3. At("leader", Taken.join) \in Addresses
  BY <1>2 DEF At, Addresses
<1>4. NetOK'
  BY <1>3, HeardTyped DEF LeaderHear
<1> DEFINE t == Drop.tunnels \cup {<<Taken.join.of, Taken.join.id>>}
           l == [Drop EXCEPT !.tunnels = t]
<1>5. l \in Session
  <2>1. t \in SUBSET (Members \X (1..MaxTry))
    BY <1>2, SessionFields DEF Join
  <2> HIDE DEF t
  <2> QED
    BY <1>2, <2>1, SessionTyped
<1>6. l.pc = "batch" /\ l.cert = leader.cert /\ l.key = leader.key /\ l.tunnels = t
  BY <1>2 DEF Session
<1>7. \/ leader' = l /\ ends' = ends \cup {Taken.join}
      \/ leader' = Drop /\ UNCHANGED ends
  BY DEF LeaderHear, Endpoint
<1> HIDE DEF l
<1>8. /\ leader' \in Session /\ leader'.pc = "batch" /\ leader'.cert = leader.cert
      /\ leader'.key = leader.key
      /\ \/ /\ ends' = ends \cup {Taken.join}
            /\ leader'.tunnels = leader.tunnels \cup {<<Taken.join.of, Taken.join.id>>}
         \/ UNCHANGED ends /\ leader'.tunnels = leader.tunnels
  BY <1>2, <1>5, <1>6, <1>7
<1> QED
  BY <1>1, <1>2, <1>4, <1>8

LEMMA LeaderHearTyped == ASSUME TypeOK, LeaderHear PROVE TypeOK'
<1>1. UNCHANGED <<memberVars, mail, inbox, files, crashes>>
  BY DEF LeaderHear
<1>2. MembersOK' /\ ServerOK'
  BY <1>1 DEF TypeOK, MembersOK, ServerOK, memberVars, Tcps, JoinOK
<1>3. leader' \in Session /\ leader'.pc # "punch" /\ ends' \subseteq Join /\ NetOK'
  BY HearFields DEF TypeOK
<1>4. LeaderOK'
  BY <1>1, <1>3 DEF TypeOK, LeaderOK
<1> QED
  BY <1>2, <1>3, <1>4, TypePartsNext

LEMMA LeaderTimeOutTyped == ASSUME TypeOK, LeaderTimeOut PROVE TypeOK'
<1>1. leader.batch # <<>> /\ leader' = Drop
  BY DEF TypeOK, LeaderTimeOut
<1>2. leader' \in Session /\ leader'.pc # "punch"
  BY <1>1, TakenTyped
<1>3. files' \in Pair
  BY DEF TypeOK, LeaderTimeOut
<1> QED
  BY <1>2, <1>3, LeaderAlone DEF LeaderTimeOut

LEMMA LeaderCrashTyped == ASSUME TypeOK, LeaderCrash PROVE TypeOK'
<1>1. UNCHANGED <<memberVars, mail, files, net>> /\ inbox' \in {inbox, <<>>} /\ ends' = {}
  BY DEF LeaderCrash
<1>2. crashes' \in 0..MaxCrash
  BY PunchConstants DEF TypeOK, LeaderCrash
<1>3. leader' \in Session /\ leader'.pc = "down"
  BY EmptySeq DEF LeaderCrash, Session
<1>4. MembersOK' /\ NetOK'
  BY <1>1 DEF TypeOK, MembersOK, NetOK, memberVars, Tcps, JoinOK
<1>5. ServerOK'
  BY <1>1, EmptySeq DEF TypeOK, ServerOK
<1>6. LeaderOK'
  BY <1>1, <1>2, <1>3 DEF TypeOK, LeaderOK
<1> QED
  BY <1>4, <1>5, <1>6, TypePartsNext

LEMMA LoseTyped == ASSUME TypeOK, Lose PROVE TypeOK'
<1>1. NetOK'
  BY DEF TypeOK, Lose, NetOK
<1>2. MembersOK' /\ ServerOK' /\ LeaderOK'
  BY DEF Lose, TypeOK, MembersOK, ServerOK, LeaderOK, memberVars, leaderVars, Tcps, JoinOK
<1> QED
  BY <1>1, <1>2, TypePartsNext

LEMMA ExpireTyped == ASSUME TypeOK, Expire PROVE TypeOK'
<1>1. ServerOK'
  <2>1. CASE inbox # <<>> /\ inbox' = Tail(inbox) /\ UNCHANGED mail
    BY <2>1, SeqParts DEF TypeOK, ServerOK
  <2>2. ASSUME NEW m \in Members, mail[m] # <<>>, mail' = [mail EXCEPT ![m] = Tail(@)],
               UNCHANGED inbox
        PROVE  ServerOK'
    <3>1. Tail(mail[m]) \in Seq(Reply)
      BY <2>2, SeqParts DEF TypeOK
    <3> QED
      BY <2>2, <3>1 DEF TypeOK, ServerOK
  <2> QED
    BY <2>1, <2>2 DEF Expire
<1>2. MembersOK' /\ NetOK' /\ LeaderOK'
  BY DEF Expire, TypeOK, MembersOK, NetOK, LeaderOK, memberVars, leaderVars, Tcps, JoinOK
<1> QED
  BY <1>1, <1>2, TypePartsNext

-----------------------------------------------------------------------------
(* The inductive invariant *)

Chosen == {"cert", "certWrite", "key", "keyWrite"}

\* The pair on disk: the key file is written last and only over an empty one, so as
\* long as no write has failed, what any crash leaves there is the pair that is
\* served, or no pair. Whatever fails, a session serves with some pair
PairOK ==
    /\ leader.pc \in Chosen \cup Serving => leader.cert # 0 /\ leader.key # 0
    /\ ~files.lost =>
         /\ files.key # 0 => files.cert = files.key
         /\ leader.pc \in Chosen => files.key = 0
         /\ leader.pc \in Chosen \cup Serving => leader.cert = leader.key
         /\ leader.pc \in {"key", "keyWrite"} => files.cert = leader.cert
         /\ leader.pc \in Serving => files.key = leader.key

\* Every fingerprint on its way, or used, is the one on disk
GivenOK ==
    ~files.lost =>
        \A m \in Members :
            /\ member[m].reply # None => member[m].reply.fp = files.key
            /\ \A i \in DOMAIN mail[m] : mail[m][i].fp = files.key

\* Who has an endpoint counts as connected, and who counts is not punched again
EndOK ==
    /\ \A j \in ends : <<j.of, j.id>> \in leader.tunnels
    /\ leader.pc = "punch" => ~Known(Taken)
    /\ OneEndpoint

IInv == TypeOK /\ PairOK /\ GivenOK /\ EndOK

LEMMA InitInv == Init => IInv
<1> SUFFICES ASSUME Init PROVE IInv
  OBVIOUS
<1>1. PairOK
  BY DEF Init, PairOK, Chosen, Serving
<1>2. GivenOK
  BY DEF Init, GivenOK
<1>3. EndOK
  BY DEF Init, EndOK, OneEndpoint
<1> QED
  BY <1>1, <1>2, <1>3, InitTyped DEF IInv

LEMMA PairFrame == ASSUME PairOK, UNCHANGED <<leader, files>> PROVE PairOK'
BY DEF PairOK

LEMMA EndFrame == ASSUME EndOK, UNCHANGED <<leader, ends>> PROVE EndOK'
BY DEF EndOK, OneEndpoint, Known, Taken

\* No fingerprint appears, and the one on disk stays
LEMMA GivenFrame ==
    ASSUME GivenOK, files'.key = files.key, files'.lost = files.lost,
           \A m \in Members : member'[m].reply \in {member[m].reply, None},
           \A m \in Members : \A i \in DOMAIN mail'[m] :
               \E n \in DOMAIN mail[m] : mail'[m][i] = mail[m][n]
    PROVE  GivenOK'
BY DEF GivenOK

\* A fingerprint that was given is a certificate: nothing was given while there is no
\* key on disk
LEMMA NothingGiven ==
    ASSUME TypeOK, GivenOK, files.key = 0, ~files.lost, NEW m \in Members
    PROVE  member[m].reply = None /\ mail[m] = <<>>
<1>1. \A r \in Reply : r.fp # 0
  BY DEF Reply, Certs
<1>2. member[m].reply \in Reply \cup {None} /\ mail[m] \in Seq(Reply)
  BY FieldsOf DEF TypeOK
<1>3. member[m].reply = None
  BY <1>1, <1>2 DEF GivenOK
<1>4. ASSUME mail[m] # <<>> PROVE FALSE
  <2>1. Len(mail[m]) \in Nat /\ Len(mail[m]) # 0 /\ DOMAIN mail[m] = 1..Len(mail[m])
    BY <1>2, <1>4
  <2>2. 1 \in DOMAIN mail[m] /\ mail[m][1] \in Reply
    BY <1>2, <2>1
  <2> QED
    BY <1>1, <2>2 DEF GivenOK
<1> QED
  BY <1>3, <1>4

\* A member's step that receives nothing
LEMMA ReplyKept ==
    ASSUME TypeOK, NEW m \in Members,
           \/ Start(m) \/ Resolve(m) \/ Post(m) \/ Hear(m) \/ Shake(m) \/ Switch(m) \/ Probe(m)
           \/ TimeOut(m) \/ Stop(m) \/ LoseConnection(m) \/ Accept(m) \/ StreamStep(m)
           \/ Unbridge(m)
    PROVE  \A x \in Members : member'[x].reply \in {member[x].reply, None}
<1> DEFINE Kept == \A x \in Members : member'[x].reply \in {member[x].reply, None}
<1>1. \A x \in Members : member[x] \in JoinTask
  BY DEF TypeOK
<1>2. ASSUME NEW p \in {"wait", "failed"}, Goes(m, p) PROVE Kept
  <2>1. member' = [member EXCEPT ![m] = [member[m] EXCEPT !.pc = p]]
    BY <1>1, <1>2 DEF Goes, TypeOK
  <2>2. [member[m] EXCEPT !.pc = p].reply = member[m].reply
    BY <1>1 DEF JoinTask
  <2> QED
    BY <2>1, <2>2 DEF TypeOK
<1>3. UNCHANGED member => Kept
  OBVIOUS
<1>0. ASSUME NEW k, k.reply = member[m].reply, member' = [member EXCEPT ![m] = k] PROVE Kept
  BY <1>0 DEF TypeOK
<1>15. /\ \A x : [member[m] EXCEPT !.pc = "post", !.via = x].reply = member[m].reply
       /\ \A x : [member[m] EXCEPT !.pc = "up", !.via = x].reply = member[m].reply
       /\ \A x : [member[m] EXCEPT !.pc = "failed", !.conn = x].reply = member[m].reply
       /\ \A x : [member[m] EXCEPT !.pc = "shake", !.peer = x].reply = member[m].reply
       /\ \A x, y : [member[m] EXCEPT !.pc = "resolve", !.try = x, !.id = y].reply
                      = member[m].reply
  BY <1>1 DEF JoinTask
<1> HIDE DEF Kept
<1>4. CASE Start(m)
  <2>1. PICK id \in Register(m) :
          member' = [member EXCEPT ![m].pc = "resolve", ![m].try = @ + 1, ![m].id = id]
    BY <1>4 DEF Start
  <2>2. member' = [member EXCEPT ![m] = [member[m] EXCEPT !.pc = "resolve",
                                                          !.try = member[m].try + 1, !.id = id]]
    BY <1>1, <2>1 DEF TypeOK
  <2> QED
    BY <1>0, <1>15, <2>2
<1>5. CASE Resolve(m)
  <2>1. CASE Goes(m, "failed")
    BY <1>2, <2>1 DEF Kept
  <2>2. CASE member' = [member EXCEPT ![m].pc = "post", ![m].via = "direct"]
    <3>1. member' = [member EXCEPT ![m] = [member[m] EXCEPT !.pc = "post", !.via = "direct"]]
      BY <1>1, <2>2 DEF TypeOK
    <3> QED
      BY <1>0, <1>15, <3>1
  <2> QED
    BY <1>5, <2>1, <2>2 DEF Resolve
<1>6. CASE Post(m)
  <2>1. Goes(m, "wait") \/ Goes(m, "failed")
    BY <1>6 DEF Post
  <2> QED
    BY <1>2, <2>1 DEF Kept
<1>7. CASE Hear(m)
  <2>1. PICK a \in Addresses : member' = [member EXCEPT ![m].pc = "shake", ![m].peer = a]
    BY <1>7 DEF Hear
  <2>2. member' = [member EXCEPT ![m] = [member[m] EXCEPT !.pc = "shake", !.peer = a]]
    BY <1>1, <2>1 DEF TypeOK
  <2> QED
    BY <1>0, <1>15, <2>2
<1>8. CASE Shake(m)
  BY <1>1, <1>8 DEF Shake, TypeOK, JoinTask, Kept
<1>9. CASE Switch(m)
  <2>1. CASE member' = [member EXCEPT ![m].pc = "up", ![m].via = "tunnel"]
    <3>1. member' = [member EXCEPT ![m] = [member[m] EXCEPT !.pc = "up", !.via = "tunnel"]]
      BY <1>1, <2>1 DEF TypeOK
    <3> QED
      BY <1>0, <1>15, <3>1
  <2>2. CASE member' = [member EXCEPT ![m].pc = "failed", ![m].conn = FALSE]
    <3>1. member' = [member EXCEPT ![m] = [member[m] EXCEPT !.pc = "failed", !.conn = FALSE]]
      BY <1>1, <2>2 DEF TypeOK
    <3> QED
      BY <1>0, <1>15, <3>1
  <2> QED
    BY <1>9, <2>1, <2>2 DEF Switch
<1>10. CASE Probe(m)
  BY <1>3, <1>10 DEF Probe, memberVars
<1>11. CASE TimeOut(m)
  BY <1>2, <1>11 DEF TimeOut, Kept
<1>12. CASE Stop(m)
  <2>1. member' = [member EXCEPT ![m] = Stopped(m)] /\ Stopped(m).reply = None
    BY <1>1, <1>12 DEF Stop, Stopped, JoinTask
  <2> QED
    BY <2>1 DEF TypeOK, Kept
<1>13. CASE LoseConnection(m)
  BY <1>1, <1>13 DEF LoseConnection, TypeOK, JoinTask, Kept
<1>14. CASE Accept(m) \/ StreamStep(m) \/ Unbridge(m)
  BY <1>3, <1>14 DEF Accept, StreamStep, OpenBi, Bridge, Unbridge
<1> QED
  BY <1>4, <1>5, <1>6, <1>7, <1>8, <1>9, <1>10, <1>11, <1>12, <1>13, <1>14 DEF Kept

\* A message of the rest of a mailbox was in it
LEMMA TailIn ==
    ASSUME NEW S, NEW q \in Seq(S), q # <<>>
    PROVE  \A i \in DOMAIN Tail(q) : \E n \in DOMAIN q : Tail(q)[i] = q[n]
<1> SUFFICES ASSUME NEW i \in DOMAIN Tail(q) PROVE i + 1 \in DOMAIN q /\ Tail(q)[i] = q[i + 1]
  OBVIOUS
<1>1. /\ Len(q) \in Nat /\ Len(q) # 0 /\ DOMAIN q = 1..Len(q)
      /\ Tail(q) \in Seq(S) /\ Len(Tail(q)) = Len(q) - 1 /\ DOMAIN Tail(q) = 1..Len(Tail(q))
      /\ \A n \in 1..(Len(q) - 1) : Tail(q)[n] = q[n + 1]
  OBVIOUS
<1> QED
  BY <1>1

LEMMA HeadIn ==
    ASSUME NEW S, NEW q \in Seq(S), q # <<>>
    PROVE  1 \in DOMAIN q /\ Head(q) = q[1]
OBVIOUS

\* A step of a member that receives nothing, and leaves the leader and its files alone
LEMMA MemberInv ==
    ASSUME IInv, TypeOK', NEW m \in Members,
           \/ Start(m) \/ Resolve(m) \/ Post(m) \/ Hear(m) \/ Shake(m) \/ Switch(m) \/ Probe(m)
           \/ TimeOut(m) \/ Stop(m) \/ LoseConnection(m) \/ Accept(m) \/ StreamStep(m)
           \/ Unbridge(m)
    PROVE  IInv'
<1>1. UNCHANGED <<leader, ends, files>>
  BY DEF Start, Resolve, Post, Hear, Shake, Switch, Probe, TimeOut, Stop, LoseConnection, Accept,
         StreamStep, OpenBi, Bridge, Unbridge, leaderVars
<1>2. \A x \in Members : member'[x].reply \in {member[x].reply, None}
  BY ReplyKept DEF IInv
<1>3. \A x \in Members : mail'[x] = mail[x] \/ mail'[x] = <<>>
  <2>1. CASE Start(m)
    BY <2>1 DEF Start, IInv, TypeOK
  <2>2. CASE ~Start(m)
    BY <2>2 DEF Resolve, Post, Hear, Shake, Switch, Probe, TimeOut, Stop, LoseConnection, Accept,
                StreamStep, OpenBi, Bridge, Unbridge
  <2> QED
    BY <2>1, <2>2
<1>4. \A x \in Members : \A i \in DOMAIN mail'[x] :
        \E n \in DOMAIN mail[x] : mail'[x][i] = mail[x][n]
  <2>1. DOMAIN <<>> = {}
    OBVIOUS
  <2> QED
    BY <1>3, <2>1
<1>5. GivenOK'
  BY <1>1, <1>2, <1>4, GivenFrame DEF IInv
<1>6. PairOK'
  BY <1>1, PairFrame DEF IInv
<1>7. EndOK'
  BY <1>1, EndFrame DEF IInv
<1> QED
  BY <1>5, <1>6, <1>7 DEF IInv

\* The reply a member takes is one of its mailbox
LEMMA PullInv == ASSUME IInv, TypeOK', NEW m \in Members, Pull(m) PROVE IInv'
<1>1. /\ UNCHANGED <<leader, ends, files>> /\ mail[m] \in Seq(Reply) /\ mail[m] # <<>>
      /\ mail' = [mail EXCEPT ![m] = <<>>] /\ member[m] \in JoinTask
  BY DEF Pull, leaderVars, IInv, TypeOK
<1>2. \A x \in Members : \/ member'[x].reply = member[x].reply
                          \/ (x = m /\ member'[x].reply = Head(mail[m]))
  <2>1. PICK got \in SignalPull(mail[m]) :
          member' = IF got = <<>> THEN member
                    ELSE [member EXCEPT ![m].pc = "punch", ![m].reply = Head(got)]
    BY DEF Pull
  <2>2. CASE got = <<>>
    BY <2>1, <2>2
  <2>3. CASE got # <<>>
    <3>1. got = mail[m]
      BY <2>1, <2>3 DEF SignalPull
    <3> DEFINE k == [member[m] EXCEPT !.pc = "punch", !.reply = Head(got)]
    <3>2. k.reply = Head(got)
      BY <1>1 DEF JoinTask
    <3>3. member' = [member EXCEPT ![m] = k]
      BY <1>1, <2>1, <2>3 DEF IInv, TypeOK
    <3> HIDE DEF k
    <3> QED
      BY <3>1, <3>2, <3>3 DEF IInv, TypeOK
  <2> QED
    BY <2>2, <2>3
<1>3. ~files.lost => Head(mail[m]).fp = files.key
  BY <1>1, HeadIn DEF IInv, GivenOK
<1>4. GivenOK'
  <2> SUFFICES ASSUME ~files.lost PROVE GivenOK'
    BY <1>1 DEF GivenOK
  <2>1. \A x \in Members : member'[x].reply # None => member'[x].reply.fp = files'.key
    BY <1>1, <1>2, <1>3 DEF IInv, GivenOK
  <2>2. \A x \in Members : mail'[x] = mail[x] \/ mail'[x] = <<>>
    BY <1>1 DEF IInv, TypeOK
  <2>3. DOMAIN <<>> = {}
    OBVIOUS
  <2>4. \A x \in Members : \A i \in DOMAIN mail'[x] : mail'[x][i].fp = files'.key
    BY <1>1, <2>2, <2>3 DEF IInv, GivenOK
  <2> QED
    BY <2>1, <2>4 DEF GivenOK
<1>5. PairOK' /\ EndOK'
  BY <1>1, PairFrame, EndFrame DEF IInv
<1> QED
  BY <1>4, <1>5 DEF IInv

\* A step of the leader that gives nothing away and leaves the key where it is
LEMMA GivenStays ==
    ASSUME IInv, files'.key = files.key, files'.lost = files.lost, UNCHANGED <<member, mail>>
    PROVE  GivenOK'
BY DEF IInv, GivenOK

LEMMA LoadInv == ASSUME IInv, TypeOK', LoadOrGenerate PROVE IInv'
<1>1. /\ UNCHANGED files /\ leader'.tunnels = leader.tunnels
      /\ \/ /\ files.cert # 0 /\ files.key # 0 /\ leader'.pc = "pull"
            /\ leader'.cert = files.cert /\ leader'.key = files.key
         \/ /\ files.cert = 0 \/ files.key = 0
            /\ leader'.pc = "cert"
            /\ leader'.cert = crashes + 1 /\ leader'.key = crashes + 1
  BY LoadFields DEF IInv
<1>2. UNCHANGED <<member, mail, ends>> /\ crashes + 1 # 0
  BY NextCert DEF LoadOrGenerate, memberVars, IInv
<1>3. PairOK'
  BY <1>1, <1>2 DEF IInv, PairOK, Chosen, Serving
<1>4. GivenOK'
  BY <1>1, <1>2, GivenStays
<1>5. EndOK'
  BY <1>1, <1>2 DEF IInv, EndOK, OneEndpoint
<1> QED
  BY <1>3, <1>4, <1>5 DEF IInv

LEMMA WriteInv == ASSUME IInv, TypeOK', WriteFiles PROVE IInv'
<1>1. /\ leader'.cert = leader.cert /\ leader'.key = leader.key
      /\ leader'.tunnels = leader.tunnels
      /\ leader.pc \in {"cert", "certWrite", "key", "keyWrite"}
      /\ leader'.pc \in {"certWrite", "key", "keyWrite", "pull"}
      /\ \/ files'.lost = TRUE
         \/ files'.lost = files.lost /\ leader.pc = "cert" /\ leader'.pc = "certWrite"
            /\ files'.cert = 0 /\ files'.key = files.key
         \/ files'.lost = files.lost /\ leader.pc = "certWrite" /\ leader'.pc = "key"
            /\ files'.cert = leader.cert /\ files'.key = files.key
         \/ files'.lost = files.lost /\ leader.pc = "key" /\ leader'.pc = "keyWrite"
            /\ files'.key = 0 /\ files'.cert = files.cert
         \/ files'.lost = files.lost /\ leader.pc = "keyWrite" /\ leader'.pc = "pull"
            /\ files'.key = leader.key /\ files'.cert = files.cert
  BY WriteFields DEF IInv
<1>2. UNCHANGED <<member, mail, ends>>
  BY DEF WriteFiles, memberVars
<1>3. ~files'.lost => ~files.lost /\ files.key = 0
  BY <1>1 DEF IInv, PairOK, Chosen
<1>4. PairOK'
  BY <1>1, <1>3 DEF IInv, PairOK, Chosen, Serving
<1>5. GivenOK'
  <2> SUFFICES ASSUME ~files'.lost PROVE GivenOK'
    BY DEF GivenOK
  <2>1. \A m \in Members : member[m].reply = None /\ mail[m] = <<>>
    BY <1>3, NothingGiven DEF IInv
  <2>2. DOMAIN <<>> = {}
    OBVIOUS
  <2> QED
    BY <1>2, <2>1, <2>2 DEF GivenOK
<1>6. EndOK'
  BY <1>1, <1>2 DEF IInv, EndOK, OneEndpoint
<1> QED
  BY <1>4, <1>5, <1>6 DEF IInv

\* A step of the session that keeps its pair, its tunnels and everybody's replies
LEMMA SessionInv ==
    ASSUME IInv, TypeOK',
           leader'.cert = leader.cert, leader'.key = leader.key,
           leader'.tunnels = leader.tunnels, leader'.pc \in Serving, leader.pc \in Serving,
           leader'.pc = "punch" => leader.pc = "punch" /\ leader'.batch = leader.batch,
           UNCHANGED <<member, mail, ends, files>>
    PROVE  IInv'
<1>1. PairOK'
  BY DEF IInv, PairOK, Chosen, Serving
<1>2. GivenOK'
  BY GivenStays
<1>3. EndOK'
  BY DEF IInv, EndOK, OneEndpoint, Known, Taken
<1> QED
  BY <1>1, <1>2, <1>3 DEF IInv

LEMMA LeaderRegisterInv == ASSUME IInv, TypeOK', LeaderRegister PROVE IInv'
<1>1. leader \in Session /\ leader' = [leader EXCEPT !.pc = "load"]
      /\ UNCHANGED <<member, mail, ends, files>>
  BY DEF LeaderRegister, memberVars, IInv, TypeOK
<1>2. leader'.pc = "load" /\ leader'.tunnels = leader.tunnels
  BY <1>1, PlaceTyped DEF Writing
<1>3. PairOK'
  BY <1>1, <1>2 DEF IInv, PairOK, Chosen, Serving
<1>4. GivenOK'
  BY <1>1, GivenStays
<1>5. EndOK'
  BY <1>1, <1>2 DEF IInv, EndOK, OneEndpoint
<1> QED
  BY <1>3, <1>4, <1>5 DEF IInv

LEMMA LeaderPullInv == ASSUME IInv, TypeOK', LeaderPull PROVE IInv'
<1>1. leader \in Session /\ leader.pc = "pull" /\ UNCHANGED <<member, mail, ends, files>>
  BY DEF LeaderPull, memberVars, IInv, TypeOK
<1>2. PICK got \in SignalPull(inbox) : leader' = [leader EXCEPT !.pc = "batch", !.batch = got]
  BY DEF LeaderPull
<1>3. /\ leader'.pc = "batch" /\ leader'.cert = leader.cert /\ leader'.key = leader.key
      /\ leader'.tunnels = leader.tunnels
  BY <1>1, <1>2 DEF Session
<1> QED
  BY <1>1, <1>3, SessionInv DEF Serving

LEMMA DropInv ==
    ASSUME IInv, TypeOK', leader.batch # <<>>, leader.pc \in {"batch", "punch"}, leader' = Drop,
           UNCHANGED <<member, mail, ends, files>>
    PROVE  IInv'
<1>1. /\ leader'.pc = "batch" /\ leader'.cert = leader.cert /\ leader'.key = leader.key
      /\ leader'.tunnels = leader.tunnels
  BY TakenTyped DEF IInv
<1> QED
  BY <1>1, SessionInv DEF Serving

LEMMA SkipOrEndInv == ASSUME IInv, TypeOK', SkipOrEnd PROVE IInv'
<1>1. leader \in Session /\ leader.pc = "batch" /\ UNCHANGED <<member, mail, ends, files>>
  BY DEF SkipOrEnd, memberVars, IInv, TypeOK
<1>2. CASE leader.batch # <<>>
  BY <1>1, <1>2, DropInv DEF SkipOrEnd
<1>3. CASE leader.batch = <<>>
  <2>1. leader' = [leader EXCEPT !.pc = "pull"]
    BY <1>3 DEF SkipOrEnd
  <2>2. "pull" \in {"down"} \cup Serving \cup Writing
    BY DEF Serving
  <2>3. /\ leader'.pc = "pull" /\ leader'.cert = leader.cert /\ leader'.key = leader.key
        /\ leader'.tunnels = leader.tunnels
    BY <1>1, <2>1, <2>2, PlaceTyped
  <2> QED
    BY <1>1, <2>3, SessionInv DEF Serving
<1> QED
  BY <1>2, <1>3

\* The fingerprint of a reply is that of the pair on disk
LEMMA AnswerInv == ASSUME IInv, TypeOK', Answer PROVE IInv'
<1>1. /\ leader.pc = "batch" /\ leader.batch # <<>> /\ ~Known(Taken)
      /\ leader'.cert = leader.cert /\ leader'.key = leader.key
      /\ leader'.tunnels = leader.tunnels
      /\ \/ leader'.pc = "punch" /\ leader'.batch = leader.batch
         \/ leader'.pc = "batch" /\ leader'.batch = Tail(leader.batch)
  BY AnswerFields DEF IInv
<1>2. UNCHANGED <<member, ends, files>> /\ Taken.join.of \in Members
  BY <1>1, TakenTyped DEF Answer, memberVars, IInv, Join
<1>3. PairOK'
  BY <1>1, <1>2 DEF IInv, PairOK, Chosen, Serving
<1>4. EndOK'
  <2>1. leader'.pc = "punch" => ~Known(Taken)'
    BY <1>1 DEF Known, Taken
  <2> QED
    BY <1>1, <1>2, <2>1 DEF IInv, EndOK, OneEndpoint
<1>5. ~files.lost => leader.cert = files.key
  BY <1>1 DEF IInv, PairOK, Serving
<1>6. GivenOK'
  <2>1. CASE UNCHANGED mail
    BY <1>2, <2>1, GivenStays
  <2>2. ASSUME NEW r, r.fp = leader.cert,
               mail' = [mail EXCEPT ![Taken.join.of] = Append(mail[Taken.join.of], r)]
        PROVE  GivenOK'
    <3> SUFFICES ASSUME ~files.lost PROVE GivenOK'
      BY <1>2 DEF GivenOK
    <3> DEFINE m == Taken.join.of
               new == Append(mail[m], r)
    <3>1. mail[m] \in Seq(Reply)
      BY <1>2 DEF IInv, TypeOK
    <3>2. \A n \in DOMAIN new : new[n] = r \/ (n \in DOMAIN mail[m] /\ new[n] = mail[m][n])
      BY <3>1
    <3>3. \A n \in DOMAIN mail[m] : mail[m][n].fp = files.key
      BY <1>2 DEF IInv, GivenOK
    <3>4. \A n \in DOMAIN new : new[n].fp = files.key
      BY <1>5, <2>2, <3>2, <3>3
    <3>5. mail'[m] = new /\ \A x \in Members : x # m => mail'[x] = mail[x]
      BY <1>2, <2>2 DEF IInv, TypeOK
    <3> HIDE DEF new, m
    <3>6. \A x \in Members : \A n \in DOMAIN mail'[x] : mail'[x][n].fp = files'.key
      BY <1>2, <3>4, <3>5 DEF IInv, GivenOK
    <3> QED
      BY <1>2, <3>6 DEF IInv, GivenOK
  <2>3. \A cands : [join |-> Taken.join, cands |-> cands, fp |-> leader.cert].fp = leader.cert
    OBVIOUS
  <2> QED
    BY <2>1, <2>2, <2>3, AnswerFields DEF IInv
<1> QED
  BY <1>3, <1>4, <1>6 DEF IInv

LEMMA LeaderProbeInv == ASSUME IInv, TypeOK', LeaderProbe PROVE IInv'
<1>1. UNCHANGED <<member, mail, leader, ends, files>>
  BY DEF LeaderProbe, memberVars, leaderVars
<1>2. GivenOK'
  BY <1>1, GivenStays
<1> QED
  BY <1>1, <1>2, PairFrame, EndFrame DEF IInv

\* Who gets an endpoint was not known: no other endpoint carries its share id
LEMMA LeaderHearInv == ASSUME IInv, TypeOK', LeaderHear PROVE IInv'
<1>1. /\ leader.batch # <<>> /\ leader.pc = "punch" /\ leader'.pc = "batch"
      /\ leader'.cert = leader.cert /\ leader'.key = leader.key
      /\ \/ /\ ends' = ends \cup {Taken.join}
            /\ leader'.tunnels = leader.tunnels \cup {<<Taken.join.of, Taken.join.id>>}
         \/ UNCHANGED ends /\ leader'.tunnels = leader.tunnels
  BY HearFields DEF IInv
<1>2. UNCHANGED <<member, mail, files>>
  BY DEF LeaderHear, memberVars
<1>3. PairOK'
  BY <1>1, <1>2 DEF IInv, PairOK, Chosen, Serving
<1>4. GivenOK'
  BY <1>2, GivenStays
<1>5. EndOK'
  <2>1. CASE UNCHANGED ends /\ leader'.tunnels = leader.tunnels
    BY <1>1, <2>1 DEF IInv, EndOK, OneEndpoint
  <2>2. CASE /\ ends' = ends \cup {Taken.join}
             /\ leader'.tunnels = leader.tunnels \cup {<<Taken.join.of, Taken.join.id>>}
    <3> DEFINE j == Taken.join
    <3>1. <<j.of, j.id>> \notin leader.tunnels
      BY <1>1 DEF IInv, EndOK, Known
    <3>2. \A i \in ends : <<i.of, i.id>> \in leader.tunnels
      BY DEF IInv, EndOK
    <3>3. \A i \in ends : ~(i.of = j.of /\ i.id = j.id)
      BY <3>1, <3>2
    <3>4. \A i \in ends' : <<i.of, i.id>> \in leader'.tunnels
      BY <2>2, <3>2
    <3>5. OneEndpoint'
      BY <2>2, <3>3 DEF IInv, EndOK, OneEndpoint
    <3> QED
      BY <1>1, <3>4, <3>5 DEF EndOK
  <2> QED
    BY <1>1, <2>1, <2>2
<1> QED
  BY <1>3, <1>4, <1>5 DEF IInv

LEMMA LeaderTimeOutInv == ASSUME IInv, TypeOK', LeaderTimeOut PROVE IInv'
<1>1. leader.batch # <<>> /\ leader.pc = "punch" /\ leader' = Drop
      /\ UNCHANGED <<member, mail, ends, files>>
  BY DEF LeaderTimeOut, memberVars, IInv, TypeOK
<1> QED
  BY <1>1, DropInv

LEMMA LeaderCrashInv == ASSUME IInv, TypeOK', LeaderCrash PROVE IInv'
<1>1. leader'.pc = "down" /\ ends' = {} /\ UNCHANGED <<member, mail, files>>
  BY DEF LeaderCrash, memberVars
<1>2. PairOK'
  BY <1>1 DEF IInv, PairOK, Chosen, Serving
<1>3. GivenOK'
  BY <1>1, GivenStays
<1>4. EndOK'
  BY <1>1 DEF EndOK, OneEndpoint
<1> QED
  BY <1>2, <1>3, <1>4 DEF IInv

\* A message that expires takes its fingerprint with it
LEMMA ExpireInv == ASSUME IInv, TypeOK', Expire \/ Lose PROVE IInv'
<1>1. UNCHANGED <<member, leader, ends, files>>
  BY DEF Expire, Lose, memberVars, leaderVars
<1>2. \A x \in Members : \A i \in DOMAIN mail'[x] :
        \E n \in DOMAIN mail[x] : mail'[x][i] = mail[x][n]
  <2>1. CASE UNCHANGED mail
    BY <2>1
  <2>2. ASSUME NEW m \in Members, mail[m] # <<>>, mail' = [mail EXCEPT ![m] = Tail(@)]
        PROVE  \A x \in Members : \A i \in DOMAIN mail'[x] :
                 \E n \in DOMAIN mail[x] : mail'[x][i] = mail[x][n]
    <3>1. mail[m] \in Seq(Reply)
      BY DEF IInv, TypeOK
    <3>2. \A i \in DOMAIN Tail(mail[m]) : \E n \in DOMAIN mail[m] : Tail(mail[m])[i] = mail[m][n]
      BY <2>2, <3>1, TailIn
    <3>3. mail'[m] = Tail(mail[m]) /\ \A x \in Members : x # m => mail'[x] = mail[x]
      BY <2>2 DEF IInv, TypeOK
    <3> SUFFICES ASSUME NEW x \in Members, NEW i \in DOMAIN mail'[x]
                 PROVE  \E n \in DOMAIN mail[x] : mail'[x][i] = mail[x][n]
      OBVIOUS
    <3>4. CASE x = m
      BY <3>2, <3>3, <3>4
    <3>5. CASE x # m
      BY <3>3, <3>5
    <3> QED
      BY <3>4, <3>5
  <2> QED
    BY <2>1, <2>2 DEF Expire, Lose
<1>3. \A m \in Members : member'[m].reply \in {member[m].reply, None}
  BY <1>1
<1>4. GivenOK'
  BY <1>1, <1>2, <1>3, GivenFrame DEF IInv
<1> QED
  BY <1>1, <1>4, PairFrame, EndFrame DEF IInv

-----------------------------------------------------------------------------
(* The theorems *)

LEMMA StepTypes == ASSUME IInv, Next PROVE TypeOK'
<1>1. TypeOK
  BY DEF IInv
<1>2. ASSUME NEW m \in Members, Start(m) PROVE TypeOK'
  BY <1>1, <1>2, StartTyped
<1>3. ASSUME NEW m \in Members, JoinStep(m) PROVE TypeOK'
  <2>1. CASE Post(m)
    BY <1>1, <2>1, PostTyped
  <2>2. CASE Pull(m)
    BY <1>1, <2>2, PullTyped
  <2>3. CASE Hear(m)
    BY <1>1, <2>3, HearTyped
  <2>4. CASE Resolve(m)
    BY <1>1, <2>4, ResolveTyped, MemberAlone DEF Resolve
  <2>5. CASE Shake(m)
    BY <1>1, <2>5, ShakeTyped, MemberAlone DEF Shake
  <2>6. CASE Switch(m)
    BY <1>1, <2>6, SwitchTyped, MemberAlone DEF Switch
  <2> QED
    BY <1>3, <2>1, <2>2, <2>3, <2>4, <2>5, <2>6 DEF JoinStep
<1>4. ASSUME NEW m \in Members, Probe(m) PROVE TypeOK'
  BY <1>1, <1>4, ProbeTyped
<1>5. ASSUME NEW m \in Members, TimeOut(m) PROVE TypeOK'
  BY <1>1, <1>5, TimeOutTyped, MemberAlone DEF TimeOut
<1>6. ASSUME NEW m \in Members, Stop(m) PROVE TypeOK'
  BY <1>1, <1>6, StopTyped, MemberAlone DEF Stop
<1>7. ASSUME NEW m \in Members, LoseConnection(m) PROVE TypeOK'
  BY <1>1, <1>7, LoseConnectionTyped, MemberAlone DEF LoseConnection
<1>8. ASSUME NEW m \in Members, Accept(m) \/ StreamStep(m) \/ Unbridge(m) PROVE TypeOK'
  BY <1>1, <1>8, StreamTyped, MemberAlone DEF Accept, StreamStep, OpenBi, Bridge, Unbridge
<1>9. CASE LeaderRegister
  BY <1>1, <1>9, LeaderRegisterTyped
<1>10. CASE LeaderStep
  <2>1. CASE Answer
    <3>1. leader.cert # 0
      BY <2>1 DEF Answer, IInv, PairOK, Serving
    <3> QED
      BY <1>1, <2>1, <3>1, AnswerTyped
  <2> QED
    BY <1>1, <1>10, <2>1, LoadTyped, WriteTyped, LeaderPullTyped, SkipOrEndTyped, LeaderHearTyped
       DEF LeaderStep
<1>11. CASE LeaderProbe \/ LeaderTimeOut \/ LeaderCrash \/ Lose \/ Expire
  BY <1>1, <1>11, LeaderProbeTyped, LeaderTimeOutTyped, LeaderCrashTyped, LoseTyped, ExpireTyped
<1> QED
  BY <1>2, <1>3, <1>4, <1>5, <1>6, <1>7, <1>8, <1>9, <1>10, <1>11 DEF Next

LEMMA StepInv == ASSUME IInv, [Next]_vars PROVE IInv'
<1>1. CASE UNCHANGED vars
  <2>1. UNCHANGED <<member, tcp, mail, inbox, leader, ends, files, crashes, net>>
    BY <1>1 DEF vars, memberVars, leaderVars
  <2>2. TypeOK'
    BY <2>1 DEF IInv, TypeOK, JoinOK
  <2>3. GivenOK'
    BY <2>1, GivenStays
  <2> QED
    BY <2>1, <2>2, <2>3, PairFrame, EndFrame DEF IInv
<1>2. CASE Next
  <2>1. TypeOK'
    BY <1>2, StepTypes
  <2>2. ASSUME NEW m \in Members,
               \/ Start(m) \/ JoinStep(m) \/ Probe(m) \/ TimeOut(m) \/ Stop(m)
               \/ LoseConnection(m) \/ Accept(m) \/ StreamStep(m) \/ Unbridge(m)
        PROVE  IInv'
    <3>1. CASE Pull(m)
      BY <2>1, <3>1, PullInv
    <3>2. CASE ~Pull(m)
      BY <2>1, <2>2, <3>2, MemberInv DEF JoinStep
    <3> QED
      BY <3>1, <3>2
  <2>3. CASE LeaderRegister
    BY <2>1, <2>3, LeaderRegisterInv
  <2>4. CASE LeaderStep
    BY <2>1, <2>4, LoadInv, WriteInv, LeaderPullInv, SkipOrEndInv, AnswerInv, LeaderHearInv
       DEF LeaderStep
  <2>5. CASE LeaderProbe \/ LeaderTimeOut \/ LeaderCrash \/ Lose \/ Expire
    BY <2>1, <2>5, LeaderProbeInv, LeaderTimeOutInv, LeaderCrashInv, ExpireInv
  <2> QED
    BY <1>2, <2>2, <2>3, <2>4, <2>5 DEF Next
<1> QED
  BY <1>1, <1>2

LEMMA SpecInv == Spec => []IInv
<1>1. Init => IInv
  BY InitInv
<1>2. IInv /\ [Next]_vars => IInv'
  BY StepInv
<1> QED
  BY <1>1, <1>2, PTL DEF Spec

\* Every step keeps the state of members, mailboxes, session, files and network
\* within its types: who punches has a reply, who has a connection is bound, and
\* only a program that is up serves its local port
THEOREM PunchTypes == Spec => []TypeOK
<1>1. IInv => TypeOK
  BY DEF IInv
<1> QED
  BY <1>1, SpecInv, PTL

\* For any number of members, starts and crashes: the leader serves with a certificate
\* and a key, and as long as no write of the two files has failed they are one pair
\* and every fingerprint the leader ever gave is the one it serves
THEOREM FingerprintIsServed == Spec => []FingerprintHolds
<1>1. IInv => FingerprintHolds
  BY DEF IInv, PairOK, GivenOK, FingerprintHolds, Fits
<1> QED
  BY <1>1, SpecInv, PTL

\* For any number of messages of one share id, in one round or in many: the leader
\* keeps one endpoint for it
THEOREM EndpointIsOne == Spec => []OneEndpoint
<1>1. IInv => OneEndpoint
  BY DEF IInv, EndOK
<1> QED
  BY <1>1, SpecInv, PTL

=============================================================================
