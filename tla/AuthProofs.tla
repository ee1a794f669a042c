----------------------------- MODULE AuthProofs -----------------------------
(***************************************************************************)
(* Proofs about Auth, for any number of machines, keys and concurrent      *)
(* calls.                                                                  *)
(***************************************************************************)
EXTENDS Auth, TLAPS

-----------------------------------------------------------------------------
(* Types.  Each step writes one stack frame: it is enough that the frame it *)
(* writes has the type of a frame.                                          *)

LEMMA Frames == NoCall \in Call /\ NoCtl \in Ctl /\ NoBans \in BanState
BY ConstantsOK DEF NoCall, Call, NoCtl, Ctl, NoBans, BanState

LEMMA CallFrame ==
    ASSUME call \in [Clients -> Call], NEW c \in Clients, NEW f \in Call
    PROVE  [call EXCEPT ![c] = f] \in [Clients -> Call]
OBVIOUS

LEMMA CtlFrame ==
    ASSUME ctl \in [Admins -> Ctl], NEW a \in Admins, NEW f \in Ctl
    PROVE  [ctl EXCEPT ![a] = f] \in [Admins -> Ctl]
OBVIOUS

\* Every step of a client leaves it a well-typed frame
LEMMA CallType ==
    ASSUME TypeOK, NEW c \in Clients, ClientStep(c)
    PROVE  call' \in [Clients -> Call]
<1>1. call \in [Clients -> Call]
  BY DEF TypeOK
<1>2. ASSUME NEW s \in {"reuse", "retain", "ban"}, NEW m \in Members \cup {None},
             NEW i \in Ips \cup {NoIp}
      PROVE  NewCall(s, m, i) \in Call
  <2>1. BansOn(m, i) \in SUBSET {"member", "ip"}
    BY DEF BansOn
  <2> QED
    BY <2>1, ConstantsOK DEF NewCall, Call
<1>3. CASE AuthToken(c)
  BY <1>1, <1>2, <1>3, CallFrame DEF AuthToken, StartCall
<1>4. CASE Retain(c)
  <2>1. [call[c] EXCEPT !.step = "dropSave",
                        !.dropped = KeysOf(call[c].member)] \in Call
    BY <1>1 DEF TypeOK, Call, KeysOf
  <2> QED
    BY <1>1, <1>4, <2>1, CallFrame DEF Retain
<1>5. CASE Reuse(c)
  <2>1. [call[c] EXCEPT !.step = "ip", !.clock = now] \in Call
    BY <1>1 DEF TypeOK, Call
  <2> QED
    BY <1>1, <1>5, <2>1, CallFrame, Frames DEF Reuse
<1>6. CASE IpCheck(c)
  <2>1. [call[c] EXCEPT !.step = "member"] \in Call
    BY <1>1 DEF Call
  <2> QED
    BY <1>1, <1>6, <2>1, CallFrame, Frames DEF IpCheck
<1>7. CASE MemberCheck(c)
  <2>1. [call[c] EXCEPT !.step = "insert"] \in Call
    BY <1>1 DEF Call
  <2> QED
    BY <1>1, <1>7, <2>1, CallFrame, Frames DEF MemberCheck
<1>8. CASE Insert(c)
  <2>1. [call[c] EXCEPT !.step = "save", !.clock = 0] \in Call
    <3>1. 0 \in 0..MaxTime
      BY ConstantsOK
    <3> QED
      BY <1>1, <3>1 DEF Call
  <2> QED
    BY <1>1, <1>8, <2>1, CallFrame DEF Insert
<1>9. CASE SaveBegin(c)
  <2>1. ASSUME NEW s \in {"saving", "dropSaving"}
        PROVE  [call[c] EXCEPT !.step = s, !.snap = sessions] \in Call
    BY <1>1 DEF TypeOK, Call
  <2> QED
    BY <1>1, <1>9, <2>1, CallFrame DEF SaveBegin
<1>10. CASE SaveEnd(c)
  <2>1. [call[c] EXCEPT !.step = "reuse", !.snap = {}, !.dropped = {}] \in Call
    BY <1>1 DEF Call
  <2> QED
    BY <1>1, <1>10, <2>1, CallFrame, Frames DEF SaveEnd
<1>11. CASE VerifyKey(c)
  BY <1>1, <1>2, <1>11, CallFrame DEF VerifyKey, TypeOK
<1>12. CASE VerifyBan(c)
  <2>1. [call[c] EXCEPT !.step = "served"] \in Call
    BY <1>1 DEF Call
  <2> QED
    BY <1>1, <1>12, <2>1, CallFrame, Frames DEF VerifyBan
<1>13. CASE Served(c)
  BY <1>1, <1>13, CallFrame, Frames DEF Served
<1> QED
  BY <1>3, <1>4, <1>5, <1>6, <1>7, <1>8, <1>9, <1>10, <1>11, <1>12, <1>13
  DEF ClientStep

\* Every step of an administrator leaves it a well-typed frame
LEMMA CtlType ==
    ASSUME TypeOK, NEW a \in Admins, AdminStep(a)
    PROVE  ctl' \in [Admins -> Ctl]
<1>1. ctl \in [Admins -> Ctl]
  BY DEF TypeOK
<1>2. ASSUME NEW op \in {"revoke", "unban"}, NEW m \in Members,
             NEW i \in Ips \cup {NoIp}, StartCtl(a, op, m, i)
      PROVE  ctl' \in [Admins -> Ctl]
  <2>1. [step |-> IF i = NoIp THEN "members" ELSE "ip", op |-> op,
         member |-> m, ip |-> i, bans |-> NoBans, snap |-> {}] \in Ctl
    BY Frames DEF Ctl
  <2> QED
    BY <1>1, <1>2, <2>1, CtlFrame DEF StartCtl
<1>3. CASE Revoke(a)
  BY <1>2, <1>3 DEF Revoke
<1>4. CASE Unban(a)
  BY <1>2, <1>4 DEF Unban
<1>5. CASE CtlIp(a)
  <2>1. [ctl[a] EXCEPT !.step = "members", !.ip = NoIp] \in Ctl
    BY <1>1 DEF Ctl
  <2> QED
    BY <1>1, <1>5, <2>1, CtlFrame DEF CtlIp
<1>6. CASE SaveMembers(a)
  <2>1. [ctl[a] EXCEPT !.step = "ips", !.bans.members = banned] \in Ctl
    BY <1>1 DEF TypeOK, Ctl, BanState
  <2> QED
    BY <1>1, <1>6, <2>1, CtlFrame DEF SaveMembers
<1>7. CASE SaveIps(a)
  <2>1. [ctl[a] EXCEPT !.step = "truncate", !.bans.ips = bannedIps] \in Ctl
    BY <1>1 DEF TypeOK, Ctl, BanState
  <2> QED
    BY <1>1, <1>7, <2>1, CtlFrame DEF SaveIps
<1>8. CASE BanFileTruncate(a)
  <2>1. [ctl[a] EXCEPT !.step = "write"] \in Ctl
    BY <1>1 DEF Ctl
  <2> QED
    BY <1>1, <1>8, <2>1, CtlFrame DEF BanFileTruncate
<1>9. CASE BanFileWrite(a)
  <2>1. [ctl[a] EXCEPT !.step = "save", !.bans = NoBans] \in Ctl
    BY <1>1, Frames DEF Ctl
  <2> QED
    BY <1>1, <1>9, <2>1, CtlFrame, Frames DEF BanFileWrite
<1>10. CASE CtlSaveBegin(a)
  <2>1. [ctl[a] EXCEPT !.step = "saving", !.snap = sessions] \in Ctl
    BY <1>1 DEF TypeOK, Ctl
  <2> QED
    BY <1>1, <1>10, <2>1, CtlFrame DEF CtlSaveBegin
<1>11. CASE CtlSaveEnd(a)
  BY <1>1, <1>11, CtlFrame, Frames DEF CtlSaveEnd
<1> QED
  BY <1>3, <1>4, <1>5, <1>6, <1>7, <1>8, <1>9, <1>10, <1>11 DEF AdminStep

\* A call of the panel that begins
LEMMA CtlBegins ==
    ASSUME ctl \in [Admins -> Ctl], NEW a \in Admins, Revoke(a) \/ Unban(a)
    PROVE  /\ ctl[a].step = "idle" /\ ctl'[a].step \in {"members", "ip"}
           /\ ctl'[a].step = "ip" => ctl'[a].ip \in Ips
           /\ \A b \in Admins \ {a} : ctl'[b] = ctl[b]
           /\ UNCHANGED <<sessions, bannedIps, disk, keys, now, retired, torn>>
           /\ \E m \in Members :
                \/ banned' = banned \cup {m} /\ Meet(a, acked) /\ UNCHANGED call
                \/ banned' = banned \ {m} /\ Meet(a, acked \ {m}) /\ LiftMember(m)
<1>1. ASSUME NEW op, NEW m, NEW i \in Ips \cup {NoIp}, StartCtl(a, op, m, i)
      PROVE  /\ ctl[a].step = "idle" /\ ctl'[a].step \in {"members", "ip"}
             /\ ctl'[a].step = "ip" => ctl'[a].ip \in Ips
             /\ \A b \in Admins \ {a} : ctl'[b] = ctl[b]
  BY <1>1 DEF StartCtl
<1>2. CASE Revoke(a)
  <2>1. PICK m \in Members, i \in Ips \cup {NoIp} :
          /\ StartCtl(a, "revoke", m, i) /\ banned' = banned \cup {m} /\ Meet(a, acked)
          /\ UNCHANGED <<sessions, bannedIps, disk, keys, now, call, retired, torn>>
    BY <1>2, Zenon DEF Revoke
  <2> QED
    BY <1>1, <2>1
<1>3. CASE Unban(a)
  <2>1. PICK m \in Members, i \in Ips \cup {NoIp} :
          /\ StartCtl(a, "unban", m, i) /\ banned' = banned \ {m} /\ Meet(a, acked \ {m})
          /\ LiftMember(m)
          /\ UNCHANGED <<sessions, bannedIps, disk, keys, now, retired, torn>>
    BY <1>3, Zenon DEF Unban
  <2> QED
    BY <1>1, <2>1
<1> QED
  BY <1>2, <1>3

\* An administrator at the address list has an address
LEMMA CtlAddress ==
    ASSUME TypeOK, NEW a \in Admins, AdminStep(a)
    PROVE  \A b \in Admins : ctl'[b].step = "ip" => ctl'[b].ip \in Ips
<1> USE DEF TypeOK
<1>1. CASE Revoke(a) \/ Unban(a)
  BY <1>1, CtlBegins
<1>2. ASSUME NEW s \in {"members", "ips", "truncate", "write", "saving"},
             ctl'[a].step = s, \A b \in Admins \ {a} : ctl'[b] = ctl[b]
      PROVE  \A b \in Admins : ctl'[b].step = "ip" => ctl'[b].ip \in Ips
  BY <1>2
<1>3. CASE CtlIp(a)
  BY <1>2, <1>3 DEF CtlIp, Ctl
<1>4. CASE SaveMembers(a) \/ SaveIps(a) \/ BanFileTruncate(a) \/ CtlSaveBegin(a)
  <2>1. ctl[a] \in Ctl
    OBVIOUS
  <2>2. CASE SaveMembers(a)
    BY <1>2, <2>1, <2>2 DEF SaveMembers, Ctl
  <2>3. CASE SaveIps(a)
    BY <1>2, <2>1, <2>3 DEF SaveIps, Ctl
  <2>4. CASE BanFileTruncate(a)
    BY <1>2, <2>1, <2>4 DEF BanFileTruncate, Ctl
  <2>5. CASE CtlSaveBegin(a)
    BY <1>2, <2>1, <2>5 DEF CtlSaveBegin, Ctl
  <2> QED
    BY <1>4, <2>2, <2>3, <2>4, <2>5
<1>5. CASE BanFileWrite(a)
  <2>1. ctl[a] \in Ctl
    OBVIOUS
  <2>2. NoCtl.step # "ip"
    BY DEF NoCtl
  <2>3. [ctl[a] EXCEPT !.step = "save", !.bans = NoBans].step = "save"
    BY <2>1 DEF Ctl
  <2>4. ctl'[a].step # "ip" /\ \A b \in Admins \ {a} : ctl'[b] = ctl[b]
    BY <1>5, <2>2, <2>3 DEF BanFileWrite
  <2> QED
    BY <2>4
<1>6. CASE CtlSaveEnd(a)
  BY <1>6 DEF CtlSaveEnd, NoCtl
<1> QED
  BY <1>1, <1>3, <1>4, <1>5, <1>6 DEF AdminStep

\* The rest of the state keeps its type when a client moves ...
LEMMA ClientType ==
    ASSUME TypeOK, NEW c \in Clients, ClientStep(c)
    PROVE  TypeOK'
<1> USE CallType DEF TypeOK
<1>1. call[c] \in Call
  OBVIOUS
<1>2. CASE Retain(c)
  BY <1>2 DEF Retain, disk, keys, ghosts
<1>3. CASE Insert(c)
  <2>1. Expiry(call[c].clock) \in 0..Forever
    BY <1>1, ConstantsOK DEF Expiry, Forever, Call
  <2> QED
    BY <1>1, <1>3, <2>1 DEF Insert, disk, ghosts, Call
<1>4. CASE SaveBegin(c)
  BY <1>4 DEF SaveBegin, memory, keys, ghosts
<1>5. CASE SaveEnd(c)
  BY <1>1, <1>5 DEF SaveEnd, memory, keys, Call
<1>6. CASE AuthToken(c) \/ Reuse(c) \/ IpCheck(c) \/ MemberCheck(c)
           \/ VerifyKey(c) \/ VerifyBan(c) \/ Served(c)
  BY <1>6 DEF AuthToken, StartCall, Reuse, IpCheck, MemberCheck, VerifyKey,
              VerifyBan, Served, memory, disk, keys, ghosts
<1> QED
  BY <1>2, <1>3, <1>4, <1>5, <1>6 DEF ClientStep

\* ... and when an administrator does
LEMMA AdminType ==
    ASSUME TypeOK, NEW a \in Admins, AdminStep(a)
    PROVE  TypeOK'
<1> USE CtlType, CtlAddress DEF TypeOK
<1>1. ctl[a] \in Ctl
  OBVIOUS
<1>2. CASE Revoke(a) \/ Unban(a)
  <2>1. ASSUME NEW m \in Members, LiftMember(m)
        PROVE  call' \in [Clients -> Call]
    BY <2>1 DEF LiftMember, Call
  <2>2. ASSUME NEW s \in SUBSET Members, Meet(a, s)
        PROVE  apart' \in BOOLEAN /\ acked' \in SUBSET Members
    BY <2>2 DEF Meet
  <2>3. PICK m \in Members :
          \/ banned' = banned \cup {m} /\ Meet(a, acked) /\ UNCHANGED call
          \/ banned' = banned \ {m} /\ Meet(a, acked \ {m}) /\ LiftMember(m)
    BY <1>2, CtlBegins
  <2>4. /\ banned' \in SUBSET Members /\ call' \in [Clients -> Call]
        /\ apart' \in BOOLEAN /\ acked' \in SUBSET Members
    BY <2>1, <2>2, <2>3
  <2>5. UNCHANGED <<sessions, bannedIps, disk, keys, now, retired, torn>>
    BY <1>2, CtlBegins
  <2> QED
    BY <2>4, <2>5 DEF disk, keys
<1>4. CASE CtlIp(a)
  <2>1. ASSUME LiftIp(ctl[a].ip)
        PROVE  call' \in [Clients -> Call]
    BY <2>1 DEF LiftIp, Call
  <2> QED
    BY <1>4, <2>1, CtlAddress DEF CtlIp, disk, keys, ghosts
<1>5. CASE BanFileTruncate(a)
  BY <1>5, Frames DEF BanFileTruncate, memory, keys, ghosts
<1>6. CASE BanFileWrite(a)
  BY <1>1, <1>6, Frames DEF BanFileWrite, Ctl, memory, keys, ghosts
<1>7. CASE CtlSaveBegin(a)
  BY <1>7 DEF CtlSaveBegin, memory, keys, ghosts
<1>8. CASE CtlSaveEnd(a)
  BY <1>1, <1>8 DEF CtlSaveEnd, Ctl, memory, keys
<1>9. CASE SaveMembers(a) \/ SaveIps(a)
  BY <1>9 DEF SaveMembers, SaveIps, memory, disk, keys, ghosts
<1> QED
  BY <1>2, <1>4, <1>5, <1>6, <1>7, <1>8, <1>9 DEF AdminStep

\* What a call of the panel changes of a request is what it knows of bans
LEMMA CallsKept ==
    ASSUME TypeOK, NEW a \in Admins,
           \/ Revoke(a) \/ Unban(a) \/ CtlIp(a) \/ SaveMembers(a)
           \/ SaveIps(a) \/ BanFileTruncate(a) \/ BanFileWrite(a)
    PROVE  \A c \in Clients : call'[c].step = call[c].step /\ call'[c].member = call[c].member
<1>1. call \in [Clients -> Call] /\ ctl \in [Admins -> Ctl]
  BY DEF TypeOK
<1>2. ASSUME NEW m, LiftMember(m)
      PROVE  \A c \in Clients : call'[c].step = call[c].step /\ call'[c].member = call[c].member
  BY <1>1, <1>2 DEF LiftMember, Call
<1>3. ASSUME NEW i, LiftIp(i)
      PROVE  \A c \in Clients : call'[c].step = call[c].step /\ call'[c].member = call[c].member
  BY <1>1, <1>3 DEF LiftIp, Call
<1>4. CASE Revoke(a) \/ Unban(a)
  BY <1>1, <1>2, <1>4, CtlBegins
<1>5. CASE CtlIp(a)
  BY <1>3, <1>5 DEF CtlIp
<1>6. CASE SaveMembers(a) \/ SaveIps(a) \/ BanFileTruncate(a) \/ BanFileWrite(a)
  BY <1>6 DEF SaveMembers, SaveIps, BanFileTruncate, BanFileWrite
<1> QED
  BY <1>4, <1>5, <1>6

LEMMA TypeInduction == TypeOK /\ [Next]_vars => TypeOK'
<1> SUFFICES ASSUME TypeOK, [Next]_vars PROVE TypeOK'
  OBVIOUS
<1>1. CASE Operate
  BY <1>1, ClientType, AdminType DEF Operate
<1>2. CASE Tick
  BY <1>2, ConstantsOK DEF Tick, TypeOK, memory, disk, keys, ghosts
<1>3. CASE Restart
  BY <1>3, Frames DEF Restart, LoadSessions, TypeOK, BanState, NoCtl, disk, keys
<1>4. CASE UNCHANGED vars
  BY <1>4 DEF TypeOK, vars, memory, disk, keys, ghosts
<1> QED
  BY <1>1, <1>2, <1>3, <1>4 DEF Next

\* Every variable keeps its type, in every instance
THEOREM TypeCorrect == Spec => []TypeOK
<1>1. Init => TypeOK
  <2>1. 0 \in 0..Forever /\ 0 \in 0..MaxTime
    BY ConstantsOK DEF Forever
  <2>2. NoCtl.step # "ip"
    BY DEF NoCtl
  <2> QED
    BY <2>1, <2>2, Frames DEF Init, TypeOK
<1> QED
  BY <1>1, TypeInduction, PTL DEF Spec

-----------------------------------------------------------------------------
(* The life of a key *)

\* Retain and Insert wait until no save is running
LEMMA NoSaving ==
    ASSUME NoReader
    PROVE  /\ \A c \in Clients : call[c].step \notin {"dropSaving", "saving"}
           /\ \A a \in Admins : ctl[a].step # "saving"
BY DEF NoReader

LEMMA RetainKeyInv ==
    ASSUME TypeOK, KeyInv, NEW c \in Clients, Retain(c)
    PROVE  KeyInv'
<1> USE DEF KeyInv
<1>1. /\ call' = [call EXCEPT ![c].step = "dropSave",
                              ![c].dropped = KeysOf(call[c].member)]
      /\ sessions' = sessions \ KeysOf(call[c].member)
      /\ UNCHANGED <<sessFile, owner, retired, ctl>>
  BY DEF Retain, disk, keys, ghosts
<1>2. /\ call'[c].step = "dropSave"
      /\ call'[c].member = call[c].member
      /\ call'[c].dropped = KeysOf(call[c].member)
      /\ \A d \in Clients \ {c} : call'[d] = call[d]
  BY <1>1 DEF TypeOK, Call
<1>3. SnapFresh'
  BY <1>1, <1>2, NoSaving DEF SnapFresh, Retain
<1>4. KeysKnown' /\ RetiredStaysDead'
  BY <1>1 DEF KeysKnown, RetiredStaysDead
<1>5. DroppedGone'
  BY <1>1, <1>2 DEF DroppedGone, KeysKnown, KeysOf
<1>6. CallNamed'
  BY <1>2 DEF CallNamed, Retain
<1> QED
  BY <1>3, <1>4, <1>5, <1>6

LEMMA InsertKeyInv ==
    ASSUME TypeOK, KeyInv, NEW c \in Clients, Insert(c)
    PROVE  KeyInv'
<1> USE DEF KeyInv
<1>1. PICK t \in Tokens : /\ owner[t] = None
                          /\ owner' = [owner EXCEPT ![t] = call[c].member]
                          /\ sessions' = sessions \cup {t}
  BY DEF Insert
<1>2. /\ call'[c].step = "save"
      /\ call'[c].dropped = call[c].dropped
      /\ call'[c].member = call[c].member
      /\ \A d \in Clients \ {c} : call'[d] = call[d]
      /\ UNCHANGED <<sessFile, retired, ctl>>
  BY DEF Insert, TypeOK, Call, disk, ghosts
<1>3. SnapFresh'
  BY <1>1, <1>2, NoSaving DEF SnapFresh, Insert
<1>4. call[c].member # None
  BY DEF CallNamed, Insert
<1>5. KeysKnown'
  BY <1>1, <1>2, <1>4 DEF KeysKnown, TypeOK
<1>6. RetiredStaysDead'
  BY <1>1, <1>2 DEF RetiredStaysDead, KeysKnown
<1>7. DroppedGone'
  BY <1>1, <1>2, <1>4 DEF DroppedGone, TypeOK, Call, Insert
<1>8. CallNamed'
  BY <1>2, <1>4 DEF CallNamed
<1> QED
  BY <1>3, <1>5, <1>6, <1>7, <1>8

LEMMA SaveBeginKeyInv ==
    ASSUME TypeOK, KeyInv, NEW c \in Clients, SaveBegin(c)
    PROVE  KeyInv'
<1> USE DEF KeyInv
<1>1. /\ call'[c].step = IF call[c].step = "save" THEN "saving" ELSE "dropSaving"
      /\ call'[c].snap = sessions
      /\ call'[c].dropped = call[c].dropped
      /\ call'[c].member = call[c].member
      /\ \A d \in Clients \ {c} : call'[d] = call[d]
      /\ sessFile' = {}
      /\ UNCHANGED <<sessions, retired, ctl, owner>>
  BY DEF SaveBegin, TypeOK, Call, memory, keys, ghosts
<1>2. SnapFresh'
  BY <1>1 DEF SnapFresh
<1>3. KeysKnown' /\ RetiredStaysDead'
  BY <1>1 DEF KeysKnown, RetiredStaysDead
<1>4. DroppedGone'
  BY <1>1 DEF DroppedGone, SaveBegin
<1>5. CallNamed'
  BY <1>1 DEF CallNamed, SaveBegin
<1> QED
  BY <1>2, <1>3, <1>4, <1>5

LEMMA SaveEndKeyInv ==
    ASSUME TypeOK, KeyInv, NEW c \in Clients, SaveEnd(c)
    PROVE  KeyInv'
<1> USE DEF KeyInv
<1>1. /\ call'[c].step \in {"idle", "reuse"}
      /\ call'[c].dropped = {}
      /\ call'[c].step # "idle" => call'[c].member = call[c].member
      /\ \A d \in Clients \ {c} : call'[d] = call[d]
      /\ sessFile' = call[c].snap
      /\ retired' = retired \cup call[c].dropped
      /\ UNCHANGED <<sessions, ctl, owner>>
  BY DEF SaveEnd, TypeOK, Call, NoCall, memory, keys
<1>2. call[c].snap = sessions
  BY DEF SnapFresh, SaveEnd
<1>3. SnapFresh'
  BY <1>1 DEF SnapFresh
<1>4. KeysKnown' /\ RetiredStaysDead'
  BY <1>1, <1>2 DEF KeysKnown, RetiredStaysDead, DroppedGone
<1>5. DroppedGone'
  BY <1>1 DEF DroppedGone
<1>6. CallNamed'
  BY <1>1 DEF CallNamed, SaveEnd
<1> QED
  BY <1>3, <1>4, <1>5, <1>6

\* The other steps of a client write its frame only
LEMMA ReadKeyInv ==
    ASSUME TypeOK, KeyInv, NEW c \in Clients,
           \/ AuthToken(c) \/ Reuse(c) \/ IpCheck(c) \/ MemberCheck(c)
           \/ VerifyKey(c) \/ VerifyBan(c) \/ Served(c)
    PROVE  KeyInv'
<1> USE DEF KeyInv
<1>1. UNCHANGED <<sessions, sessFile, owner, retired, ctl>>
  BY DEF AuthToken, StartCall, Reuse, IpCheck, MemberCheck, VerifyKey, VerifyBan,
         Served, memory, disk, keys, ghosts
<1>2. ASSUME NEW f, call' = [call EXCEPT ![c] = f], f.dropped = {},
             f.step \notin {"dropSaving", "saving"},
             f.step # "idle" => f.member # None
      PROVE  KeyInv'
  <2>1. call'[c] = f /\ \A d \in Clients \ {c} : call'[d] = call[d]
    BY <1>2 DEF TypeOK
  <2>2. SnapFresh' /\ KeysKnown' /\ RetiredStaysDead'
    BY <1>1, <1>2, <2>1 DEF SnapFresh, KeysKnown, RetiredStaysDead
  <2>3. DroppedGone' /\ CallNamed'
    BY <1>1, <1>2, <2>1 DEF DroppedGone, CallNamed
  <2> QED
    BY <2>2, <2>3
<1>3. NoCall.dropped = {} /\ NoCall.step = "idle"
  BY DEF NoCall
<1>4. ASSUME NEW s \in {"ip", "member", "insert", "served"}, NEW f,
             f.step = s, f.dropped = call[c].dropped, f.member = call[c].member,
             call' = [call EXCEPT ![c] = f],
             call[c].step \notin {"idle", "dropSave", "dropSaving"}
      PROVE  KeyInv'
  BY <1>2, <1>4 DEF DroppedGone, CallNamed
<1>5. ASSUME NEW s \in {"reuse", "retain", "ban"}, NEW m, m # None, NEW i,
             call' = [call EXCEPT ![c] = NewCall(s, m, i)]
      PROVE  KeyInv'
  <2>1. /\ NewCall(s, m, i).dropped = {}
        /\ NewCall(s, m, i).step = s
        /\ NewCall(s, m, i).member = m
    BY DEF NewCall
  <2> QED
    BY <1>2, <1>5, <2>1
<1>6. CASE AuthToken(c)
  BY <1>5, <1>6, ConstantsOK DEF AuthToken, StartCall
<1>12. CASE VerifyKey(c)
  BY <1>5, <1>12 DEF VerifyKey, KeysKnown
<1>7. CASE Served(c)
  BY <1>2, <1>3, <1>7 DEF Served
<1>8. CASE Reuse(c)
  <2> DEFINE f == [call[c] EXCEPT !.step = "ip", !.clock = now]
  <2>1. f.step = "ip" /\ f.dropped = call[c].dropped /\ f.member = call[c].member
    BY DEF TypeOK, Call
  <2> QED
    BY <1>2, <1>3, <1>4, <1>8, <2>1 DEF Reuse
<1>9. CASE IpCheck(c)
  <2> DEFINE f == [call[c] EXCEPT !.step = "member"]
  <2>1. f.step = "member" /\ f.dropped = call[c].dropped /\ f.member = call[c].member
    BY DEF TypeOK, Call
  <2> QED
    BY <1>2, <1>3, <1>4, <1>9, <2>1 DEF IpCheck
<1>10. CASE MemberCheck(c)
  <2> DEFINE f == [call[c] EXCEPT !.step = "insert"]
  <2>1. f.step = "insert" /\ f.dropped = call[c].dropped /\ f.member = call[c].member
    BY DEF TypeOK, Call
  <2> QED
    BY <1>2, <1>3, <1>4, <1>10, <2>1 DEF MemberCheck
<1>11. CASE VerifyBan(c)
  <2> DEFINE f == [call[c] EXCEPT !.step = "served"]
  <2>1. f.step = "served" /\ f.dropped = call[c].dropped /\ f.member = call[c].member
    BY DEF TypeOK, Call
  <2> QED
    BY <1>2, <1>3, <1>4, <1>11, <2>1 DEF VerifyBan
<1> QED
  BY <1>6, <1>7, <1>8, <1>9, <1>10, <1>11, <1>12

\* An administrator changes the key tables only at the two ends of a save
LEMMA AdminKeyInv ==
    ASSUME TypeOK, KeyInv, NEW a \in Admins, AdminStep(a)
    PROVE  KeyInv'
<1> USE DEF KeyInv
<1>1. ASSUME NEW f \in [Clients -> Call], call' = f, ctl'[a].step # "saving",
             \A c \in Clients : f[c] = [call[c] EXCEPT !.barred = f[c].barred],
             \A b \in Admins \ {a} : ctl'[b] = ctl[b],
             UNCHANGED <<sessions, sessFile, owner, retired>>
      PROVE  KeyInv'
  <2>1. \A c \in Clients : /\ call'[c].step = call[c].step
                           /\ call'[c].snap = call[c].snap
                           /\ call'[c].dropped = call[c].dropped
                           /\ call'[c].member = call[c].member
    BY <1>1 DEF TypeOK, Call
  <2>2. SnapFresh' /\ KeysKnown' /\ RetiredStaysDead'
    BY <1>1, <2>1 DEF SnapFresh, KeysKnown, RetiredStaysDead
  <2>3. DroppedGone' /\ CallNamed'
    BY <1>1, <2>1 DEF DroppedGone, CallNamed
  <2> QED
    BY <2>2, <2>3
<1>2. call \in [Clients -> Call] /\ ctl \in [Admins -> Ctl]
  BY DEF TypeOK
<1>3. \A c \in Clients : call[c] = [call[c] EXCEPT !.barred = call[c].barred]
  BY <1>2 DEF Call
<1>4. ASSUME UNCHANGED <<call, sessions, sessFile, owner, retired>>,
             ctl'[a].step # "saving", \A b \in Admins \ {a} : ctl'[b] = ctl[b]
      PROVE  KeyInv'
  BY <1>1, <1>2, <1>3, <1>4
<1>5. CASE Revoke(a)
  BY <1>2, <1>4, <1>5 DEF Revoke, StartCtl, disk, keys, ghosts
<1>6. CASE Unban(a)
  <2>1. ctl'[a].step # "saving" /\ \A b \in Admins \ {a} : ctl'[b] = ctl[b]
    BY <1>2, <1>6 DEF Unban, StartCtl
  <2>2. /\ call' \in [Clients -> Call]
        /\ \A c \in Clients : call'[c] = [call[c] EXCEPT !.barred = call'[c].barred]
    <3>1. PICK m \in Members : LiftMember(m)
      BY <1>6 DEF Unban
    <3>2. call' \in [Clients -> Call]
      BY <1>2, <3>1 DEF LiftMember, Call
    <3>3. ASSUME NEW c \in Clients
          PROVE  call'[c] = [call[c] EXCEPT !.barred = call'[c].barred]
      <4>1. CASE call[c].member = m
        <5>1. call'[c] = [call[c] EXCEPT !.barred = @ \ {"member"}]
          BY <3>1, <4>1 DEF LiftMember
        <5> QED
          BY <1>2, <5>1 DEF Call
      <4>2. CASE call[c].member # m
        BY <1>2, <1>3, <3>1, <4>2 DEF LiftMember
      <4> QED
        BY <4>1, <4>2
    <3> QED
      BY <3>2, <3>3
  <2> QED
    BY <1>1, <1>6, <2>1, <2>2 DEF Unban, disk, keys
<1>7. CASE CtlIp(a)
  <2>1. ctl'[a].step # "saving" /\ \A b \in Admins \ {a} : ctl'[b] = ctl[b]
    BY <1>2, <1>7 DEF CtlIp, Ctl
  <2>2. /\ call' \in [Clients -> Call]
        /\ \A c \in Clients : call'[c] = [call[c] EXCEPT !.barred = call'[c].barred]
    BY <1>2, <1>3, <1>7 DEF CtlIp, LiftIp, Call
  <2> QED
    BY <1>1, <1>7, <2>1, <2>2 DEF CtlIp, disk, keys, ghosts
<1>8. CASE SaveMembers(a) \/ SaveIps(a) \/ BanFileTruncate(a)
  <2>1. ctl'[a].step \in {"ips", "truncate", "write"}
    BY <1>2, <1>8 DEF SaveMembers, SaveIps, BanFileTruncate, Ctl
  <2> QED
    BY <1>2, <1>4, <1>8, <2>1
    DEF SaveMembers, SaveIps, BanFileTruncate, memory, disk, keys, ghosts
<1>9. CASE BanFileWrite(a)
  <2> DEFINE f == [ctl[a] EXCEPT !.step = "save", !.bans = NoBans]
  <2>1. ctl'[a] \in {NoCtl, f}
    BY <1>2, <1>9 DEF BanFileWrite
  <2>2. NoCtl.step = "idle" /\ f.step = "save"
    BY <1>2 DEF NoCtl, Ctl
  <2> QED
    BY <1>2, <1>4, <1>9, <2>1, <2>2 DEF BanFileWrite, memory, keys, ghosts
<1>10. CASE CtlSaveBegin(a)
  <2>1. /\ ctl'[a].snap = sessions
        /\ \A b \in Admins \ {a} : ctl'[b] = ctl[b]
        /\ sessFile' = {}
        /\ UNCHANGED <<call, sessions, owner, retired>>
    BY <1>2, <1>10 DEF CtlSaveBegin, Ctl, memory, keys, ghosts
  <2>2. SnapFresh' /\ KeysKnown' /\ RetiredStaysDead'
    BY <2>1 DEF SnapFresh, KeysKnown, RetiredStaysDead
  <2>3. DroppedGone' /\ CallNamed'
    BY <2>1 DEF DroppedGone, CallNamed
  <2> QED
    BY <2>2, <2>3
<1>11. CASE CtlSaveEnd(a)
  <2>1. /\ ctl'[a].step = "idle"
        /\ \A b \in Admins \ {a} : ctl'[b] = ctl[b]
        /\ sessFile' = sessions
        /\ UNCHANGED <<call, sessions, owner, retired>>
    BY <1>2, <1>11 DEF CtlSaveEnd, NoCtl, SnapFresh, memory, keys
  <2>2. SnapFresh' /\ KeysKnown' /\ RetiredStaysDead'
    BY <2>1 DEF SnapFresh, KeysKnown, RetiredStaysDead
  <2>3. DroppedGone' /\ CallNamed'
    BY <2>1 DEF DroppedGone, CallNamed
  <2> QED
    BY <2>2, <2>3
<1> QED
  BY <1>5, <1>6, <1>7, <1>8, <1>9, <1>10, <1>11 DEF AdminStep

LEMMA KeyInduction == TypeOK /\ KeyInv /\ [Next]_vars => KeyInv'
<1> SUFFICES ASSUME TypeOK, KeyInv, [Next]_vars PROVE KeyInv'
  OBVIOUS
<1>1. CASE \E c \in Clients : ClientStep(c)
  BY <1>1, RetainKeyInv, InsertKeyInv, SaveBeginKeyInv, SaveEndKeyInv, ReadKeyInv
  DEF ClientStep
<1>2. CASE \E a \in Admins : AdminStep(a)
  BY <1>2, AdminKeyInv
<1>3. CASE Tick \/ UNCHANGED vars
  BY <1>3 DEF Tick, vars, memory, disk, keys, ghosts, KeyInv, SnapFresh, KeysKnown,
              CallNamed, DroppedGone, RetiredStaysDead
<1>4. CASE Restart
  <2>1. /\ sessions' \subseteq sessFile
        /\ UNCHANGED <<sessFile, owner, retired>>
        /\ \A c \in Clients : call'[c] = NoCall
        /\ \A a \in Admins : ctl'[a] = NoCtl
    BY <1>4 DEF Restart, LoadSessions, disk, keys
  <2>2. NoCall.step = "idle" /\ NoCall.dropped = {} /\ NoCtl.step = "idle"
    BY DEF NoCall, NoCtl
  <2>3. SnapFresh' /\ CallNamed' /\ DroppedGone'
    BY <2>1, <2>2 DEF SnapFresh, CallNamed, DroppedGone
  <2>4. KeysKnown' /\ RetiredStaysDead'
    BY <2>1 DEF KeyInv, KeysKnown, RetiredStaysDead
  <2> QED
    BY <2>3, <2>4 DEF KeyInv
<1> QED
  BY <1>1, <1>2, <1>3, <1>4 DEF Next, Operate

LEMMA KeyInit == Init => KeyInv
<1> SUFFICES ASSUME Init PROVE KeyInv
  OBVIOUS
<1>1. NoCall.step = "idle" /\ NoCall.dropped = {} /\ NoCtl.step = "idle"
  BY DEF NoCall, NoCtl
<1> QED
  BY <1>1 DEF Init, KeyInv, SnapFresh, KeysKnown, CallNamed, DroppedGone,
              RetiredStaysDead

\* Whatever calls, crashes and restarts come between, a key that a saved
\* rotation dropped is never again in memory or on disk
THEOREM RotationIsFinal == Spec => []RetiredStaysDead
<1>1. KeyInv => RetiredStaysDead
  BY DEF KeyInv
<1> QED
  BY <1>1, TypeCorrect, KeyInit, KeyInduction, PTL DEF Spec

-----------------------------------------------------------------------------
(* Bans *)

LEMMA ClientBanInv ==
    ASSUME TypeOK, BanInv, NEW c \in Clients, ClientStep(c)
    PROVE  BanInv'
<1> USE DEF BanInv
<1>1. call \in [Clients -> Call]
  BY DEF TypeOK
<1>2. UNCHANGED <<banned, bannedIps>>
  BY DEF ClientStep, AuthToken, StartCall, Retain, Reuse, IpCheck, MemberCheck,
         Insert, SaveBegin, SaveEnd, VerifyKey, VerifyBan, Served, memory
<1> DEFINE Good(f) ==
      /\ "member" \in f.barred => f.member \in banned
      /\ "ip" \in f.barred => f.ip \in bannedIps
      /\ f.step = "member" => "ip" \notin f.barred
      /\ f.step = "served" => "member" \notin f.barred
      /\ f.step \in {"insert", "save", "saving"} => f.barred = {}
<1>3. \A d \in Clients : Good(call[d])
  BY DEF BarredStill, IpPassed, BannedNeverServed, BannedNeverGranted
<1>4. ASSUME NEW f, call' = [call EXCEPT ![c] = f], Good(f)
      PROVE  BanInv'
  BY <1>1, <1>2, <1>3, <1>4
  DEF BarredStill, IpPassed, BannedNeverServed, BannedNeverGranted
<1>5. Good(NoCall)
  BY DEF NoCall
<1>6. ASSUME NEW s \in {"reuse", "retain", "ban"}, NEW m, NEW i,
             call' = [call EXCEPT ![c] = NewCall(s, m, i)]
      PROVE  BanInv'
  <2>1. Good(NewCall(s, m, i))
    BY DEF NewCall, BansOn
  <2> QED
    BY <1>4, <1>6, <2>1
<1> HIDE DEF Good
<1>7. CASE AuthToken(c)
  BY <1>6, <1>7 DEF AuthToken, StartCall
<1>8. CASE VerifyKey(c)
  BY <1>6, <1>8 DEF VerifyKey
<1>9. CASE Served(c)
  BY <1>4, <1>5, <1>9 DEF Served
<1>10. CASE Retain(c)
  <2> DEFINE f == [call[c] EXCEPT !.step = "dropSave",
                                  !.dropped = KeysOf(call[c].member)]
  <2>1. Good(f)
    BY <1>1, <1>3 DEF Good, Call
  <2> QED
    BY <1>4, <1>10, <2>1 DEF Retain
<1>11. CASE Reuse(c)
  <2> DEFINE f == [call[c] EXCEPT !.step = "ip", !.clock = now]
  <2>1. Good(f)
    BY <1>1, <1>3 DEF Good, Call
  <2> QED
    BY <1>4, <1>5, <1>11, <2>1 DEF Reuse
<1>12. CASE IpCheck(c)
  <2> DEFINE f == [call[c] EXCEPT !.step = "member"]
  <2>1. call[c].ip \notin bannedIps => Good(f)
    BY <1>1, <1>3 DEF Good, Call
  <2> QED
    BY <1>4, <1>5, <1>12, <2>1 DEF IpCheck
<1>13. CASE MemberCheck(c)
  <2> DEFINE f == [call[c] EXCEPT !.step = "insert"]
  <2>1. call[c].member \notin banned => Good(f)
    BY <1>1, <1>3, <1>13 DEF MemberCheck, Good, Call
  <2> QED
    BY <1>4, <1>5, <1>13, <2>1 DEF MemberCheck
<1>14. CASE Insert(c)
  <2> DEFINE f == [call[c] EXCEPT !.step = "save", !.clock = 0]
  <2>1. Good(f)
    BY <1>1, <1>3, <1>14 DEF Insert, Good, Call
  <2> QED
    BY <1>4, <1>14, <2>1 DEF Insert
<1>15. CASE SaveBegin(c)
  <2> DEFINE f == [call[c] EXCEPT !.step = IF @ = "save" THEN "saving"
                                           ELSE "dropSaving",
                                  !.snap = sessions]
  <2>1. Good(f)
    BY <1>1, <1>3, <1>15 DEF SaveBegin, Good, Call
  <2> QED
    BY <1>4, <1>15, <2>1 DEF SaveBegin
<1>16. CASE SaveEnd(c)
  <2> DEFINE f == [call[c] EXCEPT !.step = "reuse", !.snap = {}, !.dropped = {}]
  <2>1. Good(f)
    BY <1>1, <1>3 DEF Good, Call
  <2> QED
    BY <1>4, <1>5, <1>16, <2>1 DEF SaveEnd
<1>17. CASE VerifyBan(c)
  <2> DEFINE f == [call[c] EXCEPT !.step = "served"]
  <2>1. call[c].member \notin banned => Good(f)
    BY <1>1, <1>3 DEF Good, Call
  <2> QED
    BY <1>4, <1>5, <1>17, <2>1 DEF VerifyBan
<1> QED
  BY <1>7, <1>8, <1>9, <1>10, <1>11, <1>12, <1>13, <1>14, <1>15, <1>16, <1>17
  DEF ClientStep

LEMMA AdminBanInv ==
    ASSUME TypeOK, BanInv, NEW a \in Admins, AdminStep(a)
    PROVE  BanInv'
<1> USE DEF BanInv, BarredStill, IpPassed, BannedNeverServed, BannedNeverGranted
<1>1. call \in [Clients -> Call]
  BY DEF TypeOK
<1>2. CASE Revoke(a)
  BY <1>2 DEF Revoke
<1>3. CASE Unban(a)
  <2>1. PICK m \in Members : banned' = banned \ {m} /\ LiftMember(m)
    BY <1>3 DEF Unban
  <2>2. UNCHANGED bannedIps
    BY <1>3 DEF Unban
  <2>3. \A c \in Clients :
          /\ call'[c].step = call[c].step
          /\ call'[c].member = call[c].member
          /\ call'[c].ip = call[c].ip
          /\ call'[c].barred = IF call[c].member = m
                               THEN call[c].barred \ {"member"} ELSE call[c].barred
    BY <1>1, <2>1 DEF LiftMember, Call
  <2> QED
    BY <2>1, <2>2, <2>3
<1>4. CASE CtlIp(a) /\ ctl[a].op = "revoke"
  BY <1>4 DEF CtlIp
<1>5. CASE CtlIp(a) /\ ctl[a].op = "unban"
  <2> DEFINE i == ctl[a].ip
  <2>1. bannedIps' = bannedIps \ {i} /\ LiftIp(i) /\ UNCHANGED banned
    BY <1>5 DEF CtlIp
  <2>2. \A c \in Clients :
          /\ call'[c].step = call[c].step
          /\ call'[c].member = call[c].member
          /\ call'[c].ip = call[c].ip
          /\ call'[c].barred = IF call[c].ip = i
                               THEN call[c].barred \ {"ip"} ELSE call[c].barred
    BY <1>1, <2>1 DEF LiftIp, Call
  <2> QED
    BY <2>1, <2>2
<1>6. CASE SaveMembers(a) \/ SaveIps(a) \/ BanFileTruncate(a) \/ BanFileWrite(a)
           \/ CtlSaveBegin(a) \/ CtlSaveEnd(a)
  BY <1>6 DEF SaveMembers, SaveIps, BanFileTruncate, BanFileWrite, CtlSaveBegin,
              CtlSaveEnd, memory
<1> QED
  BY <1>2, <1>3, <1>4, <1>5, <1>6 DEF AdminStep, CtlIp

LEMMA BanInduction == TypeOK /\ BanInv /\ [Next]_vars => BanInv'
<1> SUFFICES ASSUME TypeOK, BanInv, [Next]_vars PROVE BanInv'
  OBVIOUS
<1>1. CASE Operate
  BY <1>1, ClientBanInv, AdminBanInv DEF Operate
<1>2. CASE Tick \/ UNCHANGED vars
  BY <1>2 DEF Tick, vars, memory, BanInv, BarredStill, IpPassed, BannedNeverServed,
              BannedNeverGranted
<1>3. CASE Restart
  <2>1. NoCall.step = "idle" /\ NoCall.barred = {}
    BY DEF NoCall
  <2> QED
    BY <1>3, <2>1 DEF Restart, BanInv, BarredStill, IpPassed, BannedNeverServed,
                      BannedNeverGranted
<1> QED
  BY <1>1, <1>2, <1>3 DEF Next

\* However calls, bans and lifted bans interleave: a call that began under a
\* ban which is still there is neither served nor given a key
THEOREM BanIsObeyed == Spec => [](BannedNeverServed /\ BannedNeverGranted)
<1>1. Init => BanInv
  <2>1. NoCall.step = "idle" /\ NoCall.barred = {}
    BY DEF NoCall
  <2> QED
    BY <2>1 DEF Init, BanInv, BarredStill, IpPassed, BannedNeverServed,
                BannedNeverGranted
<1>2. BanInv => BannedNeverServed /\ BannedNeverGranted
  BY DEF BanInv
<1> QED
  BY <1>1, <1>2, TypeCorrect, BanInduction, PTL DEF Spec

\* The half of it about keys: a call that began under a ban which is still there
\* never reaches the insertion of a key
THEOREM GrantsAreBarred == Spec => []BannedNeverGranted
BY BanIsObeyed, PTL

-----------------------------------------------------------------------------
(* What a restart finds *)

LEMMA DurableInduction ==
    ASSUME TypeOK, KeyInv, KeysDurable, [Next]_vars
    PROVE  KeysDurable'
<1>1. call \in [Clients -> Call] /\ ctl \in [Admins -> Ctl]
  BY DEF TypeOK
<1>2. ASSUME sessFile' = sessions'
      PROVE  KeysDurable'
  BY <1>2 DEF KeysDurable
<1>3. ASSUME SessionsSettled' => SessionsSettled,
             UNCHANGED <<sessions, sessFile, expires, now>>
      PROVE  KeysDurable'
  BY <1>3 DEF KeysDurable
<1>4. ASSUME NEW c \in Clients, Retain(c) \/ Insert(c) \/ SaveBegin(c)
      PROVE  KeysDurable'
  <2>1. call'[c].step \in {"dropSave", "dropSaving", "save", "saving"}
    BY <1>1, <1>4 DEF Retain, Insert, SaveBegin, Call
  <2> QED
    BY <2>1 DEF KeysDurable, SessionsSettled
<1>5. ASSUME NEW c \in Clients, SaveEnd(c)
      PROVE  KeysDurable'
  BY <1>2, <1>5 DEF SaveEnd, memory, KeyInv, SnapFresh
<1>6. ASSUME NEW c \in Clients,
             \/ AuthToken(c) \/ Reuse(c) \/ IpCheck(c) \/ MemberCheck(c)
             \/ VerifyKey(c) \/ VerifyBan(c) \/ Served(c)
      PROVE  KeysDurable'
  <2>1. /\ call[c].step \in {"idle", "reuse", "ip", "member", "ban", "served"}
        /\ \A d \in Clients \ {c} : call'[d] = call[d]
        /\ UNCHANGED ctl
    BY <1>1, <1>6 DEF AuthToken, StartCall, Reuse, IpCheck, MemberCheck, VerifyKey,
                      VerifyBan, Served
  <2>2. SessionsSettled' => SessionsSettled
    BY <2>1 DEF SessionsSettled
  <2>3. UNCHANGED <<sessions, sessFile, expires, now>>
    BY <1>6 DEF AuthToken, StartCall, Reuse, IpCheck, MemberCheck, VerifyKey,
                VerifyBan, Served, memory, disk, keys
  <2> QED
    BY <1>3, <2>2, <2>3
<1>7. ASSUME NEW a \in Admins, CtlSaveBegin(a)
      PROVE  KeysDurable'
  <2>1. ctl'[a].step = "saving"
    BY <1>1, <1>7 DEF CtlSaveBegin, Ctl
  <2> QED
    BY <2>1 DEF KeysDurable, SessionsSettled
<1>8. ASSUME NEW a \in Admins, CtlSaveEnd(a)
      PROVE  KeysDurable'
  BY <1>2, <1>8 DEF CtlSaveEnd, memory, KeyInv, SnapFresh
<1>9. ASSUME NEW a \in Admins,
             \/ Revoke(a) \/ Unban(a) \/ CtlIp(a) \/ SaveMembers(a)
             \/ SaveIps(a) \/ BanFileTruncate(a) \/ BanFileWrite(a)
      PROVE  KeysDurable'
  <2>1. /\ ctl[a].step # "saving"
        /\ \A b \in Admins \ {a} : ctl'[b] = ctl[b]
    BY <1>1, <1>9 DEF Revoke, Unban, StartCtl, CtlIp, SaveMembers, SaveIps,
                      BanFileTruncate, BanFileWrite
  <2>2. \A c \in Clients : call'[c].step = call[c].step
    BY <1>1, <1>9, CallsKept
  <2>3. SessionsSettled' => SessionsSettled
    BY <2>1, <2>2 DEF SessionsSettled
  <2>4. UNCHANGED <<sessions, sessFile, expires, now>>
    BY <1>9 DEF Revoke, Unban, CtlIp, SaveMembers, SaveIps, BanFileTruncate,
                BanFileWrite, memory, disk, keys
  <2> QED
    BY <1>3, <2>3, <2>4
<1>10. CASE Tick
  <2>1. SessionsSettled' => SessionsSettled
    BY <1>10 DEF Tick, SessionsSettled
  <2>2. \A t \in sessFile : expires[t] <= now => expires[t] <= now'
    BY <1>10 DEF Tick, TypeOK
  <2> QED
    BY <1>10, <2>1, <2>2 DEF Tick, KeysDurable, memory, disk, keys
<1>11. CASE Restart
  <2>1. \A t \in Tokens : ~(expires[t] > now) => expires[t] <= now
    BY ConstantsOK DEF TypeOK
  <2> QED
    BY <1>11, <2>1 DEF Restart, LoadSessions, KeysDurable, TypeOK, disk, keys
<1>12. CASE UNCHANGED vars
  BY <1>12 DEF vars, memory, disk, keys, KeysDurable, SessionsSettled
<1> QED
  BY <1>4, <1>5, <1>6, <1>7, <1>8, <1>9, <1>10, <1>11, <1>12
  DEF Next, Operate, ClientStep, AdminStep

\* Once the saves of the calls under way have ended, sessions.json holds the
\* whole table: no concurrent call can leave a stale file behind
THEOREM KeysSurvive == Spec => []KeysDurable
<1>1. Init => KeysDurable
  BY DEF Init, KeysDurable
<1> QED
  BY <1>1, TypeCorrect, KeyInit, KeyInduction, DurableInduction, PTL DEF Spec

-----------------------------------------------------------------------------
(* One key per machine.  issue looks for a key to hand out again under one   *)
(* lock and inserts a new one under another: two calls of one machine can    *)
(* both find none.  Short of that, a machine never has two keys.             *)

\* The steps of a call of /auth/token
TokenSteps == {"retain", "dropSave", "dropSaving", "reuse", "ip", "member",
               "insert", "save", "saving"}

\* Calls overlap only if they are about different machines
CallsApart ==
    \A c, d \in Clients :
        (call[c].step \in TokenSteps /\ call[d].step \in TokenSteps
                                     /\ call[c].member = call[d].member) => c = d

\* No machine has two keys that have not expired
OneKey ==
    \A s, t \in sessions :
        (owner[s] = owner[t] /\ expires[s] > now /\ expires[t] > now) => s = t

Unexpired == {t \in sessions \cup sessFile : expires[t] > now}

\* The same of memory and file together: a restart takes the table from the file
OneLive == \A s, t \in Unexpired : owner[s] = owner[t] => s = t

\* A call that has found no key to hand out again is right until it inserts one
NoneToReuse ==
    \A c \in Clients : call[c].step \in {"ip", "member", "insert"} =>
        \A t \in Unexpired : owner[t] # call[c].member

\* The file is ahead of memory only while a rotation has yet to save
DroppedOnly ==
    \A t \in Unexpired \ sessions :
        \E c \in Clients : /\ call[c].step \in {"dropSave", "dropSaving"}
                           /\ call[c].member = owner[t]

OneKeyInv == OneLive /\ NoneToReuse /\ DroppedOnly

\* A step that generates no key, after which the file is in step with memory,
\* or neither has changed
LEMMA NoNewKey ==
    ASSUME TypeOK, OneKeyInv,
           Unexpired' \subseteq Unexpired, UNCHANGED owner,
           \A c \in Clients : call'[c].step \in {"ip", "member", "insert"} =>
               \/ call[c].step \in {"ip", "member", "insert"}
                  /\ call'[c].member = call[c].member
               \/ \A t \in Unexpired : owner[t] # call'[c].member,
           \A t \in Unexpired' \ sessions' :
               \E c \in Clients : /\ call'[c].step \in {"dropSave", "dropSaving"}
                                  /\ call'[c].member = owner[t]
    PROVE  OneKeyInv'
<1>1. OneLive'
  BY DEF OneKeyInv, OneLive
<1>2. NoneToReuse'
  BY DEF OneKeyInv, NoneToReuse
<1>3. DroppedOnly'
  BY DEF DroppedOnly
<1> QED
  BY <1>1, <1>2, <1>3 DEF OneKeyInv

\* Time only makes keys expire
LEMMA UnexpiredShrinks ==
    ASSUME TypeOK, now' \in Nat, now' >= now, UNCHANGED expires,
           sessions' \cup sessFile' \subseteq sessions \cup sessFile
    PROVE  Unexpired' \subseteq Unexpired
<1>1. \A t \in Tokens : expires[t] \in Nat
  BY ConstantsOK DEF TypeOK, Forever
<1>2. now \in Nat /\ sessions \cup sessFile \subseteq Tokens
  BY ConstantsOK DEF TypeOK
<1> QED
  BY <1>1, <1>2 DEF Unexpired

LEMMA RetainOneKey ==
    ASSUME TypeOK, OneKeyInv, NEW c \in Clients, Retain(c)
    PROVE  OneKeyInv'
<1>1. /\ call'[c].step = "dropSave" /\ call'[c].member = call[c].member
      /\ \A d \in Clients \ {c} : call'[d] = call[d]
      /\ sessions' = sessions \ KeysOf(call[c].member)
      /\ UNCHANGED <<sessFile, owner, expires, now>>
  BY DEF Retain, TypeOK, Call, disk, keys
<1>2. Unexpired' \subseteq Unexpired
  BY <1>1 DEF Unexpired
<1>3. ASSUME NEW t \in Unexpired' \ sessions'
      PROVE  \E d \in Clients : /\ call'[d].step \in {"dropSave", "dropSaving"}
                                /\ call'[d].member = owner[t]
  <2>1. CASE t \in sessions
    BY <1>1, <1>3, <2>1 DEF KeysOf
  <2>2. CASE t \notin sessions
    <3>1. PICK d \in Clients : /\ call[d].step \in {"dropSave", "dropSaving"}
                               /\ call[d].member = owner[t]
      BY <1>2, <1>3, <2>2 DEF OneKeyInv, DroppedOnly
    <3> QED
      BY <1>1, <3>1 DEF Retain
  <2> QED
    BY <2>1, <2>2
<1> QED
  BY <1>1, <1>2, <1>3, NoNewKey

\* The new key is the only one of its machine: no other call is about it
LEMMA InsertOneKey ==
    ASSUME TypeOK, KeyInv, OneKeyInv, CallsApart, NEW c \in Clients, Insert(c)
    PROVE  OneKeyInv'
<1> DEFINE m == call[c].member
<1>1. PICK t \in Tokens : /\ owner[t] = None
                          /\ owner' = [owner EXCEPT ![t] = m]
                          /\ expires' = [expires EXCEPT ![t] = Expiry(call[c].clock)]
                          /\ sessions' = sessions \cup {t}
  BY DEF Insert
<1>2. /\ call'[c].step = "save"
      /\ \A d \in Clients \ {c} : call'[d] = call[d]
      /\ UNCHANGED <<sessFile, now>>
  BY DEF Insert, TypeOK, Call, disk
<1>3. t \notin sessions \cup sessFile
  BY <1>1 DEF KeyInv, KeysKnown
<1>4. \A u \in Unexpired' \ {t} : u \in Unexpired /\ owner'[u] = owner[u]
  BY <1>1, <1>2 DEF Unexpired, TypeOK
<1>5. \A u \in Unexpired : owner[u] # m
  BY DEF OneKeyInv, NoneToReuse, Insert
<1>6. owner'[t] = m
  BY <1>1 DEF TypeOK
<1>7. OneLive'
  BY <1>4, <1>5, <1>6 DEF OneKeyInv, OneLive
<1>8. NoneToReuse'
  <2> SUFFICES ASSUME NEW d \in Clients, call'[d].step \in {"ip", "member", "insert"},
                      NEW u \in Unexpired'
               PROVE  owner'[u] # call'[d].member
    BY DEF NoneToReuse
  <2>1. d # c /\ call'[d] = call[d]
    BY <1>2
  <2>2. call[d].member # m
    BY <2>1 DEF CallsApart, TokenSteps, Insert
  <2> QED
    BY <1>4, <1>6, <2>1, <2>2 DEF OneKeyInv, NoneToReuse
<1>9. DroppedOnly'
  <2> SUFFICES ASSUME NEW u \in Unexpired', u \notin sessions'
               PROVE  \E d \in Clients : /\ call'[d].step \in {"dropSave", "dropSaving"}
                                         /\ call'[d].member = owner'[u]
    BY DEF DroppedOnly
  <2>1. u \in Unexpired \ sessions /\ owner'[u] = owner[u]
    BY <1>1, <1>4
  <2>2. PICK d \in Clients : /\ call[d].step \in {"dropSave", "dropSaving"}
                             /\ call[d].member = owner[u]
    BY <2>1 DEF OneKeyInv, DroppedOnly
  <2> QED
    BY <1>2, <2>1, <2>2 DEF Insert
<1> QED
  BY <1>7, <1>8, <1>9 DEF OneKeyInv

\* At both ends of a save the file holds nothing that memory does not
LEMMA SaveOneKey ==
    ASSUME TypeOK, KeyInv, OneKeyInv,
           \/ \E c \in Clients : SaveBegin(c) \/ SaveEnd(c)
           \/ \E a \in Admins : CtlSaveBegin(a) \/ CtlSaveEnd(a)
    PROVE  OneKeyInv'
<1>1. UNCHANGED <<sessions, owner, expires, now>>
  BY DEF SaveBegin, SaveEnd, CtlSaveBegin, CtlSaveEnd, memory, keys
<1>2. sessFile' \subseteq sessions
  BY DEF SaveBegin, SaveEnd, CtlSaveBegin, CtlSaveEnd, KeyInv, SnapFresh
<1>3. Unexpired' \subseteq Unexpired /\ Unexpired' \subseteq sessions'
  BY <1>1, <1>2 DEF Unexpired
<1>4. ASSUME NEW c \in Clients, call'[c].step \in {"ip", "member", "insert"}
      PROVE  call'[c] = call[c]
  <2>1. CASE \E d \in Clients : SaveBegin(d) \/ SaveEnd(d)
    <3>1. PICK d \in Clients : SaveBegin(d) \/ SaveEnd(d)
      BY <2>1
    <3>2. call \in [Clients -> Call]
      BY DEF TypeOK
    <3>3. CASE SaveBegin(d)
      <4>1. call'[d].step \in {"saving", "dropSaving"}
        BY <3>2, <3>3 DEF SaveBegin, Call
      <4> QED
        BY <1>4, <3>2, <3>3, <4>1 DEF SaveBegin
    <3>4. CASE SaveEnd(d)
      <4>1. call'[d].step \in {"idle", "reuse"}
        BY <3>2, <3>4 DEF SaveEnd, NoCall, Call
      <4> QED
        BY <1>4, <3>2, <3>4, <4>1 DEF SaveEnd
    <3> QED
      BY <3>1, <3>3, <3>4
  <2>2. CASE \E a \in Admins : CtlSaveBegin(a) \/ CtlSaveEnd(a)
    BY <2>2 DEF CtlSaveBegin, CtlSaveEnd
  <2> QED
    BY <2>1, <2>2
<1> QED
  BY <1>1, <1>3, <1>4, NoNewKey

\* A call goes on to ask for a key when there is none to hand out again: what
\* the file holds beyond memory belongs to a rotation of another machine
LEMMA ReuseOneKey ==
    ASSUME TypeOK, OneKeyInv, CallsApart, NEW c \in Clients, Reuse(c)
    PROVE  OneKeyInv'
<1>1. UNCHANGED <<sessions, sessFile, owner, expires, now>>
  BY DEF Reuse, memory, disk, keys
<1>2. Unexpired' = Unexpired
  BY <1>1 DEF Unexpired
<1>3. \A d \in Clients \ {c} : call'[d] = call[d]
  BY DEF Reuse, TypeOK
<1>4. ASSUME call'[c].step \in {"ip", "member", "insert"}
      PROVE  \A t \in Unexpired : owner[t] # call'[c].member
  <2>1. Reusable(call[c].member) = {} /\ call'[c].member = call[c].member
    BY <1>4 DEF Reuse, NoCall, TypeOK, Call
  <2> SUFFICES ASSUME NEW t \in Unexpired, owner[t] = call[c].member PROVE FALSE
    BY <2>1
  <2>2. t \notin sessions
    BY <2>1 DEF Unexpired, Reusable, KeysOf
  <2>3. PICK d \in Clients : /\ call[d].step \in {"dropSave", "dropSaving"}
                             /\ call[d].member = owner[t]
    BY <2>2 DEF OneKeyInv, DroppedOnly
  <2> QED
    BY <2>3 DEF CallsApart, TokenSteps, Reuse
<1>5. ASSUME NEW t \in Unexpired' \ sessions'
      PROVE  \E d \in Clients : /\ call'[d].step \in {"dropSave", "dropSaving"}
                                /\ call'[d].member = owner[t]
  <2>1. PICK d \in Clients : /\ call[d].step \in {"dropSave", "dropSaving"}
                             /\ call[d].member = owner[t]
    BY <1>1, <1>2, <1>5 DEF OneKeyInv, DroppedOnly
  <2> QED
    BY <1>3, <2>1 DEF Reuse
<1> QED
  BY <1>1, <1>2, <1>3, <1>4, <1>5, NoNewKey

\* The other steps move one frame on, or change what it says of bans
LEMMA FrameOneKey ==
    ASSUME TypeOK, OneKeyInv, UNCHANGED <<sessions, sessFile, owner, expires, now>>,
           \A c \in Clients :
               /\ call[c].step \in {"dropSave", "dropSaving"} =>
                      call'[c].step = call[c].step /\ call'[c].member = call[c].member
               /\ call'[c].step \in {"ip", "member", "insert"} =>
                      call[c].step \in {"ip", "member", "insert"}
                      /\ call'[c].member = call[c].member
    PROVE  OneKeyInv'
<1>1. Unexpired' = Unexpired
  BY DEF Unexpired
<1>2. ASSUME NEW t \in Unexpired' \ sessions'
      PROVE  \E c \in Clients : /\ call'[c].step \in {"dropSave", "dropSaving"}
                                /\ call'[c].member = owner[t]
  BY <1>1, <1>2 DEF OneKeyInv, DroppedOnly
<1> QED
  BY <1>1, <1>2, NoNewKey

LEMMA OneKeyInduction ==
    ASSUME TypeOK, TypeOK', KeyInv, OneKeyInv, CallsApart, [Next]_vars
    PROVE  OneKeyInv'
<1>1. call \in [Clients -> Call]
  BY DEF TypeOK
<1>2. ASSUME NEW c \in Clients,
             \/ AuthToken(c) \/ IpCheck(c) \/ MemberCheck(c)
             \/ VerifyKey(c) \/ VerifyBan(c) \/ Served(c)
      PROVE  OneKeyInv'
  <2>1. UNCHANGED <<sessions, sessFile, owner, expires, now>>
    BY <1>2 DEF AuthToken, StartCall, IpCheck, MemberCheck, VerifyKey, VerifyBan,
                Served, memory, disk, keys
  <2>2. /\ \A d \in Clients \ {c} : call'[d] = call[d]
        /\ call[c].step \notin {"dropSave", "dropSaving"}
    BY <1>1, <1>2 DEF AuthToken, StartCall, IpCheck, MemberCheck, VerifyKey,
                      VerifyBan, Served
  <2>3. call'[c].step \in {"ip", "member", "insert"} =>
            call[c].step \in {"ip", "member", "insert"}
            /\ call'[c].member = call[c].member
    <3>1. CASE AuthToken(c) \/ VerifyKey(c)
      <4>1. PICK s \in {"reuse", "retain", "ban"} : call'[c].step = s
        BY <1>1, <3>1 DEF AuthToken, StartCall, VerifyKey, NewCall
      <4> QED
        BY <4>1
    <3>2. CASE Served(c) \/ VerifyBan(c)
      BY <1>1, <3>2 DEF Served, VerifyBan, NoCall, Call
    <3>3. CASE IpCheck(c) \/ MemberCheck(c)
      BY <1>1, <3>3 DEF IpCheck, MemberCheck, NoCall, Call
    <3> QED
      BY <1>2, <3>1, <3>2, <3>3
  <2> QED
    BY <2>1, <2>2, <2>3, FrameOneKey
<1>3. ASSUME NEW a \in Admins,
             \/ Revoke(a) \/ Unban(a) \/ CtlIp(a) \/ SaveMembers(a)
             \/ SaveIps(a) \/ BanFileTruncate(a) \/ BanFileWrite(a)
      PROVE  OneKeyInv'
  <2>1. UNCHANGED <<sessions, sessFile, owner, expires, now>>
    BY <1>3 DEF Revoke, Unban, CtlIp, SaveMembers, SaveIps, BanFileTruncate,
                BanFileWrite, memory, disk, keys
  <2>2. \A c \in Clients : /\ call'[c].step = call[c].step
                           /\ call'[c].member = call[c].member
    BY <1>1, <1>3, CallsKept
  <2> QED
    BY <2>1, <2>2, FrameOneKey
<1>4. CASE Tick
  <2>1. now' \in Nat /\ now' >= now
    BY <1>4, ConstantsOK DEF Tick, TypeOK
  <2>2. UNCHANGED <<sessions, sessFile, owner, expires, call>>
    BY <1>4 DEF Tick, memory, disk, keys
  <2>3. Unexpired' \subseteq Unexpired
    BY <2>1, <2>2, UnexpiredShrinks
  <2> QED
    BY <2>2, <2>3, NoNewKey DEF OneKeyInv, DroppedOnly
<1>5. CASE Restart
  <2>1. /\ sessions' = LoadSessions
        /\ UNCHANGED <<sessFile, owner, expires, now>>
        /\ \A c \in Clients : call'[c].step = "idle"
    BY <1>5 DEF Restart, disk, keys, NoCall
  <2>2. Unexpired' \subseteq Unexpired /\ Unexpired' \subseteq sessions'
    BY <2>1 DEF Unexpired, LoadSessions
  <2> QED
    BY <2>1, <2>2, NoNewKey
<1>6. CASE UNCHANGED vars
  BY <1>6, FrameOneKey DEF vars, memory, disk, keys
<1> QED
  BY <1>2, <1>3, <1>4, <1>5, <1>6, RetainOneKey, InsertOneKey, SaveOneKey, ReuseOneKey
  DEF Next, Operate, ClientStep, AdminStep

\* If no two calls about one machine are under way at once, no machine ever has
\* two keys that have not expired, over crashes and restarts at any step: the
\* one gap is between issue's look for a key and its insertion of a new one
THEOREM OneKeyPerMachine == Spec /\ []CallsApart => []OneKey
<1>1. Init => OneKeyInv
  <2>1. NoCall.step = "idle"
    BY DEF NoCall
  <2> QED
    BY <2>1 DEF Init, OneKeyInv, OneLive, NoneToReuse, DroppedOnly, Unexpired
<1>2. OneKeyInv => OneKey
  BY DEF OneKeyInv, OneLive, OneKey, Unexpired
<1> QED
  BY <1>1, <1>2, TypeCorrect, KeyInit, KeyInduction, OneKeyInduction, PTL DEF Spec

-----------------------------------------------------------------------------
(* The black list and its file, as long as calls of the panel have not met *)

Bans == [members |-> banned, ips |-> bannedIps]

\* At most one call of the panel is under way
OneCall == \A a, b \in Admins : ctl[a].step # "idle" /\ ctl[b].step # "idle" => a = b

Saved == BansSettled => banFile = Bans

\* The call that saves holds a copy of what is in memory
CopyOK == \A a \in Admins :
    /\ ctl[a].step = "ips" => ctl[a].bans.members = banned
    /\ ctl[a].step \in {"truncate", "write"} => ctl[a].bans = Bans
    /\ ctl[a].step = "write" => banFile = NoBans

\* Until it writes, and when it has written, the file has the bans that were answered
AckedOK ==
    torn = FALSE => /\ acked \subseteq banned
                    /\ (\A a \in Admins : ctl[a].step # "write") => acked \subseteq banFile.members

FileOK == OneCall /\ Saved /\ CopyOK /\ AckedOK

BanFileInv ==
    /\ apart = TRUE => FileOK
    /\ apart = FALSE => acked = {}

\* A call that begins: beside another, nothing is said any more; alone, all is said
\* again, for none is at a step of its save and what is answered counts from here
LEMMA StartBanFile ==
    ASSUME TypeOK, BanFileInv, NEW a \in Admins, Revoke(a) \/ Unban(a)
    PROVE  BanFileInv'
<1>1. ctl \in [Admins -> Ctl] /\ apart \in BOOLEAN
  BY DEF TypeOK
<1>2. /\ ctl[a].step = "idle" /\ ctl'[a].step \in {"members", "ip"}
      /\ \A b \in Admins \ {a} : ctl'[b] = ctl[b]
      /\ UNCHANGED <<banFile, torn>>
      /\ apart' = \A b \in Admins \ {a} : ctl[b].step = "idle"
  <2>1. PICK s : Meet(a, s)
    BY <1>1, CtlBegins
  <2> QED
    BY <1>1, <2>1, CtlBegins DEF Meet, disk
<1>3. PICK m \in Members : \/ banned' = banned \cup {m} /\ Meet(a, acked)
                           \/ banned' = banned \ {m} /\ Meet(a, acked \ {m})
  BY <1>1, CtlBegins
<1>4. CASE \A b \in Admins \ {a} : ctl[b].step = "idle"
  <2>1. apart' = TRUE
    BY <1>2, <1>4, Zenon
  <2>2. acked' = acked \/ (acked' = acked \ {m} /\ banned' = banned \ {m})
    BY <1>3, <2>1 DEF Meet
  <2>3. torn = FALSE => acked \subseteq banned /\ acked \subseteq banFile.members
    <3>1. \A b \in Admins : ctl[b].step # "write"
      BY <1>2, <1>4
    <3> QED
      BY <1>1, <3>1 DEF BanFileInv, FileOK, AckedOK
  <2>4. \A b \in Admins : ctl'[b].step \in {"idle", "members", "ip"}
    BY <1>2, <1>4
  <2>5. AckedOK'
    <3>1. acked' \subseteq acked /\ (acked \subseteq banned => acked' \subseteq banned')
      BY <1>3, <2>1 DEF Meet
    <3> QED
      BY <1>2, <2>3, <3>1 DEF AckedOK
  <2>6. OneCall' /\ CopyOK'
    BY <1>2, <1>4, <2>4 DEF OneCall, CopyOK
  <2>7. Saved'
    BY <1>2 DEF Saved, BansSettled
  <2> QED
    BY <2>1, <2>5, <2>6, <2>7 DEF BanFileInv, FileOK
<1>5. CASE ~\A b \in Admins \ {a} : ctl[b].step = "idle"
  <2>1. apart' = FALSE
    BY <1>2, <1>5, Zenon
  <2>2. acked' = {}
    BY <1>3, <2>1 DEF Meet
  <2> QED
    BY <2>1, <2>2 DEF BanFileInv
<1> QED
  BY <1>4, <1>5

\* What a later step of the one call does
LEMMA AdminFileOK ==
    ASSUME TypeOK, FileOK, apart = TRUE, NEW a \in Admins,
           \/ CtlIp(a) \/ SaveMembers(a) \/ SaveIps(a) \/ BanFileTruncate(a)
           \/ BanFileWrite(a) \/ CtlSaveBegin(a) \/ CtlSaveEnd(a)
    PROVE  FileOK'
<1> USE DEF FileOK, OneCall, Saved, CopyOK, AckedOK, BansSettled, Bans
<1>1. ctl[a] \in Ctl /\ ctl \in [Admins -> Ctl] /\ ctl[a].bans \in BanState /\ banFile \in BanState
  BY DEF TypeOK, Ctl
<1>2. /\ ctl[a].step # "idle"
      /\ \A b \in Admins \ {a} : ctl'[b] = ctl[b] /\ ctl[b].step = "idle"
  BY <1>1 DEF CtlIp, SaveMembers, SaveIps, BanFileTruncate, BanFileWrite, CtlSaveBegin, CtlSaveEnd
<1>3. CASE CtlIp(a)
  <2>1. ctl[a].step = "ip" /\ ctl'[a].step = "members" /\ UNCHANGED <<banned, banFile, acked, torn>>
    BY <1>1, <1>3 DEF CtlIp, Ctl, disk, ghosts
  <2> QED
    BY <1>2, <2>1
<1>4. CASE SaveMembers(a)
  <2>1. ctl[a].step = "members" /\ ctl'[a].step = "ips" /\ ctl'[a].bans.members = banned
        /\ UNCHANGED <<banned, bannedIps, banFile, acked, torn>>
    BY <1>1, <1>4 DEF SaveMembers, Ctl, BanState, memory, disk, ghosts
  <2> QED
    BY <1>2, <2>1
<1>5. CASE SaveIps(a)
  <2>1. ctl[a].step = "ips" /\ ctl'[a].step = "truncate"
        /\ ctl'[a].bans = [ctl[a].bans EXCEPT !.ips = bannedIps]
        /\ UNCHANGED <<banned, bannedIps, banFile, acked, torn>>
    BY <1>1, <1>5 DEF SaveIps, Ctl, memory, disk, ghosts
  <2>2. ctl'[a].bans = Bans
    BY <1>1, <2>1 DEF BanState
  <2> QED
    BY <1>2, <2>1, <2>2
<1>6. CASE BanFileTruncate(a)
  <2>1. ctl[a].step = "truncate" /\ ctl'[a].step = "write" /\ ctl'[a].bans = ctl[a].bans
        /\ banFile' = NoBans /\ UNCHANGED <<banned, bannedIps, acked, torn>>
    BY <1>1, <1>6 DEF BanFileTruncate, Ctl, memory, ghosts
  <2> QED
    BY <1>2, <2>1
<1>7. CASE BanFileWrite(a)
  <2>1. ctl[a].step = "write" /\ banFile' = Bans /\ UNCHANGED <<banned, bannedIps, acked, torn>>
    BY <1>7 DEF BanFileWrite, memory, ghosts
  <2>2. ctl'[a].step \in {"idle", "save"}
    <3>1. [ctl[a] EXCEPT !.step = "save", !.bans = NoBans].step = "save" /\ NoCtl.step = "idle"
      BY <1>1 DEF Ctl, NoCtl
    <3> QED
      BY <1>1, <1>7, <3>1 DEF BanFileWrite
  <2> QED
    BY <1>2, <2>1, <2>2
<1>8. CASE CtlSaveBegin(a)
  <2>1. ctl[a].step = "save" /\ ctl'[a].step = "saving"
        /\ UNCHANGED <<banned, bannedIps, banFile, acked, torn>>
    BY <1>1, <1>8 DEF CtlSaveBegin, Ctl, memory, ghosts
  <2> QED
    BY <1>2, <2>1
<1>9. CASE CtlSaveEnd(a)
  <2>1. ctl[a].step = "saving" /\ ctl'[a].step = "idle"
        /\ UNCHANGED <<banned, bannedIps, banFile, torn>>
        /\ acked' \subseteq acked \cup banned
    BY <1>1, <1>9 DEF CtlSaveEnd, NoCtl, memory
  <2>2. banFile = Bans
    BY <1>2, <2>1
  <2> QED
    BY <1>2, <2>1, <2>2
<1> QED
  BY <1>3, <1>4, <1>5, <1>6, <1>7, <1>8, <1>9

LEMMA BanFileInduction == TypeOK /\ BanFileInv /\ [Next]_vars => BanFileInv'
<1> SUFFICES ASSUME TypeOK, BanFileInv, [Next]_vars PROVE BanFileInv'
  OBVIOUS
<1>0. apart \in BOOLEAN
  BY DEF TypeOK
<1>1. ASSUME UNCHANGED <<banned, bannedIps, banFile, ctl, acked, torn, apart>>
      PROVE  BanFileInv'
  BY <1>1 DEF BanFileInv, FileOK, OneCall, Saved, CopyOK, AckedOK, BansSettled, Bans
<1>2. ASSUME NEW c \in Clients, ClientStep(c)
      PROVE  UNCHANGED <<banned, bannedIps, banFile, ctl, acked, torn, apart>>
  BY <1>2 DEF ClientStep, AuthToken, StartCall, Retain, Reuse, IpCheck, MemberCheck, Insert,
              SaveBegin, SaveEnd, VerifyKey, VerifyBan, Served, memory, disk, ghosts
<1>3. ASSUME NEW a \in Admins,
             \/ CtlIp(a) \/ SaveMembers(a) \/ SaveIps(a) \/ BanFileTruncate(a)
             \/ BanFileWrite(a) \/ CtlSaveBegin(a) \/ CtlSaveEnd(a)
      PROVE  BanFileInv'
  <2>1. apart' = apart /\ (apart = FALSE => acked' = acked)
    BY <1>3 DEF CtlIp, SaveMembers, SaveIps, BanFileTruncate, BanFileWrite, CtlSaveBegin,
                CtlSaveEnd, ghosts
  <2>2. apart = TRUE => FileOK'
    BY <1>3, AdminFileOK DEF BanFileInv
  <2> QED
    BY <2>1, <2>2 DEF BanFileInv
<1>4. CASE Operate
  BY <1>1, <1>2, <1>3, <1>4, StartBanFile DEF Operate, AdminStep
<1>5. CASE Tick \/ UNCHANGED vars
  BY <1>1, <1>5 DEF Tick, vars, memory, disk, ghosts
<1>6. CASE Restart
  <2>1. \A a \in Admins : ctl'[a].step = "idle"
    BY <1>6 DEF Restart, NoCtl
  <2>2. /\ banned' = banFile.members /\ bannedIps' = banFile.ips /\ banFile' = banFile
        /\ acked' = acked /\ apart' = TRUE
    BY <1>6 DEF Restart, disk
  <2>3. banFile = [members |-> banFile.members, ips |-> banFile.ips]
    BY DEF TypeOK, BanState
  <2>4. torn' = FALSE => torn = FALSE /\ \A a \in Admins : ctl[a].step # "write"
    BY <1>6 DEF Restart, TypeOK
  <2>5. torn' = FALSE => acked \subseteq banFile.members
    BY <1>0, <2>4 DEF BanFileInv, FileOK, AckedOK
  <2> QED
    BY <2>1, <2>2, <2>3, <2>5 DEF BanFileInv, FileOK, OneCall, Saved, CopyOK, AckedOK, Bans
<1> QED
  BY <1>4, <1>5, <1>6 DEF Next

LEMMA BanFileHolds == Spec => []BanFileInv
<1>1. Init => BanFileInv
  <2>1. NoCtl.step = "idle" /\ NoBans = [members |-> {}, ips |-> {}]
    BY DEF NoCtl, NoBans
  <2> QED
    BY <2>1 DEF Init, BanFileInv, FileOK, OneCall, Saved, CopyOK, AckedOK, Bans
<1> QED
  BY <1>1, TypeCorrect, BanFileInduction, PTL DEF Spec

\* The black list is persistent, however many calls the panel makes: banned.json says
\* what memory says whenever none is before the end of its save, as long as no two
\* have met; and again from the next call that meets no other, or restart, on.
THEOREM BansSurvive == Spec => []BansDurable
<1>1. TypeOK /\ BanFileInv => BansDurable
  BY DEF TypeOK, BanFileInv, FileOK, Saved, Bans, BansDurable
<1> QED
  BY <1>1, TypeCorrect, BanFileHolds, PTL

\* A ban that was answered holds until an unban, or until two calls meet, over every
\* crash but one between the truncation and the write of banned.json
THEOREM AnsweredBansHold == Spec => []AckedBanHoldsUntorn
<1>1. TypeOK /\ BanFileInv => AckedBanHoldsUntorn
  BY DEF BanFileInv, FileOK, AckedOK, AckedBanHoldsUntorn, AckedBanHolds, TypeOK
<1> QED
  BY <1>1, TypeCorrect, BanFileHolds, PTL

-----------------------------------------------------------------------------
(* Refinement *)

\* The steps of Auth, seen as steps in the life of the keys
LEMMA StepIsLifecycleStep ==
    ASSUME TypeOK, KeyInv, [Next]_vars
    PROVE  [Lifecycle!Next]_(Lifecycle!vars)
<1> DEFINE live == sessions \cup sessFile
<1>1. ASSUME live' \subseteq live, UNCHANGED <<owner, expires>>
      PROVE  Lifecycle!Next
  BY <1>1 DEF Lifecycle!Next, Lifecycle!Forget
<1>2. ASSUME NEW c \in Clients, Insert(c)
      PROVE  Lifecycle!Next
  <2>1. call[c].member \in Members
    BY <1>2 DEF TypeOK, Call, KeyInv, CallNamed, Insert
  <2>2. PICK t \in Tokens : /\ owner[t] = None
                            /\ owner' = [owner EXCEPT ![t] = call[c].member]
                            /\ expires' = [expires EXCEPT ![t] = Expiry(call[c].clock)]
                            /\ sessions' = sessions \cup {t}
    BY <1>2 DEF Insert
  <2>3. Expiry(call[c].clock) \in 0..Forever
    BY ConstantsOK DEF TypeOK, Call, Expiry, Forever
  <2>4. live' = live \cup {t}
    BY <1>2, <2>2 DEF Insert, disk
  <2> QED
    BY <2>1, <2>2, <2>3, <2>4 DEF Lifecycle!Next, Lifecycle!Issue
<1>3. ASSUME NEW c \in Clients, Retain(c) \/ SaveBegin(c)
      PROVE  Lifecycle!Next
  BY <1>1, <1>3 DEF Retain, SaveBegin, memory, disk, keys
<1>4. ASSUME NEW c \in Clients, SaveEnd(c)
      PROVE  Lifecycle!Next
  BY <1>1, <1>4 DEF SaveEnd, memory, keys, KeyInv, SnapFresh
<1>5. ASSUME NEW c \in Clients,
             \/ AuthToken(c) \/ Reuse(c) \/ IpCheck(c) \/ MemberCheck(c)
             \/ VerifyKey(c) \/ VerifyBan(c) \/ Served(c)
      PROVE  UNCHANGED Lifecycle!vars
  BY <1>5 DEF AuthToken, StartCall, Reuse, IpCheck, MemberCheck, VerifyKey,
              VerifyBan, Served, memory, disk, keys, Lifecycle!vars
<1>6. ASSUME NEW a \in Admins, CtlSaveBegin(a) \/ CtlSaveEnd(a)
      PROVE  Lifecycle!Next
  BY <1>1, <1>6 DEF CtlSaveBegin, CtlSaveEnd, memory, keys, KeyInv, SnapFresh
<1>7. ASSUME NEW a \in Admins,
             \/ Revoke(a) \/ Unban(a) \/ CtlIp(a) \/ SaveMembers(a)
             \/ SaveIps(a) \/ BanFileTruncate(a) \/ BanFileWrite(a)
      PROVE  UNCHANGED Lifecycle!vars
  BY <1>7 DEF Revoke, Unban, CtlIp, SaveMembers, SaveIps, BanFileTruncate,
              BanFileWrite, memory, disk, keys, Lifecycle!vars
<1>8. CASE Restart
  BY <1>1, <1>8 DEF Restart, LoadSessions, disk, keys
<1>9. CASE Tick \/ UNCHANGED vars
  BY <1>9 DEF Tick, vars, memory, disk, keys, Lifecycle!vars
<1> QED
  BY <1>2, <1>3, <1>4, <1>5, <1>6, <1>7, <1>8, <1>9
  DEF Next, Operate, ClientStep, AdminStep

\* Auth implements KeyLifecycle: a key that is out of memory and out of the
\* file never comes back, and no key changes its machine or its time of expiry
THEOREM Refinement == Spec => KeysLiveOnce
<1>1. Init => Lifecycle!Init
  BY ConstantsOK DEF Init, Lifecycle!Init, Forever
<1> QED
  BY <1>1, TypeCorrect, KeyInit, KeyInduction, StepIsLifecycleStep, PTL
  DEF Spec, KeysLiveOnce, Lifecycle!Spec
=============================================================================
