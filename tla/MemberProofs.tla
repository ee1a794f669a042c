---------------------------- MODULE MemberProofs ----------------------------
(***************************************************************************)
(* Proofs about Member: its types, and that a session is taken for revoked *)
(* only when a call with this session was refused.                         *)
(***************************************************************************)
EXTENDS Member, TLAPS

-----------------------------------------------------------------------------
(* The fields of the records, one at a time *)

LEMMA SummaryTyped ==
    ASSUME NEW s \in Summary
    PROVE  /\ s.rules \in BOOLEAN /\ s.limit \in Limits /\ s.banned \in BOOLEAN
           /\ s.used \in 0..MaxUsed
           /\ \A x \in BOOLEAN : [s EXCEPT !.rules = x] \in Summary
           /\ \A x \in Limits : [s EXCEPT !.limit = x] \in Summary
           /\ \A x \in BOOLEAN : [s EXCEPT !.banned = x] \in Summary
           /\ \A x \in 0..MaxUsed : [s EXCEPT !.used = x] \in Summary
<1>1. \A x \in BOOLEAN : [s EXCEPT !.rules = x] \in Summary
  BY DEF Summary
<1>2. \A x \in Limits : [s EXCEPT !.limit = x] \in Summary
  BY DEF Summary
<1>3. \A x \in BOOLEAN : [s EXCEPT !.banned = x] \in Summary
  BY DEF Summary
<1>4. \A x \in 0..MaxUsed : [s EXCEPT !.used = x] \in Summary
  BY DEF Summary
<1>5. s.rules \in BOOLEAN /\ s.limit \in Limits /\ s.banned \in BOOLEAN /\ s.used \in 0..MaxUsed
  BY DEF Summary
<1> QED
  BY <1>1, <1>2, <1>3, <1>4, <1>5

LEMMA EntryTyped ==
    ASSUME NEW e \in Entry
    PROVE  /\ \A x \in Names : [e EXCEPT !.name = x] \in Entry
           /\ \A x \in BOOLEAN : [e EXCEPT !.online = x] \in Entry
BY DEF Entry

Pcs == {"down", "sleep", "token", "got", "save"}

LEMMA RefreshFields ==
    ASSUME NEW f \in Refresh
    PROVE  f.pc \in Pcs /\ f.token \in 0..MaxTokens /\ f.got \in Summary \cup {None}
BY DEF Refresh, Pcs

LEMMA RefreshPlace ==
    ASSUME NEW f \in Refresh, NEW p \in Pcs, NEW g, g = [f EXCEPT !.pc = p]
    PROVE  g \in Refresh /\ g.pc = p /\ g.got = f.got
BY DEF Refresh, Pcs

LEMMA AsleepTyped ==
    /\ Asleep \in Refresh /\ Asleep.pc = "sleep"
    /\ [Asleep EXCEPT !.pc = "down"] \in Refresh /\ [Asleep EXCEPT !.pc = "down"].pc = "down"
BY MemberConstants DEF Asleep, Refresh

Spendings == [tokens : 0..MaxTokens, cells : 0..MaxCells, events : 0..MaxEvents]

LEMMA SpentFields ==
    ASSUME TypeOK
    PROVE  /\ spent \in Spendings
           /\ spent.tokens \in 0..MaxTokens /\ spent.cells \in 0..MaxCells
           /\ spent.events \in 0..MaxEvents
           /\ spent.tokens \in Nat /\ spent.cells \in Nat /\ spent.events \in Nat
BY DEF TypeOK, Spendings

LEMMA SpentTyped ==
    ASSUME NEW s \in Spendings
    PROVE  /\ \A x \in 0..MaxTokens : [s EXCEPT !.tokens = x] \in Spendings
           /\ \A y \in 0..MaxCells : [s EXCEPT !.cells = y] \in Spendings
           /\ \A z \in 0..MaxEvents : [s EXCEPT !.events = z] \in Spendings
           /\ \A x : [s EXCEPT !.tokens = x].cells = s.cells
           /\ \A z : [s EXCEPT !.events = z].cells = s.cells
           /\ \A y : [s EXCEPT !.cells = y].cells = y
BY DEF Spendings

-----------------------------------------------------------------------------
(* The parts of the types *)

LeaderTypes == policy \in Summary /\ token \in 0..MaxTokens /\ roster \in Entry \cup {None}

GatewayTypes ==
    /\ fetch \in Refresh
    /\ fetch.pc \in {"got", "save"} => fetch.got \in Summary
    /\ mirror \in Mirrors /\ file \in Mirrors

ClientTypes ==
    /\ cells \in [Cells -> Session]
    /\ clone \in [Clones -> ShareClient]
    /\ \A c \in Clones : clone[c].cell = 0 => clone[c].call = "none"

SpentTypes == spent \in Spendings

LEMMA TypeParts ==
    /\ TypeOK <=> LeaderTypes /\ GatewayTypes /\ ClientTypes /\ SpentTypes
    /\ TypeOK' <=> LeaderTypes' /\ GatewayTypes' /\ ClientTypes' /\ SpentTypes'
BY DEF TypeOK, LeaderTypes, GatewayTypes, ClientTypes, SpentTypes, Spendings

\* What keeps a session in use from being given to another connect, and a refusal
\* on its way with the session it was for
CloneOK ==
    \A c \in Clones :
        /\ clone[c].cell <= spent.cells
        /\ clone[c].call = "refused" => cells[clone[c].cell].refused = TRUE

IInv == TypeOK /\ CloneOK /\ RevokedWasRefused

LEMMA InitTyped == Init => IInv
<1> SUFFICES ASSUME Init PROVE IInv
  OBVIOUS
<1>1. LeaderTypes
  BY MemberConstants DEF Init, LeaderTypes, Summary, Limits
<1>2. GatewayTypes
  BY AsleepTyped DEF Init, GatewayTypes, Mirrors
<1>3. ClientTypes
  BY MemberConstants DEF Init, ClientTypes, Session, ShareClient
<1>4. SpentTypes
  BY MemberConstants DEF Init, SpentTypes, Spendings
<1>5. CloneOK
  BY DEF Init, CloneOK
<1>6. RevokedWasRefused
  BY DEF Init, RevokedWasRefused
<1> QED
  BY <1>1, <1>2, <1>3, <1>4, <1>5, <1>6, TypeParts DEF IInv

\* The frames
LEMMA LeaderFrame == ASSUME TypeOK, UNCHANGED leaderVars PROVE LeaderTypes'
BY DEF TypeOK, LeaderTypes, leaderVars

LEMMA GatewayFrame == ASSUME TypeOK, UNCHANGED gatewayVars PROVE GatewayTypes'
BY DEF TypeOK, GatewayTypes, gatewayVars

LEMMA ClientFrame == ASSUME TypeOK, UNCHANGED clientVars PROVE ClientTypes'
BY DEF TypeOK, ClientTypes, clientVars

LEMMA SpentFrame == ASSUME TypeOK, UNCHANGED spent PROVE SpentTypes'
BY TypeParts DEF SpentTypes

LEMMA EventTyped ==
    ASSUME TypeOK, Event PROVE SpentTypes' /\ spent'.cells = spent.cells
<1>1. spent \in Spendings /\ spent.events + 1 \in 0..MaxEvents
  BY SpentFields, MemberConstants DEF Event
<1>2. spent' = [spent EXCEPT !.events = spent.events + 1]
  BY DEF Event
<1>3. spent' \in Spendings /\ spent'.cells = spent.cells
  BY <1>1, <1>2, SpentTyped
<1> QED
  BY <1>3 DEF SpentTypes

\* Nothing at the programs changes
LEMMA ClientsStay ==
    ASSUME IInv, TypeOK', UNCHANGED clientVars, spent'.cells = spent.cells PROVE IInv'
BY DEF IInv, CloneOK, RevokedWasRefused, clientVars

-----------------------------------------------------------------------------
(* The leader *)

LEMMA UpsertTyped == ASSUME NEW n \in Names, Upsert(n) PROVE roster' \in Entry
BY DEF Upsert, Entry

LEMMA IssueTyped ==
    ASSUME TypeOK, NEW t \in Tokens, Issue(t)
    PROVE  token' \in 0..MaxTokens /\ Counted(t) \in 0..MaxTokens
BY SpentFields, MemberConstants DEF Issue, Counted, Tokens

LEMMA ServeTyped ==
    ASSUME TypeOK, Serve PROVE policy' \in Summary /\ roster' \in Entry
<1>1. roster' \in Entry
  BY UpsertTyped DEF Serve, Names
<1>2. CASE UNCHANGED policy
  BY <1>1, <1>2 DEF TypeOK
<1>3. CASE policy.used # MaxUsed /\ policy' = [policy EXCEPT !.used = policy.used + 1]
  <2>1. policy \in Summary
    BY DEF TypeOK
  <2>2. policy.used + 1 \in 0..MaxUsed
    BY <1>3, <2>1, SummaryTyped, MemberConstants
  <2>3. \A x \in 0..MaxUsed : [policy EXCEPT !.used = x] \in Summary
    BY <2>1, SummaryTyped
  <2> QED
    BY <1>1, <1>3, <2>2, <2>3
<1> QED
  BY <1>2, <1>3 DEF Serve

LEMMA ChangeTyped ==
    ASSUME TypeOK, NEW s \in Summary, Change(s), roster' \in Entry \cup {None}
    PROVE  TypeOK' /\ UNCHANGED clientVars /\ spent'.cells = spent.cells
<1>1. LeaderTypes'
  BY DEF Change, TypeOK, LeaderTypes
<1>2. GatewayTypes' /\ ClientTypes' /\ SpentTypes'
  BY GatewayFrame, ClientFrame, EventTyped DEF Change
<1> QED
  BY <1>1, <1>2, TypeParts, EventTyped DEF Change

LEMMA RosterTyped ==
    ASSUME TypeOK, Event, roster' \in Entry \cup {None},
           UNCHANGED <<policy, token, gatewayVars, clientVars>>
    PROVE  TypeOK' /\ spent'.cells = spent.cells
<1>1. LeaderTypes'
  BY DEF TypeOK, LeaderTypes
<1>2. GatewayTypes' /\ ClientTypes' /\ SpentTypes'
  BY GatewayFrame, ClientFrame, EventTyped
<1> QED
  BY <1>1, <1>2, TypeParts, EventTyped

LEMMA RevokeInv == ASSUME IInv, Revoke PROVE IInv'
<1>1. policy \in Summary /\ roster \in Entry \cup {None}
  BY DEF IInv, TypeOK
<1>2. [policy EXCEPT !.banned = TRUE] \in Summary
  BY <1>1, SummaryTyped
<1>3. roster' \in Entry \cup {None}
  BY <1>1, EntryTyped DEF Revoke, MarkOffline
<1> QED
  BY <1>2, <1>3, ChangeTyped, ClientsStay DEF Revoke, IInv

LEMMA SetPolicyInv == ASSUME IInv, SetPolicy PROVE IInv'
<1>1. policy \in Summary /\ roster' \in Entry \cup {None}
  BY DEF IInv, TypeOK, SetPolicy
<1>2. [policy EXCEPT !.banned = FALSE] \in Summary
  BY <1>1, SummaryTyped
<1>3. \A n \in Limits : [policy EXCEPT !.limit = n] \in Summary
  BY <1>1, SummaryTyped
<1>4. [policy EXCEPT !.rules = ~policy.rules] \in Summary
  BY <1>1, SummaryTyped
<1>5. PICK s \in Summary : Change(s)
  BY <1>2, <1>3, <1>4 DEF SetPolicy
<1> QED
  BY <1>1, <1>5, ChangeTyped, ClientsStay DEF IInv

LEMMA RosterInv ==
    ASSUME IInv, PanelRename \/ Silence \/ LeaderRestart PROVE IInv'
<1>1. Event /\ UNCHANGED <<policy, token, gatewayVars, clientVars>>
  BY DEF PanelRename, Silence, LeaderRestart
<1>2. roster \in Entry \cup {None}
  BY DEF IInv, TypeOK
<1>3. roster' \in Entry \cup {None}
  BY <1>2, EntryTyped DEF PanelRename, RenameEntry, Silence, LeaderRestart, Names
<1> QED
  BY <1>1, <1>3, RosterTyped, ClientsStay DEF IInv

-----------------------------------------------------------------------------
(* The member's gateway *)

\* A step of the refresh loop alone
LEMMA LoopInv ==
    ASSUME IInv, GatewayTypes', UNCHANGED <<leaderVars, clientVars, spent>> PROVE IInv'
<1>1. TypeOK'
  BY LeaderFrame, ClientFrame, SpentFrame, TypeParts DEF IInv
<1> QED
  BY <1>1, ClientsStay

LEMMA FetchTokenInv == ASSUME IInv, FetchToken PROVE IInv'
<1>1. PICK t \in Tokens :
        /\ Issue(t)
        /\ fetch' = [fetch EXCEPT !.pc = "token", !.token = t]
        /\ spent' = [spent EXCEPT !.tokens = Counted(t)]
  BY DEF FetchToken
<1>2. token' \in 0..MaxTokens /\ Counted(t) \in 0..MaxTokens /\ t \in 0..MaxTokens
  BY <1>1, IssueTyped, MemberConstants DEF IInv, Tokens
<1>3. fetch' \in Refresh /\ fetch'.pc = "token"
  <2>1. fetch \in Refresh /\ "token" \in Pcs
    BY DEF IInv, TypeOK, Pcs
  <2> QED
    BY <1>1, <1>2, <2>1 DEF Refresh, Pcs
<1>4. UNCHANGED <<policy, mirror, file, clientVars>> /\ roster' \in Entry
  BY UpsertTyped DEF FetchToken, Names
<1>5. LeaderTypes' /\ GatewayTypes'
  BY <1>2, <1>3, <1>4 DEF IInv, TypeOK, LeaderTypes, GatewayTypes, Mirrors
<1>6. SpentTypes' /\ spent'.cells = spent.cells
  BY <1>1, <1>2, SpentFields, SpentTyped DEF IInv, SpentTypes
<1>7. TypeOK'
  BY <1>4, <1>5, <1>6, ClientFrame, TypeParts DEF IInv
<1> QED
  BY <1>4, <1>6, <1>7, ClientsStay

LEMMA FetchStrategyInv == ASSUME IInv, FetchStrategy PROVE IInv'
<1>1. fetch \in Refresh /\ policy \in Summary /\ "got" \in Pcs
      /\ fetch' = [fetch EXCEPT !.pc = "got", !.got = policy]
  BY DEF IInv, TypeOK, FetchStrategy, Pcs
<1>2. fetch' \in Refresh /\ fetch'.got = policy
  <2>1. [fetch EXCEPT !.pc = "got", !.got = policy] \in Refresh
    BY <1>1 DEF Refresh, Pcs
  <2>2. [fetch EXCEPT !.pc = "got", !.got = policy].got = policy
    BY <1>1 DEF Refresh
  <2> QED
    BY <1>1, <2>1, <2>2
<1>3. GatewayTypes'
  BY <1>1, <1>2 DEF IInv, TypeOK, GatewayTypes, FetchStrategy, Mirrors
<1> QED
  BY <1>3, LoopInv DEF FetchStrategy

LEMMA SetMirrorInv == ASSUME IInv, SetMirror PROVE IInv'
<1>1. fetch \in Refresh /\ fetch.got \in Summary /\ "save" \in Pcs
      /\ fetch' = [fetch EXCEPT !.pc = "save"]
  BY DEF IInv, TypeOK, SetMirror, Pcs
<1>2. fetch' \in Refresh /\ fetch'.got = fetch.got
  BY <1>1, RefreshPlace
<1>3. GatewayTypes'
  BY <1>1, <1>2 DEF IInv, TypeOK, GatewayTypes, SetMirror, Mirrors
<1> QED
  BY <1>3, LoopInv DEF SetMirror

LEMMA SleepInv == ASSUME IInv, SaveMirror \/ FetchFails \/ StartGateway PROVE IInv'
<1>1. fetch' \in Refresh /\ fetch'.pc = "sleep"
  BY AsleepTyped DEF SaveMirror, FetchFails, StartGateway
<1>2. file' \in Mirrors /\ mirror' \in Mirrors
  BY DEF IInv, TypeOK, SaveMirror, FetchFails, StartGateway, Mirrors
<1>3. GatewayTypes'
  BY <1>1, <1>2 DEF GatewayTypes
<1> QED
  BY <1>3, LoopInv DEF SaveMirror, FetchFails, StartGateway

LEMMA StopGatewayInv == ASSUME IInv, StopGateway PROVE IInv'
<1>1. fetch' \in Refresh /\ fetch'.pc = "down"
  BY AsleepTyped DEF StopGateway
<1>2. GatewayTypes'
  BY <1>1 DEF IInv, TypeOK, StopGateway, GatewayTypes, Mirrors
<1>3. TypeOK' /\ spent'.cells = spent.cells
  BY <1>2, LeaderFrame, ClientFrame, EventTyped, TypeParts DEF IInv, StopGateway
<1> QED
  BY <1>3, ClientsStay DEF StopGateway

LEMMA AppCallInv == ASSUME IInv, AppCall PROVE IInv'
<1>1. LeaderTypes'
  BY ServeTyped DEF IInv, TypeOK, AppCall, LeaderTypes
<1>2. TypeOK'
  BY <1>1, GatewayFrame, ClientFrame, SpentFrame, TypeParts DEF IInv, AppCall
<1> QED
  BY <1>2, ClientsStay DEF AppCall

LEMMA RotateInv == ASSUME IInv, Rotate PROVE IInv'
<1>1. /\ spent.tokens + 1 \in 0..MaxTokens /\ spent.events + 1 \in 0..MaxEvents
      /\ spent.tokens \in 0..MaxTokens /\ spent \in Spendings
  BY SpentFields, MemberConstants DEF IInv, Rotate
<1>2. LeaderTypes'
  <2>1. CASE policy.banned
    BY <1>1, <2>1, MemberConstants DEF IInv, TypeOK, Rotate, LeaderTypes
  <2>2. CASE ~policy.banned
    BY <1>1, <2>2, UpsertTyped DEF IInv, TypeOK, Rotate, LeaderTypes, Names
  <2> QED
    BY <2>1, <2>2
<1>3. SpentTypes' /\ spent'.cells = spent.cells
  <2> DEFINE s == [spent EXCEPT !.events = spent.events + 1]
  <2>1. s \in Spendings /\ s.cells = spent.cells
    BY <1>1, SpentTyped
  <2>2. spent' = s \/ spent' = [s EXCEPT !.tokens = spent.tokens + 1]
    BY DEF Rotate
  <2> HIDE DEF s
  <2>3. spent' \in Spendings /\ spent'.cells = spent.cells
    <3>1. /\ [s EXCEPT !.tokens = spent.tokens + 1] \in Spendings
          /\ [s EXCEPT !.tokens = spent.tokens + 1].cells = s.cells
      BY <1>1, <2>1, SpentTyped
    <3> QED
      BY <2>1, <2>2, <3>1
  <2> QED
    BY <2>3 DEF SpentTypes
<1>4. TypeOK'
  BY <1>2, <1>3, GatewayFrame, ClientFrame, TypeParts DEF IInv, Rotate
<1> QED
  BY <1>3, <1>4, ClientsStay DEF Rotate

-----------------------------------------------------------------------------
(* Programs with a ShareClient *)

LEMMA ClientTyped ==
    ASSUME NEW k \in ShareClient
    PROVE  /\ k.cell \in 0..MaxCells /\ k.call \in {"none", "sent", "refused"}
           /\ \A x \in 0..MaxCells : [k EXCEPT !.cell = x] \in ShareClient
           /\ \A x \in {"none", "sent", "refused"} : [k EXCEPT !.call = x] \in ShareClient
           /\ \A x : [k EXCEPT !.cell = x].cell = x /\ [k EXCEPT !.cell = x].call = k.call
           /\ \A x : [k EXCEPT !.call = x].call = x /\ [k EXCEPT !.call = x].cell = k.cell
BY DEF ShareClient

LEMMA SessionTyped ==
    ASSUME NEW n \in Session
    PROVE  /\ \A x \in BOOLEAN : [n EXCEPT !.refused = x] \in Session
           /\ \A x \in BOOLEAN : [n EXCEPT !.revoked = x] \in Session
           /\ \A x : /\ [n EXCEPT !.refused = x].refused = x
                     /\ [n EXCEPT !.refused = x].revoked = n.revoked
                     /\ [n EXCEPT !.revoked = x].revoked = x
                     /\ [n EXCEPT !.revoked = x].refused = n.refused
BY DEF Session

\* A clone gets another session, or its call goes on; no session changes
LEMMA CloneTyped ==
    ASSUME IInv, NEW c \in Clones, NEW k \in ShareClient, clone' = [clone EXCEPT ![c] = k],
           UNCHANGED cells, spent'.cells = spent.cells,
           k.cell = 0 => k.call = "none", k.cell <= spent.cells, k.call # "refused"
    PROVE  ClientTypes' /\ CloneOK' /\ RevokedWasRefused'
<1>1. ClientTypes'
  BY DEF IInv, TypeOK, ClientTypes
<1>2. CloneOK'
  BY DEF IInv, TypeOK, CloneOK
<1>3. RevokedWasRefused'
  BY DEF IInv, RevokedWasRefused
<1> QED
  BY <1>1, <1>2, <1>3

\* The session of a clone
LEMMA CellTyped ==
    ASSUME IInv, NEW c \in Clones
    PROVE  /\ clone[c] \in ShareClient /\ clone[c].cell <= spent.cells
           /\ clone[c].cell = 0 => clone[c].call = "none"
           /\ clone[c].cell # 0 => clone[c].cell \in Cells /\ cells[clone[c].cell] \in Session
<1>1. /\ clone[c] \in ShareClient /\ clone[c].cell <= spent.cells
      /\ clone[c].cell = 0 => clone[c].call = "none"
  BY DEF IInv, TypeOK, CloneOK
<1>2. clone[c].cell # 0 => clone[c].cell \in Cells
  <2>1. clone[c].cell \in 0..MaxCells
    BY <1>1, ClientTyped
  <2> QED
    BY <2>1, MemberConstants DEF Cells
<1> QED
  BY <1>1, <1>2 DEF IInv, TypeOK

\* A connect whose answer is lost leaves the sessions alone
LEMMA ConnectLostInv == ASSUME IInv, NEW c \in Clones, ConnectLost(c) PROVE IInv'
<1>1. PICK t \in Tokens : Issue(t) /\ spent' = [spent EXCEPT !.tokens = Counted(t)]
  BY DEF ConnectLost
<1>2. token' \in 0..MaxTokens /\ Counted(t) \in 0..MaxTokens
  BY <1>1, IssueTyped DEF IInv
<1>3. SpentTypes' /\ spent'.cells = spent.cells
  BY <1>1, <1>2, SpentFields, SpentTyped DEF IInv, SpentTypes
<1>4. LeaderTypes'
  BY <1>2, UpsertTyped DEF IInv, TypeOK, ConnectLost, LeaderTypes, Names
<1>5. TypeOK'
  BY <1>3, <1>4, GatewayFrame, ClientFrame, TypeParts DEF IInv, ConnectLost
<1> QED
  BY <1>3, <1>5, ClientsStay DEF ConnectLost

\* Connecting takes a session nobody has
LEMMA ConnectInv == ASSUME IInv, NEW c \in Clones, Connect(c) PROVE IInv'
<1>1. PICK t \in Tokens :
        /\ Issue(t)
        /\ cells' = [cells EXCEPT ![spent.cells + 1] = NewSession(t)]
        /\ clone' = [clone EXCEPT ![c].cell = spent.cells + 1]
        /\ spent' = [spent EXCEPT !.cells = @ + 1, !.tokens = Counted(t)]
  BY DEF Connect
<1> DEFINE n == spent.cells + 1
<1>2. /\ spent \in Spendings /\ spent.cells \in Nat /\ n \in 0..MaxCells /\ n \in Cells
      /\ n = spent.cells + 1 /\ n # 0 /\ Idle(c)
  BY SpentFields, MemberConstants DEF IInv, Connect, Cells
<1>3. token' \in 0..MaxTokens /\ Counted(t) \in 0..MaxTokens /\ t \in 0..MaxTokens
  BY <1>1, IssueTyped, MemberConstants DEF IInv, Tokens
<1>4. spent' \in Spendings /\ spent'.cells = n
  <2> DEFINE s == [spent EXCEPT !.cells = n]
  <2>1. s \in Spendings /\ s.cells = n
    BY <1>2, SpentTyped
  <2>2. spent' = [s EXCEPT !.tokens = Counted(t)]
    BY <1>1
  <2> HIDE DEF s, n
  <2> QED
    BY <1>3, <2>1, <2>2, SpentTyped
<1> DEFINE k == [clone[c] EXCEPT !.cell = n]
<1>5. k \in ShareClient /\ k.cell = n /\ k.call = "none"
  BY <1>2, CellTyped, ClientTyped DEF Idle
<1>6. clone' = [clone EXCEPT ![c] = k] /\ cells' = [cells EXCEPT ![n] = NewSession(t)]
  BY <1>1
<1>7. NewSession(t) \in Session /\ NewSession(t).revoked = FALSE
  BY <1>3 DEF NewSession, Session
<1> HIDE DEF k, n
<1>8. ClientTypes'
  <2>1. cells' \in [Cells -> Session]
    BY <1>2, <1>6, <1>7 DEF IInv, TypeOK
  <2>2. clone' \in [Clones -> ShareClient]
    BY <1>5, <1>6 DEF IInv, TypeOK
  <2>3. \A d \in Clones : clone'[d].cell = 0 => clone'[d].call = "none"
    BY <1>5, <1>6 DEF IInv, TypeOK
  <2> QED
    BY <2>1, <2>2, <2>3 DEF ClientTypes
<1>9. UNCHANGED <<policy, gatewayVars>> /\ roster' \in Entry
  BY UpsertTyped DEF Connect, Names
<1>10. LeaderTypes'
  BY <1>3, <1>9 DEF IInv, TypeOK, LeaderTypes
<1>11. TypeOK'
  BY <1>4, <1>8, <1>9, <1>10, GatewayFrame, TypeParts DEF IInv, SpentTypes
<1>12. CloneOK'
  <2>1. \A d \in Clones : clone[d].cell # n /\ clone[d].cell <= n
    <3> SUFFICES ASSUME NEW d \in Clones PROVE clone[d].cell # n /\ clone[d].cell <= n
      OBVIOUS
    <3>1. clone[d].cell \in 0..MaxCells /\ clone[d].cell <= spent.cells
      BY CellTyped, ClientTyped
    <3> QED
      BY <1>2, <3>1, MemberConstants
  <2>2. \A d \in Clones : d # c => clone'[d] = clone[d]
    BY <1>6 DEF IInv, TypeOK
  <2>3. clone'[c] = k
    BY <1>6 DEF IInv, TypeOK
  <2>4. \A m \in Cells : m # n => cells'[m] = cells[m]
    BY <1>6 DEF IInv, TypeOK
  <2>5. n <= n
    BY <1>2
  <2> SUFFICES ASSUME NEW d \in Clones
               PROVE  /\ clone'[d].cell <= n
                      /\ clone'[d].call = "refused" => cells'[clone'[d].cell].refused = TRUE
    BY <1>4 DEF CloneOK
  <2>6. CASE d = c
    BY <1>5, <2>3, <2>5, <2>6
  <2>7. CASE d # c
    <3>1. clone'[d].cell <= n
      BY <2>1, <2>2, <2>7
    <3>2. ASSUME clone'[d].call = "refused" PROVE cells'[clone'[d].cell].refused = TRUE
      <4>1. clone[d].call = "refused" /\ clone[d].cell # 0
        BY <2>2, <2>7, <3>2, CellTyped
      <4>2. clone[d].cell \in Cells /\ cells[clone[d].cell].refused = TRUE
        BY <4>1, CellTyped DEF IInv, CloneOK
      <4> QED
        BY <2>1, <2>2, <2>4, <2>7, <4>2
    <3> QED
      BY <3>1, <3>2
  <2> QED
    BY <2>6, <2>7
<1>13. RevokedWasRefused'
  <2>1. cells'[n] = NewSession(t) /\ \A m \in Cells : m # n => cells'[m] = cells[m]
    BY <1>2, <1>6 DEF IInv, TypeOK
  <2> QED
    BY <1>7, <2>1 DEF IInv, RevokedWasRefused
<1> QED
  BY <1>11, <1>12, <1>13 DEF IInv

\* Disconnect, copy and send
LEMMA CloneInv ==
    ASSUME IInv, NEW c \in Clones,
           Disconnect(c) \/ Call(c) \/ \E d \in Clones : Copy(d, c)
    PROVE  IInv'
<1>1. clone[c] \in ShareClient /\ clone[c].cell <= spent.cells
  BY CellTyped
<1>2. UNCHANGED <<leaderVars, gatewayVars, cells, spent>> /\ Idle(c)
  BY DEF Disconnect, Call, Copy
<1>3. \E k \in ShareClient :
        /\ clone' = [clone EXCEPT ![c] = k]
        /\ k.cell = 0 => k.call = "none"
        /\ k.cell <= spent.cells /\ k.call # "refused"
  <2>1. CASE Disconnect(c)
    <3> DEFINE k == [clone[c] EXCEPT !.cell = 0]
    <3>1. 0 \in 0..MaxCells /\ 0 <= spent.cells
      BY SpentFields, MemberConstants DEF IInv
    <3>2. k \in ShareClient /\ k.cell = 0 /\ k.call = "none"
      BY <1>1, <1>2, <3>1, ClientTyped DEF Idle
    <3>3. clone' = [clone EXCEPT ![c] = k]
      BY <2>1 DEF Disconnect
    <3> HIDE DEF k
    <3> QED
      BY <3>1, <3>2, <3>3
  <2>2. CASE Call(c)
    <3> DEFINE k == [clone[c] EXCEPT !.call = "sent"]
    <3>1. k \in ShareClient /\ k.cell = clone[c].cell /\ k.call = "sent"
      BY <1>1, ClientTyped
    <3>2. clone' = [clone EXCEPT ![c] = k] /\ clone[c].cell # 0
      BY <2>2 DEF Call
    <3> HIDE DEF k
    <3> QED
      BY <1>1, <3>1, <3>2
  <2>3. ASSUME NEW d \in Clones, Copy(d, c)
        PROVE  \E k \in ShareClient :
                 /\ clone' = [clone EXCEPT ![c] = k]
                 /\ k.cell = 0 => k.call = "none"
                 /\ k.cell <= spent.cells /\ k.call # "refused"
    <3> DEFINE k == [clone[c] EXCEPT !.cell = clone[d].cell]
    <3>1. clone[d].cell \in 0..MaxCells /\ clone[d].cell <= spent.cells
      BY CellTyped, ClientTyped
    <3>2. k \in ShareClient /\ k.cell = clone[d].cell /\ k.call = "none"
      BY <1>1, <1>2, <3>1, ClientTyped DEF Idle
    <3>3. clone' = [clone EXCEPT ![c] = k]
      BY <2>3 DEF Copy
    <3> HIDE DEF k
    <3> QED
      BY <3>1, <3>2, <3>3
  <2> QED
    BY <2>1, <2>2, <2>3
<1>4. ClientTypes' /\ CloneOK' /\ RevokedWasRefused'
  BY <1>2, <1>3, CloneTyped
<1>5. TypeOK'
  BY <1>2, <1>4, LeaderFrame, GatewayFrame, SpentFrame, TypeParts DEF IInv
<1> QED
  BY <1>4, <1>5 DEF IInv

\* A session is marked, and a refusal is never taken back
LEMMA MarkTyped ==
    ASSUME IInv, NEW n \in Cells, NEW s \in Session, cells' = [cells EXCEPT ![n] = s],
           s.refused = TRUE
    PROVE  /\ cells' \in [Cells -> Session]
           /\ RevokedWasRefused'
           /\ \A m \in Cells : cells[m].refused = TRUE => cells'[m].refused = TRUE
<1>1. cells' \in [Cells -> Session]
  BY DEF IInv, TypeOK
<1>2. cells'[n] = s /\ \A m \in Cells : m # n => cells'[m] = cells[m]
  BY DEF IInv, TypeOK
<1>3. RevokedWasRefused'
  BY <1>2 DEF IInv, RevokedWasRefused
<1> QED
  BY <1>1, <1>2, <1>3

LEMMA MarkRevokedInv == ASSUME IInv, NEW c \in Clones, MarkRevoked(c) PROVE IInv'
<1> DEFINE n == clone[c].cell
           s1 == [cells[n] EXCEPT !.revoked = TRUE]
           s == [s1 EXCEPT !.refused = TRUE]
<1>1. n \in Cells /\ cells[n] \in Session
  BY CellTyped DEF MarkRevoked
<1>2. s \in Session /\ s.refused = TRUE
  <2>1. s1 \in Session
    BY <1>1, SessionTyped
  <2> HIDE DEF s1
  <2> QED
    BY <2>1, SessionTyped
<1>3. cells' = [cells EXCEPT ![n] = s]
  BY <1>1 DEF MarkRevoked, IInv, TypeOK
<1> HIDE DEF s
<1>4. /\ cells' \in [Cells -> Session] /\ RevokedWasRefused'
      /\ \A m \in Cells : cells[m].refused = TRUE => cells'[m].refused = TRUE
  BY <1>1, <1>2, <1>3, MarkTyped
<1>5. UNCHANGED <<leaderVars, gatewayVars, clone>> /\ SpentTypes' /\ spent'.cells = spent.cells
  BY EventTyped DEF MarkRevoked, IInv
<1>6. ClientTypes'
  BY <1>4, <1>5 DEF IInv, TypeOK, ClientTypes
<1>7. CloneOK'
  <2>1. \A d \in Clones : clone[d].call = "refused" =>
            clone[d].cell \in Cells /\ cells[clone[d].cell].refused = TRUE
    BY CellTyped DEF IInv, CloneOK
  <2> QED
    BY <1>4, <1>5, <2>1 DEF IInv, CloneOK
<1>8. TypeOK'
  BY <1>5, <1>6, LeaderFrame, GatewayFrame, TypeParts DEF IInv
<1> QED
  BY <1>4, <1>7, <1>8 DEF IInv

\* The leader's answer: a call is served, or its session is refused
LEMMA HandleInv == ASSUME IInv, NEW c \in Clones, Handle(c) PROVE IInv'
<1> DEFINE n == clone[c].cell
<1>1. clone[c] \in ShareClient /\ n <= spent.cells /\ n \in Cells /\ cells[n] \in Session
      /\ n # 0
  BY CellTyped DEF Handle, Cells
<1>2. UNCHANGED <<token, gatewayVars, spent>>
  BY DEF Handle
<1>3. CASE Verify(cells[n].token)
  <2> DEFINE k == [clone[c] EXCEPT !.call = "none"]
  <2>1. Serve /\ clone' = [clone EXCEPT ![c] = k] /\ UNCHANGED cells
    BY <1>3 DEF Handle
  <2>2. k \in ShareClient /\ k.cell = n /\ k.call = "none"
    BY <1>1, ClientTyped
  <2> HIDE DEF k
  <2>3. ClientTypes' /\ CloneOK' /\ RevokedWasRefused'
    BY <1>1, <1>2, <2>1, <2>2, CloneTyped
  <2>4. LeaderTypes'
    BY <1>2, <2>1, ServeTyped DEF IInv, TypeOK, LeaderTypes
  <2>5. TypeOK'
    BY <1>2, <2>3, <2>4, GatewayFrame, SpentFrame, TypeParts DEF IInv
  <2> QED
    BY <2>3, <2>5 DEF IInv
<1>4. CASE ~Verify(cells[n].token)
  <2> DEFINE k == [clone[c] EXCEPT !.call = "refused"]
             s == [cells[n] EXCEPT !.refused = TRUE]
  <2>1. /\ clone' = [clone EXCEPT ![c] = k] /\ UNCHANGED <<policy, roster>>
        /\ cells' = [cells EXCEPT ![n] = s]
    BY <1>1, <1>4 DEF Handle, IInv, TypeOK
  <2>2. k \in ShareClient /\ k.cell = n /\ k.call = "refused"
    BY <1>1, ClientTyped
  <2>3. s \in Session /\ s.refused = TRUE
    BY <1>1, SessionTyped
  <2> HIDE DEF k, s
  <2>4. /\ cells' \in [Cells -> Session] /\ RevokedWasRefused'
        /\ \A m \in Cells : cells[m].refused = TRUE => cells'[m].refused = TRUE
    BY <1>1, <2>1, <2>3, MarkTyped
  <2>5. clone' \in [Clones -> ShareClient] /\ clone'[c] = k
        /\ \A d \in Clones : d # c => clone'[d] = clone[d]
    BY <2>1, <2>2 DEF IInv, TypeOK
  <2>6. ClientTypes'
    BY <1>1, <2>2, <2>4, <2>5 DEF IInv, TypeOK, ClientTypes
  <2>7. CloneOK'
    <3>1. \A d \in Clones : clone[d].call = "refused" =>
              clone[d].cell \in Cells /\ cells[clone[d].cell].refused = TRUE
      BY CellTyped DEF IInv, CloneOK
    <3>2. cells'[n].refused = TRUE
      BY <1>1, <2>1, <2>3 DEF IInv, TypeOK
    <3> SUFFICES ASSUME NEW d \in Clones
                 PROVE  /\ clone'[d].cell <= spent.cells
                        /\ clone'[d].call = "refused" => cells'[clone'[d].cell].refused = TRUE
      BY <1>2 DEF CloneOK
    <3>3. CASE d = c
      BY <1>1, <2>2, <2>5, <3>2, <3>3
    <3>4. CASE d # c
      BY <2>4, <2>5, <3>1, <3>4 DEF IInv, CloneOK
    <3> QED
      BY <3>3, <3>4
  <2>8. LeaderTypes'
    BY <1>2, <2>1 DEF IInv, TypeOK, LeaderTypes
  <2>9. TypeOK'
    BY <1>2, <2>6, <2>8, GatewayFrame, SpentFrame, TypeParts DEF IInv
  <2> QED
    BY <2>4, <2>7, <2>9 DEF IInv
<1> QED
  BY <1>3, <1>4

\* The call returns: its session is taken for revoked after a refusal only
LEMMA ReturnInv == ASSUME IInv, NEW c \in Clones, Return(c) PROVE IInv'
<1> DEFINE n == clone[c].cell
           k == [clone[c] EXCEPT !.call = "none"]
<1>1. clone[c] \in ShareClient /\ n <= spent.cells /\ n \in Cells /\ cells[n] \in Session
  BY CellTyped DEF Return, Idle
<1>2. UNCHANGED <<leaderVars, gatewayVars, spent>> /\ clone' = [clone EXCEPT ![c] = k]
  BY DEF Return
<1>3. k \in ShareClient /\ k.cell = n /\ k.call = "none"
  BY <1>1, ClientTyped
<1> HIDE DEF k
<1>4. CASE UNCHANGED cells
  <2>1. ClientTypes' /\ CloneOK' /\ RevokedWasRefused'
    BY <1>1, <1>2, <1>3, <1>4, CloneTyped
  <2>2. TypeOK'
    BY <1>2, <2>1, LeaderFrame, GatewayFrame, SpentFrame, TypeParts DEF IInv
  <2> QED
    BY <2>1, <2>2 DEF IInv
<1>5. CASE /\ clone[c].call = "refused"
           /\ cells' = [cells EXCEPT ![clone[c].cell].revoked = TRUE]
  <2> DEFINE s == [cells[n] EXCEPT !.revoked = TRUE]
  <2>1. s \in Session /\ s.refused = TRUE
    <3>1. cells[n].refused = TRUE
      BY <1>5 DEF IInv, CloneOK
    <3>2. s \in Session /\ s.refused = cells[n].refused
      BY <1>1, SessionTyped
    <3> QED
      BY <3>1, <3>2
  <2>2. cells' = [cells EXCEPT ![n] = s]
    BY <1>1, <1>5 DEF IInv, TypeOK
  <2> HIDE DEF s
  <2>3. /\ cells' \in [Cells -> Session] /\ RevokedWasRefused'
        /\ \A m \in Cells : cells[m].refused = TRUE => cells'[m].refused = TRUE
    BY <1>1, <2>1, <2>2, MarkTyped
  <2>4. clone' \in [Clones -> ShareClient] /\ clone'[c] = k
        /\ \A d \in Clones : d # c => clone'[d] = clone[d]
    BY <1>2, <1>3 DEF IInv, TypeOK
  <2>5. ClientTypes'
    BY <1>3, <2>3, <2>4 DEF IInv, TypeOK, ClientTypes
  <2>6. CloneOK'
    <3>1. \A d \in Clones : clone[d].call = "refused" =>
              clone[d].cell \in Cells /\ cells[clone[d].cell].refused = TRUE
      BY CellTyped DEF IInv, CloneOK
    <3> SUFFICES ASSUME NEW d \in Clones
                 PROVE  /\ clone'[d].cell <= spent.cells
                        /\ clone'[d].call = "refused" => cells'[clone'[d].cell].refused = TRUE
      BY <1>2 DEF CloneOK
    <3>2. CASE d = c
      BY <1>1, <1>3, <2>4, <3>2
    <3>3. CASE d # c
      BY <2>3, <2>4, <3>1, <3>3 DEF IInv, CloneOK
    <3> QED
      BY <3>2, <3>3
  <2>7. TypeOK'
    BY <1>2, <2>5, LeaderFrame, GatewayFrame, SpentFrame, TypeParts DEF IInv
  <2> QED
    BY <2>3, <2>6, <2>7 DEF IInv
<1> QED
  BY <1>4, <1>5 DEF Return

LEMMA RenameInv == ASSUME IInv, NEW c \in Clones, Rename(c) PROVE IInv'
<1>1. Event /\ UNCHANGED <<policy, token, gatewayVars, clientVars>>
  BY DEF Rename
<1>2. roster \in Entry \cup {None}
  BY DEF IInv, TypeOK
<1>3. roster' \in Entry \cup {None}
  BY <1>2, EntryTyped DEF Rename, RenameEntry, Names
<1> QED
  BY <1>1, <1>3, RosterTyped, ClientsStay DEF IInv

-----------------------------------------------------------------------------
(* The theorems *)

LEMMA StepInv == ASSUME IInv, [Next]_vars PROVE IInv'
<1>1. CASE UNCHANGED vars
  <2>1. UNCHANGED <<leaderVars, gatewayVars, clientVars, spent>>
    BY <1>1 DEF vars
  <2>2. TypeOK'
    BY <2>1, LeaderFrame, GatewayFrame, ClientFrame, SpentFrame, TypeParts DEF IInv
  <2> QED
    BY <2>1, <2>2, ClientsStay
<1>2. CASE Next
  <2>1. ASSUME NEW c \in Clones,
               \/ Connect(c) \/ ConnectLost(c) \/ Disconnect(c) \/ MarkRevoked(c)
               \/ Call(c) \/ Handle(c) \/ Return(c) \/ Rename(c)
        PROVE  IInv'
    BY <2>1, ConnectInv, ConnectLostInv, CloneInv, MarkRevokedInv, HandleInv, ReturnInv, RenameInv
  <2>2. ASSUME NEW c \in Clones, NEW d \in Clones, Copy(c, d) PROVE IInv'
    BY <2>2, CloneInv
  <2>3. CASE Loop \/ FetchStrategy
    BY <2>3, FetchTokenInv, FetchStrategyInv, SetMirrorInv, SleepInv DEF Loop
  <2>4. CASE Revoke \/ SetPolicy \/ PanelRename \/ Silence \/ LeaderRestart
    BY <2>4, RevokeInv, SetPolicyInv, RosterInv
  <2>5. CASE StopGateway \/ AppCall \/ Rotate
    BY <2>5, StopGatewayInv, AppCallInv, RotateInv
  <2> QED
    BY <1>2, <2>1, <2>2, <2>3, <2>4, <2>5 DEF Next
<1> QED
  BY <1>1, <1>2

LEMMA SpecInv == Spec => []IInv
<1>1. Init => IInv
  BY InitTyped
<1>2. IInv /\ [Next]_vars => IInv'
  BY StepInv
<1> QED
  BY <1>1, <1>2, PTL DEF Spec

\* Every step keeps policy, roster, mirror, sessions and clones within their types: a
\* clone without a session makes no call
THEOREM MemberTypes == Spec => []TypeOK
<1>1. IInv => TypeOK
  BY DEF IInv
<1> QED
  BY <1>1, SpecInv, PTL

\* For any number of clones, connects and tokens: a session is taken for revoked
\* only when a call with this session was refused
THEOREM RevokedIsRefused == Spec => []RevokedWasRefused
<1>1. IInv => RevokedWasRefused
  BY DEF IInv
<1> QED
  BY <1>1, SpecInv, PTL

=============================================================================
