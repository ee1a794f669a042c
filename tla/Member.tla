-------------------------------- MODULE Member --------------------------------
(***************************************************************************)
(* A member of a leader's group: the mirror of its policy that the         *)
(* member's gateway keeps (lan-client/src/strategy.rs, the loop and the    *)
(* preflight of cli/src/main.rs), the sessions of programs that use the    *)
(* client library (share_client.rs), and the leader's list of members      *)
(* (lan-share/src/member.rs).  The leader's keys and bans are those of     *)
(* Auth, taken together here: one machine, one token at a time.            *)
(*                                                                         *)
(* Calls are lost at will, and answers come late.                          *)
(***************************************************************************)
EXTENDS Naturals, FiniteSets

CONSTANTS Clones,      \* copies of a ShareClient, which is Clone
          MaxCells,    \* bound: connects
          MaxTokens,   \* bound: tokens given out
          MaxEvents,   \* bound: changes of the policy, renames, tokens asked
                       \* for anew, silences, restarts, marks
          MaxUsed,     \* bound: usage, in calls
          None

ASSUME MemberConstants ==
    /\ MaxCells \in Nat /\ MaxTokens \in Nat /\ MaxEvents \in Nat
    /\ MaxUsed \in Nat \ {0}

VARIABLES policy,   \* the leader's policy for the machine
          token,    \* the machine's token at the leader; 0: none
          roster,   \* the leader's entry of the machine
          fetch,    \* the refresh loop of the gateway
          mirror,   \* StrategyCache
          file,     \* strategy-cache.json; None: missing or torn
          cells,    \* the sessions of ShareClient, shared by its clones
          clone,    \* each clone: its session, and the call under way
          spent     \* tokens, connects and events so far

leaderVars == <<policy, token, roster>>
gatewayVars == <<fetch, mirror, file>>
clientVars == <<cells, clone>>
vars == <<leaderVars, gatewayVars, clientVars, spent>>

Names == {"machine", "other"}

Limits == {0, 1, MaxUsed}

\* /api/strategy/me; the version is a hash of the first three
Summary == [rules : BOOLEAN, limit : Limits, banned : BOOLEAN, used : 0..MaxUsed]

Version(s) == <<s.rules, s.limit, s.banned>>

Cells == 1..MaxCells

Tokens == 1..MaxTokens

\* What MemberRegistry knows of the machine
Entry == [name : Names, online : BOOLEAN]

\* The refresh loop: its token, and the answer it is working on
Refresh == [pc : {"down", "sleep", "token", "got", "save"},
            token : 0..MaxTokens, got : Summary \cup {None}]

\* StrategyCache, and its file
Mirrors == Summary \cup {None}

\* A session that clones share. refused: a call with it was
Session == [token : 0..MaxTokens, revoked : BOOLEAN, refused : BOOLEAN]

\* A clone: its session, 0 for none, and its call
ShareClient == [cell : 0..MaxCells, call : {"none", "sent", "refused"}]

TypeOK ==
    /\ policy \in Summary
    /\ token \in 0..MaxTokens
    /\ roster \in Entry \cup {None}
    /\ fetch \in Refresh
    /\ fetch.pc \in {"got", "save"} => fetch.got \in Summary
    /\ {mirror, file} \subseteq Mirrors
    /\ cells \in [Cells -> Session]
    /\ clone \in [Clones -> ShareClient]
    /\ \A c \in Clones : clone[c].cell = 0 => clone[c].call = "none"
    /\ spent \in [tokens : 0..MaxTokens, cells : 0..MaxCells, events : 0..MaxEvents]

Asleep == [pc |-> "sleep", token |-> 0, got |-> None]

Init ==
    /\ policy = [rules |-> FALSE, limit |-> 0, banned |-> FALSE, used |-> 0]
    /\ token = 0
    /\ roster = None
    /\ fetch = Asleep
    /\ mirror = None
    /\ file = None
    /\ cells = [n \in Cells |-> [token |-> 0, revoked |-> FALSE, refused |-> FALSE]]
    /\ clone = [c \in Clones |-> [cell |-> 0, call |-> "none"]]
    /\ spent = [tokens |-> 0, cells |-> 0, events |-> 0]

(***************************************************************************)
(* The leader                                                              *)
(***************************************************************************)
Upsert(name) == roster' = [name |-> name, online |-> TRUE]

\* MemberRegistry's rename and mark_offline; a machine it has not seen is left alone
RenameEntry == roster' = IF roster = None THEN None ELSE [roster EXCEPT !.name = "other"]

MarkOffline == roster' = IF roster = None THEN None ELSE [roster EXCEPT !.online = FALSE]

\* A token that is held is given out again, also to a banned member; who has
\* none gets one unless it is banned
Issue(t) ==
    /\ \/ t = token /\ t # 0
       \/ token = 0 /\ ~policy.banned /\ t = spent.tokens + 1
    /\ token' = t

Counted(t) == IF t > spent.tokens THEN t ELSE spent.tokens

Lookup(t) == t # 0 /\ t = token

Verify(t) == Lookup(t) /\ ~policy.banned

\* A call enters the member with the name of its session, which is the one the
\* token was first asked for with
Serve ==
    /\ Upsert("machine")
    /\ policy' = IF (policy.limit > 0 /\ policy.used >= policy.limit) \/ policy.used = MaxUsed
                 THEN policy ELSE [policy EXCEPT !.used = @ + 1]

Event ==
    /\ spent.events < MaxEvents
    /\ spent' = [spent EXCEPT !.events = @ + 1]

Change(s) ==
    /\ Event
    /\ s # policy /\ policy' = s
    /\ UNCHANGED <<token, gatewayVars, clientVars>>

Revoke ==
    /\ Change([policy EXCEPT !.banned = TRUE])
    /\ MarkOffline

SetPolicy ==
    /\ \/ Change([policy EXCEPT !.banned = FALSE])
       \/ \E n \in Limits : Change([policy EXCEPT !.limit = n])
       \/ Change([policy EXCEPT !.rules = ~@])
    /\ UNCHANGED roster

\* The panel's rename; it fails when the leader does not list the machine
PanelRename ==
    /\ Event /\ roster # None
    /\ RenameEntry
    /\ UNCHANGED <<policy, token, gatewayVars, clientVars>>

\* 90 seconds without a call; the list and its sweep show it
Silence ==
    /\ Event /\ roster # None
    /\ roster' = [roster EXCEPT !.online = FALSE]
    /\ UNCHANGED <<policy, token, gatewayVars, clientVars>>

\* The list of members is in memory only
LeaderRestart ==
    /\ Event
    /\ roster' = None
    /\ UNCHANGED <<policy, token, gatewayVars, clientVars>>

(***************************************************************************)
(* The member's gateway                                                    *)
(***************************************************************************)
FetchToken ==
    /\ fetch.pc = "sleep"
    /\ \E t \in Tokens :
         /\ Issue(t)
         /\ fetch' = [fetch EXCEPT !.pc = "token", !.token = t]
         /\ spent' = [spent EXCEPT !.tokens = Counted(t)]
    /\ Upsert("machine")
    /\ UNCHANGED <<policy, mirror, file, clientVars>>

\* The tables are read one after the other, each under its lock; a mixture is
\* gone with the next round, as a stale answer is
FetchStrategy ==
    /\ fetch.pc = "token" /\ Lookup(fetch.token)
    /\ fetch' = [fetch EXCEPT !.pc = "got", !.got = policy]
    /\ UNCHANGED <<leaderVars, mirror, file, clientVars, spent>>

\* Mutant: an answer with the version of the mirror changes nothing
SetIfNewer ==
    /\ fetch.pc = "got"
    /\ IF mirror # None /\ Version(mirror) = Version(fetch.got)
       THEN fetch' = Asleep /\ UNCHANGED mirror
       ELSE mirror' = fetch.got /\ fetch' = [fetch EXCEPT !.pc = "save"]
    /\ UNCHANGED <<leaderVars, file, clientVars, spent>>

SetMirror ==
    /\ fetch.pc = "got"
    /\ mirror' = fetch.got
    /\ fetch' = [fetch EXCEPT !.pc = "save"]
    /\ UNCHANGED <<leaderVars, file, clientVars, spent>>

\* fs::write, whose errors are ignored: not opened, torn (also by a crash, which
\* comes as the next step) or done
SaveMirror ==
    /\ fetch.pc = "save"
    /\ file' \in {file, None, fetch.got}
    /\ fetch' = Asleep
    /\ UNCHANGED <<leaderVars, mirror, clientVars, spent>>

\* No leader, a lost call or answer, a refusal: the mirror stays
FetchFails ==
    /\ fetch.pc = "token"
    /\ fetch' = Asleep
    /\ UNCHANGED <<leaderVars, mirror, file, clientVars, spent>>

StopGateway ==
    /\ Event /\ fetch.pc # "down"
    /\ fetch' = [Asleep EXCEPT !.pc = "down"]
    /\ mirror' = None
    /\ UNCHANGED <<leaderVars, file, clientVars>>

StartGateway ==
    /\ fetch.pc = "down"
    /\ fetch' = Asleep
    /\ mirror' = file
    /\ UNCHANGED <<leaderVars, file, clientVars, spent>>

Preflight ==
    mirror # None => /\ ~mirror.banned
                     /\ ~(mirror.limit > 0 /\ mirror.used >= mirror.limit)

\* An app's call through the gateway, with the machine's token
AppCall ==
    /\ fetch.pc # "down" /\ Preflight /\ Verify(token)
    /\ Serve
    /\ UNCHANGED <<token, gatewayVars, clientVars, spent>>

\* An app asks through the gateway for another token (force): the old one is
\* gone, and a banned member gets no new one
Rotate ==
    /\ fetch.pc # "down" /\ token # 0
    /\ spent.tokens < MaxTokens /\ spent.events < MaxEvents
    /\ IF policy.banned
       THEN /\ token' = 0
            /\ spent' = [spent EXCEPT !.events = @ + 1]
            /\ UNCHANGED roster
       ELSE /\ token' = spent.tokens + 1
            /\ spent' = [spent EXCEPT !.events = @ + 1, !.tokens = @ + 1]
            /\ Upsert("machine")
    /\ UNCHANGED <<policy, gatewayVars, clientVars>>

(***************************************************************************)
(* Programs with a ShareClient                                             *)
(***************************************************************************)
Idle(c) == clone[c].call = "none"

NewSession(t) == [token |-> t, revoked |-> FALSE, refused |-> FALSE]

\* Mutant: a clone that connects again writes the session its copies share
ConnectInPlace(c) ==
    /\ Idle(c) /\ spent.cells < MaxCells
    /\ \E t \in Tokens :
         /\ Issue(t)
         /\ LET n == IF clone[c].cell # 0 THEN clone[c].cell ELSE spent.cells + 1
            IN  /\ cells' = [cells EXCEPT ![n] = NewSession(t)]
                /\ clone' = [clone EXCEPT ![c].cell = n]
         /\ spent' = [spent EXCEPT !.cells = @ + 1, !.tokens = Counted(t)]
    /\ Upsert("machine")
    /\ UNCHANGED <<policy, gatewayVars>>

\* connect and disconnect take the client for themselves: none of its own calls
\* is under way, but one of a copy may be. So nobody sees when the answer of
\* connect comes, and the step is the one of the server
Connect(c) ==
    /\ Idle(c) /\ spent.cells < MaxCells
    /\ \E t \in Tokens :
         /\ Issue(t)
         /\ cells' = [cells EXCEPT ![spent.cells + 1] = NewSession(t)]
         /\ clone' = [clone EXCEPT ![c].cell = spent.cells + 1]
         /\ spent' = [spent EXCEPT !.cells = @ + 1, !.tokens = Counted(t)]
    /\ Upsert("machine")
    /\ UNCHANGED <<policy, gatewayVars>>

\* The token is issued and the answer is lost: the client keeps the session it had
ConnectLost(c) ==
    /\ Idle(c)
    /\ \E t \in Tokens :
         /\ Issue(t)
         /\ spent' = [spent EXCEPT !.tokens = Counted(t)]
    /\ Upsert("machine")
    /\ UNCHANGED <<policy, gatewayVars, clientVars>>

Disconnect(c) ==
    /\ Idle(c) /\ clone[c].cell # 0
    /\ clone' = [clone EXCEPT ![c].cell = 0]
    /\ UNCHANGED <<leaderVars, gatewayVars, cells, spent>>

Copy(c, d) ==
    /\ Idle(d) /\ clone[d].cell = 0 /\ clone[c].cell # 0
    /\ clone' = [clone EXCEPT ![d].cell = clone[c].cell]
    /\ UNCHANGED <<leaderVars, gatewayVars, cells, spent>>

MarkRevoked(c) ==
    /\ Event /\ clone[c].cell # 0
    /\ cells' = [cells EXCEPT ![clone[c].cell].revoked = TRUE, ![clone[c].cell].refused = TRUE]
    /\ UNCHANGED <<leaderVars, gatewayVars, clone>>

Call(c) ==
    /\ Idle(c) /\ clone[c].cell # 0
    /\ clone' = [clone EXCEPT ![c].call = "sent"]
    /\ UNCHANGED <<leaderVars, gatewayVars, cells, spent>>

\* What a call that succeeds returns changes nothing at the client
Handle(c) ==
    /\ clone[c].call = "sent"
    /\ IF Verify(cells[clone[c].cell].token)
       THEN /\ Serve
            /\ clone' = [clone EXCEPT ![c].call = "none"]
            /\ UNCHANGED cells
       ELSE /\ clone' = [clone EXCEPT ![c].call = "refused"]
            /\ cells' = [cells EXCEPT ![clone[c].cell].refused = TRUE]
            /\ UNCHANGED <<policy, roster>>
    /\ UNCHANGED <<token, gatewayVars, spent>>

\* The call returns with the refusal or, when something was lost, without
Return(c) ==
    /\ ~Idle(c)
    /\ \/ /\ clone[c].call = "refused"
          /\ cells' = [cells EXCEPT ![clone[c].cell].revoked = TRUE]
       \/ UNCHANGED cells
    /\ clone' = [clone EXCEPT ![c].call = "none"]
    /\ UNCHANGED <<leaderVars, gatewayVars, spent>>

\* auth_rename does not look at what rename of the registry says
Rename(c) ==
    /\ Event /\ Idle(c) /\ clone[c].cell # 0 /\ Verify(cells[clone[c].cell].token)
    /\ RenameEntry
    /\ UNCHANGED <<policy, token, gatewayVars, clientVars>>

Loop == StartGateway \/ FetchToken \/ FetchFails \/ SetMirror \/ SaveMirror

Next ==
    \/ Revoke \/ SetPolicy \/ PanelRename \/ Silence \/ LeaderRestart
    \/ Loop \/ FetchStrategy \/ StopGateway \/ AppCall \/ Rotate
    \/ \E c \in Clones :
         \/ Connect(c) \/ ConnectLost(c) \/ Disconnect(c) \/ MarkRevoked(c)
         \/ Call(c) \/ Handle(c) \/ Return(c) \/ Rename(c)
         \/ \E d \in Clones : Copy(c, d)

Spec == Init /\ [][Next]_vars

\* The loop goes on, and the call it makes again and again gets through some time
FairSpec == Spec /\ WF_vars(Loop) /\ SF_vars(FetchStrategy)

(***************************************************************************)
(* Properties                                                              *)
(***************************************************************************)
\* strategy.rs 95-104, 119-141: when the leader's policy for the machine stays
\* as it is, the mirror becomes equal to it, whatever was lost before, torn in
\* the file or in use under an old token; only a banned member without a token
\* learns nothing
MirrorConverges ==
    <>[](token # 0 \/ ~policy.banned) => <>[](mirror = policy)

\* share_client.rs 98, 198-206: a session is taken for revoked only when a call
\* with this session was refused (or the program said so): a late 401 of a copy
\* that still uses the former session does not touch the new one
RevokedWasRefused ==
    \A n \in Cells : cells[n].revoked => cells[n].refused
===============================================================================
