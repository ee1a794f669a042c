-------------------------------- MODULE Auth --------------------------------
(***************************************************************************)
(* The leader's authentication service (lan-share/src/auth.rs) with the    *)
(* handlers that call it: POST /auth/token and the revoke and unban        *)
(* actions of POST /api/control (lan-share/src/api.rs).                    *)
(*                                                                         *)
(* Every call is cut at its lock operations: a step is what one lock       *)
(* acquisition protects, or one file-system call.  A key (Bearer token) is *)
(* a member of Tokens; what its Session record says is kept in owner and   *)
(* expires, so a table of sessions is a set of keys.  A file stands for    *)
(* what load would read from it: a truncated or garbled file, which load   *)
(* ignores, is the empty set.                                              *)
(***************************************************************************)
EXTENDS Naturals

CONSTANTS Members,   \* machines, the member_id of a session
          Ips,       \* source addresses
          Tokens,    \* the random values gen_token can return
          Clients,   \* concurrent /auth/token calls and verified requests
          Admins,    \* concurrent /api/control calls
          Together,  \* bound: the groups of calls that may be under way at once
          TTL,       \* ttl_secs; 0 means a key never expires
          MaxTime,   \* bound on the clock
          None,      \* owner of a key that was never generated
          NoIp       \* the empty ip string of a control request

ASSUME ConstantsOK == /\ TTL \in Nat /\ MaxTime \in Nat
                      /\ None \notin Members
                      /\ NoIp \notin Ips

VARIABLES sessions,   \* memory: AuthInner.sessions
          banned,     \* memory: AuthInner.banned
          bannedIps,  \* memory: AuthInner.banned_ips
          sessFile,   \* disk: what load_sessions finds before it drops old keys
          banFile,    \* disk: the members and addresses load finds
          owner,      \* Session.member_id of every key ever generated
          expires,    \* Session.expires_at of every key ever generated
          now,        \* now_secs()
          call,       \* the stack frame of each client call
          ctl,        \* the stack frame of each admin call
          retired,    \* history: keys removed by rotations that were saved
          acked,      \* history: machines whose revoke was answered
          torn,       \* history: a crash hit a half-written banned.json
          apart       \* history: no two admin calls have overlapped since a
                      \* restart, or since one began with no other under way

memory == <<sessions, banned, bannedIps>>
disk   == <<sessFile, banFile>>
keys   == <<owner, expires>>
ghosts == <<retired, acked, torn, apart>>
vars   == <<memory, disk, keys, now, call, ctl, ghosts>>

\* u64::MAX: later than any time the clock reaches
Forever == MaxTime + TTL + 1

\* barred: the bans that have held ever since the call began (history)
\* dropped: the keys retain removed in this call (history)
Call == [step    : {"idle", "retain", "dropSave", "dropSaving", "reuse", "ip",
                    "member", "insert", "save", "saving", "ban", "served"},
         member  : Members \cup {None},
         ip      : Ips \cup {NoIp},
         clock   : 0..MaxTime,
         snap    : SUBSET Tokens,
         dropped : SUBSET Tokens,
         barred  : SUBSET {"member", "ip"}]

NoCall == [step |-> "idle", member |-> None, ip |-> NoIp, clock |-> 0,
           snap |-> {}, dropped |-> {}, barred |-> {}]

BanState == [members : SUBSET Members, ips : SUBSET Ips]

Ctl == [step    : {"idle", "ip", "members", "ips", "truncate", "write",
                   "save", "saving"},
        op      : {"none", "revoke", "unban"},
        member  : Members \cup {None},
        ip      : Ips \cup {NoIp},
        bans    : BanState,
        snap    : SUBSET Tokens]

NoBans == [members |-> {}, ips |-> {}]

NoCtl == [step |-> "idle", op |-> "none", member |-> None, ip |-> NoIp,
          bans |-> NoBans, snap |-> {}]

TypeOK ==
    /\ sessions \in SUBSET Tokens
    /\ banned \in SUBSET Members
    /\ bannedIps \in SUBSET Ips
    /\ sessFile \in SUBSET Tokens
    /\ banFile \in BanState
    /\ owner \in [Tokens -> Members \cup {None}]
    /\ expires \in [Tokens -> 0..Forever]
    /\ now \in 0..MaxTime
    /\ call \in [Clients -> Call]
    /\ ctl \in [Admins -> Ctl]
    /\ \A a \in Admins : ctl[a].step = "ip" => ctl[a].ip \in Ips
    /\ retired \in SUBSET Tokens
    /\ acked \in SUBSET Members
    /\ torn \in BOOLEAN
    /\ apart \in BOOLEAN

Init ==
    /\ sessions = {} /\ banned = {} /\ bannedIps = {}
    /\ sessFile = {} /\ banFile = NoBans
    /\ owner = [t \in Tokens |-> None]
    /\ expires = [t \in Tokens |-> 0]
    /\ now = 0
    /\ call = [c \in Clients |-> NoCall]
    /\ ctl = [a \in Admins |-> NoCtl]
    /\ retired = {} /\ acked = {} /\ torn = FALSE /\ apart = TRUE

(***************************************************************************)
(* Helpers                                                                 *)
(***************************************************************************)
KeysOf(m) == {t \in sessions : owner[t] = m}

\* The keys issue hands out again: expires_at > now
Reusable(m) == {t \in KeysOf(m) : expires[t] > now}

Expiry(n) == IF TTL = 0 THEN Forever ELSE n + TTL

\* Mutants of NoReader: saves without a lock; revoke_member saves without one
SavesUnlocked == \A c \in Clients : call[c].step # "ban"
RevokeUnlocked == \A c \in Clients : call[c].step \notin {"dropSaving", "saving", "ban"}

\* A write lock on sessions waits for the read guards that are held across
\* steps: save_sessions keeps its guard over the file write, verify over the
\* ban check.
NoReader ==
    /\ \A c \in Clients : call[c].step \notin {"dropSaving", "saving", "ban"}
    /\ \A a \in Admins : ctl[a].step # "saving"

BansOn(m, i) == {b \in {"member", "ip"} : \/ b = "member" /\ m \in banned
                                          \/ b = "ip" /\ i \in bannedIps}

\* The bound of the calls that overlap
Room(x) ==
    \E group \in Together :
        {c \in Clients : call[c].step # "idle"} \cup {a \in Admins : ctl[a].step # "idle"} \cup {x}
          \subseteq group

NewCall(step, m, i) == [step |-> step, member |-> m, ip |-> i, clock |-> 0,
                        snap |-> {}, dropped |-> {}, barred |-> BansOn(m, i)]

(***************************************************************************)
(* POST /auth/token                                                        *)
(***************************************************************************)
StartCall(c, m, i, step) ==
    /\ call[c].step = "idle" /\ Room(c)
    /\ call' = [call EXCEPT ![c] = NewCall(step, m, i)]
    /\ UNCHANGED <<memory, disk, keys, now, ctl, ghosts>>

\* force = false calls issue, force = true calls rotate
AuthToken(c) == \E m \in Members, i \in Ips, step \in {"reuse", "retain"} :
                    StartCall(c, m, i, step)

\* rotate: sessions.retain under the write lock
Retain(c) ==
    /\ call[c].step = "retain"
    /\ NoReader
    /\ sessions' = sessions \ KeysOf(call[c].member)
    /\ call' = [call EXCEPT ![c].step = "dropSave",
                            ![c].dropped = KeysOf(call[c].member)]
    /\ UNCHANGED <<banned, bannedIps, disk, keys, now, ctl, ghosts>>

\* issue: an unexpired key of the machine is returned as it is
Reuse(c) ==
    /\ call[c].step = "reuse"
    /\ call' = [call EXCEPT ![c] =
                  IF Reusable(call[c].member) # {} THEN NoCall
                  ELSE [@ EXCEPT !.step = "ip", !.clock = now]]
    /\ UNCHANGED <<memory, disk, keys, now, ctl, ghosts>>

\* Mutant: the address is not looked at
IpUnchecked(c) ==
    /\ call[c].step = "ip"
    /\ call' = [call EXCEPT ![c].step = "member"]
    /\ UNCHANGED <<memory, disk, keys, now, ctl, ghosts>>

\* issue: is_banned(ip), then is_member_banned(machine), a lock each
IpCheck(c) ==
    /\ call[c].step = "ip"
    /\ call' = [call EXCEPT ![c] = IF call[c].ip \in bannedIps THEN NoCall
                                   ELSE [@ EXCEPT !.step = "member"]]
    /\ UNCHANGED <<memory, disk, keys, now, ctl, ghosts>>

MemberCheck(c) ==
    /\ call[c].step = "member"
    /\ call' = [call EXCEPT ![c] = IF call[c].member \in banned THEN NoCall
                                   ELSE [@ EXCEPT !.step = "insert"]]
    /\ UNCHANGED <<memory, disk, keys, now, ctl, ghosts>>

\* Mutant: issue returns without save_sessions
InsertUnsaved(c) ==
    /\ call[c].step = "insert"
    /\ NoReader
    /\ \E t \in {u \in Tokens : owner[u] = None} :
         /\ owner' = [owner EXCEPT ![t] = call[c].member]
         /\ expires' = [expires EXCEPT ![t] = Expiry(call[c].clock)]
         /\ sessions' = sessions \cup {t}
    /\ call' = [call EXCEPT ![c] = NoCall]
    /\ UNCHANGED <<banned, bannedIps, disk, now, ctl, ghosts>>

\* issue: a fresh key is inserted under the write lock
Insert(c) ==
    /\ call[c].step = "insert"
    /\ NoReader
    /\ \E t \in {u \in Tokens : owner[u] = None} :
         /\ owner' = [owner EXCEPT ![t] = call[c].member]
         /\ expires' = [expires EXCEPT ![t] = Expiry(call[c].clock)]
         /\ sessions' = sessions \cup {t}
    /\ call' = [call EXCEPT ![c].step = "save", ![c].clock = 0]
    /\ UNCHANGED <<banned, bannedIps, disk, now, ctl, ghosts>>

\* save_sessions takes the read lock, serialises and truncates the file ...
SaveBegin(c) ==
    /\ call[c].step \in {"dropSave", "save"}
    /\ call' = [call EXCEPT ![c].step = IF @ = "save" THEN "saving"
                                        ELSE "dropSaving",
                            ![c].snap = sessions]
    /\ sessFile' = {}
    /\ UNCHANGED <<memory, banFile, keys, now, ctl, ghosts>>

\* ... writes it and drops the lock; rotate goes on with issue
SaveEnd(c) ==
    /\ call[c].step \in {"dropSaving", "saving"}
    /\ sessFile' = call[c].snap
    /\ call' = [call EXCEPT ![c] = IF @.step = "saving" THEN NoCall
                                   ELSE [@ EXCEPT !.step = "reuse", !.snap = {},
                                                  !.dropped = {}]]
    /\ retired' = retired \cup call[c].dropped
    /\ UNCHANGED <<memory, banFile, keys, now, ctl, acked, torn, apart>>

(***************************************************************************)
(* verify, called by every handler that serves a member.  The read guard   *)
(* on sessions is held over the ban check.                                 *)
(***************************************************************************)
VerifyKey(c) ==
    /\ call[c].step = "idle" /\ Room(c)
    /\ \E t \in {u \in sessions : expires[u] >= now} :
         call' = [call EXCEPT ![c] = NewCall("ban", owner[t], NoIp)]
    /\ UNCHANGED <<memory, disk, keys, now, ctl, ghosts>>

\* Mutant: a session that is found is accepted
BanUnchecked(c) ==
    /\ call[c].step = "ban"
    /\ call' = [call EXCEPT ![c].step = "served"]
    /\ UNCHANGED <<memory, disk, keys, now, ctl, ghosts>>

VerifyBan(c) ==
    /\ call[c].step = "ban"
    /\ call' = [call EXCEPT ![c] = IF call[c].member \in banned THEN NoCall
                                   ELSE [@ EXCEPT !.step = "served"]]
    /\ UNCHANGED <<memory, disk, keys, now, ctl, ghosts>>

\* The verified request is answered
Served(c) ==
    /\ call[c].step = "served"
    /\ call' = [call EXCEPT ![c] = NoCall]
    /\ UNCHANGED <<memory, disk, keys, now, ctl, ghosts>>

(***************************************************************************)
(* POST /api/control, actions revoke and unban                             *)
(***************************************************************************)
\* Mutant: an empty address is banned too
AnyIp(a, op, m, i) ==
    /\ ctl[a].step = "idle" /\ Room(a)
    /\ ctl' = [ctl EXCEPT ![a] = [step |-> "ip", op |-> op, member |-> m, ip |-> i,
                                  bans |-> NoBans, snap |-> {}]]

StartCtl(a, op, m, i) ==
    /\ ctl[a].step = "idle" /\ Room(a)
    /\ ctl' = [ctl EXCEPT ![a] = [step |-> IF i = NoIp THEN "members" ELSE "ip",
                                  op |-> op, member |-> m, ip |-> i,
                                  bans |-> NoBans, snap |-> {}]]

\* A call that finds no other under way is apart; what was answered counts no more
\* once two have met
Meet(a, answered) ==
    /\ apart' = \A b \in Admins \ {a} : ctl[b].step = "idle"
    /\ acked' = IF apart' THEN answered ELSE {}

\* A ban that is lifted no longer bars the calls that began under it
LiftMember(m) ==
    call' = [c \in Clients |->
               IF call[c].member = m
               THEN [call[c] EXCEPT !.barred = @ \ {"member"}] ELSE call[c]]

LiftIp(i) ==
    call' = [c \in Clients |->
               IF call[c].ip = i
               THEN [call[c] EXCEPT !.barred = @ \ {"ip"}] ELSE call[c]]

\* revoke_member: banned.insert
Revoke(a) == \E m \in Members, i \in Ips \cup {NoIp} :
    /\ StartCtl(a, "revoke", m, i)
    /\ banned' = banned \cup {m}
    /\ Meet(a, acked)
    /\ UNCHANGED <<sessions, bannedIps, disk, keys, now, call, retired, torn>>

\* Mutant: unban changes memory only
UnbanUnsaved(a) == \E m \in Members :
    /\ ctl[a].step = "idle"
    /\ banned' = banned \ {m}
    /\ Meet(a, acked \ {m})
    /\ LiftMember(m)
    /\ UNCHANGED <<sessions, bannedIps, disk, keys, now, ctl, retired, torn>>

\* unban: banned.remove
Unban(a) == \E m \in Members, i \in Ips \cup {NoIp} :
    /\ StartCtl(a, "unban", m, i)
    /\ banned' = banned \ {m}
    /\ Meet(a, acked \ {m})
    /\ LiftMember(m)
    /\ UNCHANGED <<sessions, bannedIps, disk, keys, now, retired, torn>>

\* Both: banned_ips, only for a non-empty address
CtlIp(a) ==
    /\ ctl[a].step = "ip"
    /\ \/ /\ ctl[a].op = "revoke"
          /\ bannedIps' = bannedIps \cup {ctl[a].ip}
          /\ UNCHANGED call
       \/ /\ ctl[a].op = "unban"
          /\ bannedIps' = bannedIps \ {ctl[a].ip}
          /\ LiftIp(ctl[a].ip)
    /\ ctl' = [ctl EXCEPT ![a].step = "members", ![a].ip = NoIp]
    /\ UNCHANGED <<sessions, banned, disk, keys, now, ghosts>>

\* Mutant: revoke_member saves the sessions and not the bans
SessionsOnly(a) ==
    /\ ctl[a].step = "members"
    /\ ctl' = [ctl EXCEPT ![a] = IF @.op = "unban" THEN NoCtl
                                 ELSE [@ EXCEPT !.step = "save"]]
    /\ UNCHANGED <<memory, disk, keys, now, call, ghosts>>

\* save reads the two lists under a lock each and writes without any lock
SaveMembers(a) ==
    /\ ctl[a].step = "members"
    /\ ctl' = [ctl EXCEPT ![a].step = "ips", ![a].bans.members = banned]
    /\ UNCHANGED <<memory, disk, keys, now, call, ghosts>>

SaveIps(a) ==
    /\ ctl[a].step = "ips"
    /\ ctl' = [ctl EXCEPT ![a].step = "truncate", ![a].bans.ips = bannedIps]
    /\ UNCHANGED <<memory, disk, keys, now, call, ghosts>>

BanFileTruncate(a) ==
    /\ ctl[a].step = "truncate"
    /\ ctl' = [ctl EXCEPT ![a].step = "write"]
    /\ banFile' = NoBans
    /\ UNCHANGED <<memory, sessFile, keys, now, call, ghosts>>

\* Written over what another call wrote since the truncation, the file can be
\* a mix of both that does not parse.  revoke_member goes on to save_sessions.
BanFileWrite(a) ==
    /\ ctl[a].step = "write"
    /\ \/ banFile' = ctl[a].bans
       \/ /\ banFile \notin {NoBans, ctl[a].bans}
          /\ banFile' = NoBans
    /\ ctl' = [ctl EXCEPT ![a] = IF @.op = "unban" THEN NoCtl
                                 ELSE [@ EXCEPT !.step = "save",
                                                !.bans = NoBans]]
    /\ UNCHANGED <<memory, sessFile, keys, now, call, ghosts>>

CtlSaveBegin(a) ==
    /\ ctl[a].step = "save"
    /\ ctl' = [ctl EXCEPT ![a].step = "saving", ![a].snap = sessions]
    /\ sessFile' = {}
    /\ UNCHANGED <<memory, banFile, keys, now, call, ghosts>>

\* The end of a revoke: its caller is told that the machine is banned
CtlSaveEnd(a) ==
    /\ ctl[a].step = "saving"
    /\ sessFile' = ctl[a].snap
    /\ ctl' = [ctl EXCEPT ![a] = NoCtl]
    /\ acked' = IF apart /\ ctl[a].member \in banned THEN acked \cup {ctl[a].member}
                ELSE acked
    /\ UNCHANGED <<memory, banFile, keys, now, call, retired, torn, apart>>

(***************************************************************************)
(* The clock, and a crash with the restart that follows (new_with_store:   *)
(* load, then load_sessions, which drops the keys that have expired)       *)
(***************************************************************************)
Tick ==
    /\ now < MaxTime
    /\ now' = now + 1
    /\ UNCHANGED <<memory, disk, keys, call, ctl, ghosts>>

LoadSessions == {t \in sessFile : expires[t] > now}

Restart ==
    /\ sessions' = LoadSessions
    /\ banned' = banFile.members
    /\ bannedIps' = banFile.ips
    /\ call' = [c \in Clients |-> NoCall]
    /\ ctl' = [a \in Admins |-> NoCtl]
    /\ torn' = (torn \/ \E a \in Admins : ctl[a].step = "write")
    /\ apart' = TRUE
    /\ UNCHANGED <<disk, keys, now, retired, acked>>

-----------------------------------------------------------------------------
ClientStep(c) ==
    \/ AuthToken(c) \/ Retain(c) \/ Reuse(c) \/ IpCheck(c) \/ MemberCheck(c)
    \/ Insert(c) \/ SaveBegin(c) \/ SaveEnd(c)
    \/ VerifyKey(c) \/ VerifyBan(c) \/ Served(c)

AdminStep(a) ==
    \/ Revoke(a) \/ Unban(a) \/ CtlIp(a) \/ SaveMembers(a) \/ SaveIps(a)
    \/ BanFileTruncate(a) \/ BanFileWrite(a) \/ CtlSaveBegin(a) \/ CtlSaveEnd(a)

Operate == (\E c \in Clients : ClientStep(c)) \/ (\E a \in Admins : AdminStep(a))

Next == Operate \/ Tick \/ Restart

Spec == Init /\ [][Next]_vars

(***************************************************************************)
(* Properties                                                              *)
(***************************************************************************)

\* A request is served only if its machine was not banned during the whole of
\* verify: a revoke that returned before the request came stops it, although
\* the key itself is kept in the table.
BannedNeverServed ==
    \A c \in Clients : call[c].step = "served" => "member" \notin call[c].barred

\* "No new key can be issued or rotated" for a banned machine or address: a
\* call that began under a ban never reaches the insertion of a key, whatever
\* other calls, bans and lifted bans come between its three checks.
BannedNeverGranted ==
    \A c \in Clients : call[c].step \in {"insert", "save", "saving"} =>
                           call[c].barred = {}

\* The keys that a rotation dropped are dead once the rotation has saved the
\* table: neither another call that was saving at the time nor a restart
\* brings one back.
RetiredStaysDead == retired \cap (sessions \cup sessFile) = {}

\* No call is between a change of the table and the end of its save
SessionsSettled ==
    /\ \A c \in Clients : call[c].step \notin {"dropSave", "dropSaving",
                                               "save", "saving"}
    /\ \A a \in Admins : ctl[a].step # "saving"

\* Keys survive a restart: when no save is pending, sessions.json holds every
\* key of the table, and beyond them only keys that are past their time.
KeysDurable ==
    SessionsSettled => /\ sessions \subseteq sessFile
                       /\ \A t \in sessFile \ sessions : expires[t] <= now

BansSettled == \A a \in Admins : ctl[a].step \in {"idle", "save", "saving"}

\* auth.rs 122-203, api.rs 369-401: the black list is persistent: when no revoke or
\* unban is before the end of its save, banned.json says what memory says.  Two calls
\* that overlap can leave it otherwise, their saves in the opposite order or mixed
\* up; the next call that meets no other, or a restart, makes it good.
BansDurable ==
    apart /\ BansSettled => banFile = [members |-> banned, ips |-> bannedIps]

\* api.rs 376-382: a ban that was answered holds until an unban of it begins, or two
\* calls overlap, over restarts too
AckedBanHolds == acked \subseteq banned

\* The same, where no crash hit banned.json between truncation and write
AckedBanHoldsUntorn == torn \/ AckedBanHolds

(***************************************************************************)
(* Why a banned machine is refused: a ban that has held since the call     *)
(* began is still in the table when the call comes to the check of it.     *)
(***************************************************************************)
BarredStill ==
    \A c \in Clients : /\ "member" \in call[c].barred => call[c].member \in banned
                       /\ "ip" \in call[c].barred => call[c].ip \in bannedIps

IpPassed == \A c \in Clients : call[c].step = "member" => "ip" \notin call[c].barred

BanInv == BarredStill /\ IpPassed /\ BannedNeverServed /\ BannedNeverGranted

(***************************************************************************)
(* Why the life of a key is one-way: the read lock held over a save keeps  *)
(* what is written equal to the table, and generated keys are fresh.       *)
(***************************************************************************)
SnapFresh ==
    /\ \A c \in Clients : call[c].step \in {"dropSaving", "saving"} =>
                               call[c].snap = sessions
    /\ \A a \in Admins : ctl[a].step = "saving" => ctl[a].snap = sessions

KeysKnown == \A t \in sessions \cup sessFile \cup retired : owner[t] # None

DroppedGone ==
    \A c \in Clients :
        /\ \A t \in call[c].dropped : owner[t] # None /\ t \notin sessions
        /\ call[c].step \notin {"dropSave", "dropSaving"} => call[c].dropped = {}

CallNamed == \A c \in Clients : call[c].step # "idle" => call[c].member # None

KeyInv == SnapFresh /\ KeysKnown /\ CallNamed /\ DroppedGone /\ RetiredStaysDead

(***************************************************************************)
(* What the service promises about one key: KeyLifecycle, where a key is   *)
(* alive while memory or the file holds it.                                *)
(***************************************************************************)
Lifecycle == INSTANCE KeyLifecycle WITH alive <- sessions \cup sessFile,
                                        Times <- 0..Forever
KeysLiveOnce == Lifecycle!Spec
=============================================================================
