------------------------------- MODULE Gateway -------------------------------
(***************************************************************************)
(* A member's gateway (lan-client/src/gateway.rs) finds a leader by its    *)
(* broadcasts (discovery.rs, lan-share/src/broadcast.rs) or by a deep link *)
(* and forwards requests to it; the leader's middleware                    *)
(* (lan-share/src/link.rs) decrypts them under the link policy, which the  *)
(* panel changes (api.rs 422-434) and a file keeps.                        *)
(*                                                                         *)
(* A body is "plain", "cipher" (gzip and AES-GCM under the key both sides  *)
(* derive from the bearer token, which is one here) or "none" (GET).  Time *)
(* is counted in broadcast intervals.                                      *)
(***************************************************************************)
EXTENDS Naturals

CONSTANTS Lan,          \* leaders of the local network, in the order of ids
          Deep,         \* leaders a deep link leads to
          Requests,
          Modes,        \* the link modes in play
          Configured,   \* a leader's mode when there is no policy file
          Threshold,    \* intervals a leader counts as online unheard
          MaxCalls,     \* bound: policy calls at a leader
          MaxCrash,     \* bound: crashes
          None

ASSUME GatewayConstants ==
    /\ Lan \subseteq Nat
    /\ Modes \subseteq {"off", "aes-gcm", "enforce", "tls"}
    /\ {"off", Configured} \subseteq Modes
    /\ Threshold \in Nat /\ MaxCalls \in Nat /\ MaxCrash \in Nat
    /\ None \notin Lan \cup Deep
    /\ None \notin Nat

VARIABLES leader,   \* each leader's program and its link-encrypt.json
          calls,    \* the handlers of link-encrypt, at the deep-link leaders
          acked,    \* ghost: the last policy call was answered, alone and
                    \* stored, and asked to enforce
          heard,    \* DiscoveryClient.leaders: intervals since last_seen
          static,   \* MemberGateway.static_leader
          mode,     \* MemberGateway.encrypt
          req,      \* the requests of the apps and of the strategy loop
          crashes

leaderVars == <<leader, calls, acked, crashes>>
memberVars == <<heard, static, mode>>
vars == <<leaderVars, memberVars, req>>

Leaders == Lan \cup Deep

Calls == 1..MaxCalls

Paths == {"/auth/token", "/v1/models", "/v1/chat/completions", "/api/strategy/me"}

Exempt == {"/auth/token"}

IsPost(path) == path \in {"/auth/token", "/v1/chat/completions"}

IsModel(path) == path \in {"/v1/models", "/v1/chat/completions"}

\* What the callers of proxy pass as authorization: the app's header or the
\* strategy loop's own token
Auths(path) == CASE path = "/v1/chat/completions" -> {TRUE, FALSE}
                 [] path = "/api/strategy/me" -> {TRUE}
                 [] OTHER -> {FALSE}

NoRequest == [phase |-> "idle", path |-> None, token |-> FALSE, leader |-> None,
              by |-> None, enc |-> FALSE, body |-> "none", strict |-> FALSE,
              status |-> 0, answer |-> "none"]

\* What a policy file may hold: nothing after a truncation, and a mixture
\* when two calls write at once
Texts == Modes \cup {"empty", "mixed", "absent"}

Bodies == {"plain", "cipher", "none"}

\* A leader's program: does it run, does it broadcast, link_policy and its file
ShareServer == [up : BOOLEAN, announcing : BOOLEAN, policy : Modes, file : Texts]

\* A policy call. sound: it is alone so far, and has written the file
PolicyCall == [pc : {"none", "truncate", "write", "set", "done"},
               policy : Modes, sound : BOOLEAN]

\* The age of a leader's last broadcast; all beyond the threshold is one
Ages == 0..(Threshold + 1) \cup {None}

StaticLeaders == Deep \cup {None}

\* A call of proxy: what it was given, the leader and how it was picked, what
\* is sent, and what comes back. strict: see EnforceHolds
ProxyCall == [phase : {"idle", "arrived", "picked", "sent", "handling", "replied",
                       "dropped", "answered"},
              path : Paths \cup {None}, token : BOOLEAN, leader : Leaders \cup {None},
              by : {"static", "lan", None}, enc : BOOLEAN, body : Bodies,
              strict : BOOLEAN, status : {0, 200, 400, 426, 503}, answer : Bodies]

TypeOK ==
    /\ leader \in [Leaders -> ShareServer]
    /\ calls \in [Deep \X Calls -> PolicyCall]
    /\ acked \in [Leaders -> BOOLEAN]
    /\ heard \in [Lan -> Ages]
    /\ static \in StaticLeaders
    /\ mode \in Modes
    /\ req \in [Requests -> ProxyCall]
    /\ \A r \in Requests :
         req[r].phase \in {"picked", "sent", "handling", "replied"} => req[r].leader \in Leaders
    /\ crashes \in 0..MaxCrash

\* LinkEncryptMode::parse: whatever it does not know is off
Parse(text) == IF text \in Modes THEN text ELSE "off"

\* Mutant: the file is written and never read
AssembledAnew(file) == Configured

Assembled(file) == IF file = "absent" THEN Configured ELSE Parse(file)


UnderWay(c) == calls[c].pc \in {"truncate", "write", "set"}
Done == [pc |-> "done", policy |-> "off", sound |-> FALSE]

Init ==
    /\ leader = [l \in Leaders |-> [up |-> TRUE, announcing |-> TRUE,
                                    policy |-> Configured, file |-> "absent"]]
    /\ calls = [c \in Deep \X Calls |-> [pc |-> "none", policy |-> "off", sound |-> FALSE]]
    /\ acked = [l \in Leaders |-> FALSE]
    /\ heard = [l \in Lan |-> None]
    /\ static = None
    /\ mode \in Modes
    /\ req = [r \in Requests |-> NoRequest]
    /\ crashes = 0

(***************************************************************************)
(* Leaders: start and end, broadcasts                                      *)
(***************************************************************************)
\* ShareServer::assemble and BroadcastService::start; a socket that cannot
\* be bound ends the broadcast and nothing else
StartLeader(l) ==
    /\ ~leader[l].up
    /\ \E bound \in BOOLEAN :
         leader' = [leader EXCEPT ![l].up = TRUE, ![l].announcing = bound,
                                  ![l].policy = Assembled(leader[l].file)]
    /\ UNCHANGED <<calls, acked, crashes, memberVars, req>>

StopLeader(l) ==
    /\ leader[l].up /\ crashes < MaxCrash
    /\ leader' = [leader EXCEPT ![l].up = FALSE, ![l].announcing = FALSE]
    /\ calls' = [c \in DOMAIN calls |->
                  IF c[1] = l /\ UnderWay(c) THEN Done ELSE calls[c]]
    /\ req' = [r \in Requests |->
                 IF req[r].phase = "handling" /\ req[r].leader = l
                 THEN [req[r] EXCEPT !.phase = "dropped"] ELSE req[r]]
    /\ crashes' = crashes + 1
    /\ UNCHANGED <<acked, memberVars>>

HandleAnnounce(l) == [heard EXCEPT ![l] = 0]

\* A broadcast that arrives; one that is lost is a step not taken
Announce(l) ==
    /\ leader[l].announcing
    /\ heard' = HandleAnnounce(l)
    /\ UNCHANGED <<leaderVars, static, mode, req>>

Tick ==
    /\ heard' = [l \in Lan |-> IF heard[l] \in 0..Threshold THEN heard[l] + 1 ELSE heard[l]]
    /\ UNCHANGED <<leaderVars, static, mode, req>>

(***************************************************************************)
(* The panel's call that changes the policy: file, then memory             *)
(***************************************************************************)
LinkEncrypt(l, n) ==
    /\ leader[l].up /\ calls[<<l, n>>].pc = "none"
    /\ \A m \in Calls : m < n => calls[<<l, m>>].pc # "none"
    /\ \E text \in Modes \cup {"mixed"} :
         calls' = [c \in DOMAIN calls |->
                     IF c = <<l, n>>
                     THEN [pc |-> "truncate", policy |-> Parse(text),
                           sound |-> \A m \in Calls : ~UnderWay(<<l, m>>)]
                     ELSE IF c[1] = l THEN [calls[c] EXCEPT !.sound = FALSE] ELSE calls[c]]
    /\ acked' = [acked EXCEPT ![l] = FALSE]
    /\ UNCHANGED <<leader, crashes, memberVars, req>>

\* fs::write opens and truncates first; its errors are ignored
Truncate(l, n) ==
    /\ calls[<<l, n>>].pc = "truncate"
    /\ \/ /\ leader' = [leader EXCEPT ![l].file = "empty"]
          /\ calls' = [calls EXCEPT ![<<l, n>>].pc = "write"]
       \/ /\ calls' = [calls EXCEPT ![<<l, n>>].pc = "set", ![<<l, n>>].sound = FALSE]
          /\ UNCHANGED leader
    /\ UNCHANGED <<acked, crashes, memberVars, req>>

\* A short label leaves the end of a longer one that another call has written
Overwrite(old, new) ==
    IF new \in {"off", "tls"} /\ old \in {"aes-gcm", "enforce"} THEN "mixed" ELSE new

Write(l, n) ==
    /\ calls[<<l, n>>].pc = "write"
    /\ \/ /\ leader' = [leader EXCEPT ![l].file = Overwrite(leader[l].file, calls[<<l, n>>].policy)]
          /\ calls' = [calls EXCEPT ![<<l, n>>].pc = "set"]
       \/ /\ calls' = [calls EXCEPT ![<<l, n>>].pc = "set", ![<<l, n>>].sound = FALSE]
          /\ UNCHANGED leader
    /\ UNCHANGED <<acked, crashes, memberVars, req>>

SetPolicy(l, n) ==
    /\ calls[<<l, n>>].pc = "set"
    /\ leader' = [leader EXCEPT ![l].policy = calls[<<l, n>>].policy]
    /\ acked' = [acked EXCEPT ![l] = calls[<<l, n>>].policy = "enforce" /\ calls[<<l, n>>].sound]
    /\ calls' = [calls EXCEPT ![<<l, n>>] = Done]
    /\ UNCHANGED <<crashes, memberVars, req>>

(***************************************************************************)
(* The member's gateway                                                    *)
(***************************************************************************)
\* Mutant: a tunnel that closes takes the static leader away
SetOrClearStatic ==
    /\ \E l \in Deep \cup {None} : static # l /\ static' = l
    /\ UNCHANGED <<leaderVars, heard, mode, req>>

\* The join task of a deep link (see Punch); nothing takes it back
SetStaticLeader ==
    /\ \E l \in Deep : static # l /\ static' = l
    /\ UNCHANGED <<leaderVars, heard, mode, req>>

Online == {l \in Lan : heard[l] \in 0..Threshold}

Latest == {l \in Online : \A k \in Online : heard[l] <= heard[k]}

\* Mutant: last_seen is never compared with the threshold
PickEver ==
    IF static # None THEN static
    ELSE IF \E l \in Lan : heard[l] # None
         THEN CHOOSE l \in Lan : heard[l] # None /\ \A k \in Lan : heard[k] # None => heard[l] <= heard[k]
         ELSE None

PickLeader ==
    IF static # None THEN static
    ELSE IF Online = {} THEN None
    ELSE CHOOSE l \in Latest : \A k \in Latest : l <= k

LinkEncrypts == mode # "off" /\ static # None

\* What the app has, and what the handler was given
Answered(q, status, answer) ==
    [q EXCEPT !.phase = "answered", !.status = status, !.answer = answer,
              !.leader = None, !.by = None, !.token = FALSE]

Request(r) ==
    /\ req[r].phase \in {"idle", "answered"}
    /\ \E path \in Paths : \E token \in Auths(path) :
         req' = [req EXCEPT ![r] = [NoRequest EXCEPT !.phase = "arrived", !.path = path, !.token = token]]
    /\ UNCHANGED <<leaderVars, memberVars>>

Pick(r) ==
    /\ req[r].phase = "arrived"
    /\ req' = [req EXCEPT ![r] =
         IF PickLeader = None
         THEN Answered(req[r], 503, "plain")
         ELSE [req[r] EXCEPT !.phase = "picked", !.leader = PickLeader,
                             !.by = IF static # None THEN "static" ELSE "lan"]]
    /\ UNCHANGED <<leaderVars, memberVars>>

\* static_leader is read a second time, after the leader was picked
Send(r) ==
    /\ req[r].phase = "picked"
    /\ LET enc == LinkEncrypts /\ req[r].path \notin Exempt /\ req[r].token
       IN  req' = [req EXCEPT ![r].phase = "sent", ![r].enc = enc,
                              ![r].body = IF ~IsPost(req[r].path) THEN "none"
                                          ELSE IF enc THEN "cipher" ELSE "plain"]
    /\ UNCHANGED <<leaderVars, memberVars>>

(***************************************************************************)
(* The leader's middleware and handler                                     *)
(***************************************************************************)
Refuses(policy, r) ==
    ~req[r].enc /\ policy = "enforce" /\ IsModel(req[r].path) /\ req[r].path \notin Exempt

Decrypts(policy, r) == req[r].enc /\ req[r].path \notin Exempt /\ policy # "off"

\* The middleware reads the policy once.  What it decrypts it also encrypts
\* the answer of: enc is kept for that, and dropped when it is off.
Receive(r) ==
    LET l == req[r].leader
        q == [req[r] EXCEPT !.strict = acked[req[r].leader]]
    IN  /\ req[r].phase = "sent" /\ leader[l].up
        /\ req' = [req EXCEPT ![r] =
             IF Refuses(leader[l].policy, r)
             THEN [q EXCEPT !.phase = "replied", !.status = 426, !.answer = "plain"]
             ELSE IF Decrypts(leader[l].policy, r)
             THEN [q EXCEPT !.phase = "handling", !.answer = "cipher",
                            !.body = IF q.body = "cipher" THEN "plain" ELSE q.body]
             ELSE [q EXCEPT !.phase = "handling", !.answer = "plain"]]
        /\ UNCHANGED <<leaderVars, memberVars>>

\* Mutant: the policy is read again when the answer comes
ReplyByPolicy(r) ==
    /\ req[r].phase = "handling" /\ leader[req[r].leader].up
    /\ req' = [req EXCEPT ![r].phase = "replied",
                          ![r].status = IF req[r].body = "cipher" THEN 400 ELSE 200,
                          ![r].answer = IF req[r].enc /\ leader[req[r].leader].policy # "off"
                                        THEN "cipher" ELSE "plain"]
    /\ UNCHANGED <<leaderVars, memberVars>>

\* The handler parses the body; 200 stands for all it answers to one it can read
Reply(r) ==
    /\ req[r].phase = "handling" /\ leader[req[r].leader].up
    /\ req' = [req EXCEPT ![r].phase = "replied",
                          ![r].status = IF req[r].body = "cipher" THEN 400 ELSE 200]
    /\ UNCHANGED <<leaderVars, memberVars>>

\* A sealed answer says so in its header.  The gateway opens it with the key it has
\* sealed the request with; without one it fails and the app gets an error.
\* What is not sealed is passed on as it is.
Opened(q) ==
    IF q.answer # "cipher" THEN Answered(q, q.status, q.answer)
    ELSE IF q.enc THEN Answered(q, q.status, "plain")
    ELSE Answered(q, 503, "plain")

Answer(r) ==
    /\ req[r].phase = "replied"
    /\ req' = [req EXCEPT ![r] = Opened(req[r])]
    /\ UNCHANGED <<leaderVars, memberVars>>

\* The connection breaks, or 120 seconds pass
Fail(r) ==
    /\ req[r].phase \in {"sent", "handling", "replied", "dropped"}
    /\ req' = [req EXCEPT ![r] = Answered(@, 503, "plain")]
    /\ UNCHANGED <<leaderVars, memberVars>>

MemberStep(r) == Pick(r) \/ Send(r) \/ Answer(r)

Next ==
    \/ \E l \in Leaders : StartLeader(l) \/ StopLeader(l)
    \/ \E l \in Lan : Announce(l)
    \/ \E l \in Deep, n \in Calls :
         LinkEncrypt(l, n) \/ Truncate(l, n) \/ Write(l, n) \/ SetPolicy(l, n)
    \/ Tick \/ SetStaticLeader
    \/ \E r \in Requests : Request(r) \/ MemberStep(r) \/ Receive(r) \/ Reply(r) \/ Fail(r)

Spec == Init /\ [][Next]_vars

\* Time passes, and the member's tasks go on
FairSpec ==
    /\ Spec
    /\ WF_vars(Tick)
    /\ \A r \in Requests : WF_vars(MemberStep(r)) /\ WF_vars(Fail(r))

(***************************************************************************)
(* Properties                                                              *)
(***************************************************************************)
\* gateway.rs 107, 124: between picking the leader and asking again whether there
\* is a static one, and whatever the join task does meanwhile, no request that
\* carries a token, and no body of one, goes to the other network in the clear
\* when the member encrypts.  (The exchange of a token, and what an app sends
\* without one, is never sealed.)
StaticIsEncrypted ==
    \A r \in Requests :
      /\ req[r].phase \in {"sent", "handling", "replied"} /\ req[r].by = "static"
      /\ mode # "off" /\ req[r].token
      => req[r].enc

\* link.rs 58-118: the panel may change the policy, to off too, while a handler works
\* on a request that came sealed.  What was opened for the handler is still
\* answered sealed, and nobody gets a sealed answer who has no key to open it.
OpenedIsSealed ==
    \A r \in Requests :
      req[r].phase = "replied" =>
        /\ req[r].enc /\ req[r].body = "plain" => req[r].answer = "cipher"
        /\ req[r].answer = "cipher" => req[r].enc

\* api.rs 422-434, server.rs 78-82: once the panel was told that the policy
\* enforces (and the file could be written, no other call was under way and
\* none has come since), no model request in the clear is handled: not by this
\* program, and not after a crash by the next
EnforceHolds ==
    \A r \in Requests :
      /\ req[r].strict /\ IsModel(req[r].path)
      /\ req[r].phase = "handling" \/ req[r].status = 200
      => req[r].enc

\* discovery.rs 120-130, gateway.rs 79-87: a leader that falls silent for good
\* is left: in the end no request goes to it
SilentLeaderIsLeft ==
    \A l \in Lan :
      <>[](~leader[l].announcing)
      => <>[](\A r \in Requests : req[r].phase # "answered" => req[r].leader # l)
=============================================================================
