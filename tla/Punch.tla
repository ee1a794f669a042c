-------------------------------- MODULE Punch --------------------------------
(***************************************************************************)
(* Joining a leader across networks: members (lan-client/src/p2p.rs, the   *)
(* join task of cli/src/main.rs) and the leader's session                  *)
(* (lan-share/src/p2p.rs) exchange candidates through the mailboxes of the *)
(* coordination server (coord-client/src/device.rs, external), punch       *)
(* (punch/src/punch.rs), and carry QUIC over the punched socket (quic.rs,  *)
(* tunnel.rs).                                                             *)
(*                                                                         *)
(* Datagrams are lost at will, and a timeout may come at any time.  A      *)
(* socket is named by the join it was bound for.                           *)
(***************************************************************************)
EXTENDS Naturals, Sequences, FiniteSets

CONSTANTS Members,
          Near,      \* members in the leader's network: local candidates do
          MaxTry,    \* bound: how often a member's program is started
          MaxCrash,  \* bound: crashes of the leader
          MaxNet,    \* bound: datagrams under way
          Stun,      \* the address of the STUN server
          None

ASSUME PunchConstants ==
    /\ Near \subseteq Members
    /\ MaxTry \in Nat /\ MaxCrash \in Nat /\ MaxNet \in Nat
    /\ Stun # None

VARIABLES member,   \* the join task of each member's program
          tcp,      \* a connection to the member's local port
          mail,     \* the server's mailbox of each member
          inbox,    \* the server's mailbox of the leader
          leader,   \* the stack frame of run_leader_punch
          ends,     \* joins whose leader socket carries a QUIC endpoint
          files,    \* punch-cert.der and punch-key.der; 0: missing or empty;
                    \* lost (history): a write of them has failed
          net,      \* datagrams under way
          crashes

memberVars == <<member, tcp>>
leaderVars == <<leader, ends, files, crashes>>
vars == <<memberVars, mail, inbox, leaderVars, net>>

Certs == 1..(MaxCrash + 1)

\* A join: whose it is, the how manieth start of the program, the share id
\* (the one of a start: the server may keep it or give another one)
Join == [of : Members, try : 1..MaxTry, id : 1..MaxTry]

Candidates == {{"local"}, {"local", "mapped"}}

\* SignalMessage: what a member posts, and what the leader answers
Message == [join : Join, cands : Candidates]

Reply == [join : Join, cands : Candidates, fp : Certs]

\* The placeholder is no message
ASSUME PunchPlaceholder == None \notin Reply

Addresses == [side : {"member", "leader"}, join : Join] \cup {Stun}

At(side, j) == [side |-> side, join |-> j]

Datagram == [from : Addresses, to : Addresses]

Waiting == {"resolve", "post", "wait", "punch", "shake", "bound"}

Serving == {"pull", "batch", "reply", "punch"}

Writing == {"load", "cert", "certWrite", "key", "keyWrite"}

\* The join task of a member's program. via: the static leader; conn: the QUIC
\* connection is there
JoinTask == [pc : {"down", "failed", "up"} \cup Waiting, try : 0..MaxTry, id : 0..MaxTry,
             reply : Reply \cup {None}, peer : Addresses \cup {None},
             via : {None, "direct", "tunnel"}, conn : BOOLEAN]

\* The leader's session: the pair it serves with, the messages pulled, the members
\* that have a tunnel
Session == [pc : {"down"} \cup Serving \cup Writing,
            cert : Certs \cup {0}, key : Certs \cup {0},
            batch : Seq(Message), tunnels : SUBSET (Members \X (1..MaxTry))]

Pair == [cert : Certs \cup {0}, key : Certs \cup {0}, lost : BOOLEAN]

\* A task and the connection to its local port
JoinOK(k, t) ==
    /\ k.pc # "down" => k.try # 0 /\ k.id # 0
    /\ k.pc \in {"punch", "shake", "bound", "up"} => k.reply # None
    /\ k.conn = TRUE => k.pc \in {"bound", "up"}
    /\ t # "none" => k.pc = "up"

TypeOK ==
    /\ member \in [Members -> JoinTask]
    /\ tcp \in [Members -> {"none", "accepted", "opened", "bridged"}]
    /\ \A m \in Members : JoinOK(member[m], tcp[m])
    /\ mail \in [Members -> Seq(Reply)]
    /\ inbox \in Seq(Message)
    /\ leader \in Session
    /\ leader.pc = "punch" => leader.batch # <<>>
    /\ ends \subseteq Join
    /\ files \in Pair
    /\ net \subseteq Datagram
    /\ crashes \in 0..MaxCrash

Stopped(m) == [member[m] EXCEPT !.pc = "down", !.reply = None, !.peer = None,
                                !.via = None, !.conn = FALSE]

Init ==
    /\ member = [m \in Members |-> [pc |-> "down", try |-> 0, id |-> 0, reply |-> None,
                                    peer |-> None, via |-> None, conn |-> FALSE]]
    /\ tcp = [m \in Members |-> "none"]
    /\ mail = [m \in Members |-> <<>>]
    /\ inbox = <<>>
    /\ leader = [pc |-> "down", cert |-> 0, key |-> 0, batch |-> <<>>, tunnels |-> {}]
    /\ ends = {}
    /\ files = [cert |-> 0, key |-> 0, lost |-> FALSE]
    /\ net = {}
    /\ crashes = 0

This(m) == [of |-> m, try |-> member[m].try, id |-> member[m].id]

Goes(m, pc) == member' = [member EXCEPT ![m].pc = pc]

LeaderGoes(pc) == leader' = [leader EXCEPT !.pc = pc]

(***************************************************************************)
(* The mailboxes, and sockets                                              *)
(***************************************************************************)
\* signal_push: an error may also come after the server has the message
SignalPush(box, msg) == {[box |-> Append(box, msg), ok |-> TRUE],
                         [box |-> Append(box, msg), ok |-> FALSE],
                         [box |-> box, ok |-> FALSE]}

\* signal_pull: the server deletes what it hands out; the answer may be lost
SignalPull(box) == {box, <<>>}

InBounds == Cardinality(net) < MaxNet

\* A probe goes to every candidate: only a mapped address is reached from
\* another network
Probes(from, to, cands) ==
    IF "mapped" \in cands \/ to.join.of \in Near THEN {[from |-> from, to |-> to]} ELSE {}

\* The candidates of a new socket: the STUN server answers in time, or not at
\* all, or late
Gather(socket, cands) ==
    \/ UNCHANGED net
    \/ cands = {"local"} /\ net' = net \cup {[from |-> Stun, to |-> socket]}

\* What punch does with the first datagram it receives: a probe is echoed
Heard(socket, from) ==
    /\ [from |-> from, to |-> socket] \in net
    /\ net' = (net \ {[from |-> from, to |-> socket]})
                \cup IF from = Stun THEN {} ELSE {[from |-> socket, to |-> from]}

(***************************************************************************)
(* A member: register, resolve, punch_join                                 *)
(***************************************************************************)
\* The server knows the device again, or gives it another share id
Register(m) == {member[m].id, member[m].try + 1} \ {0}

\* The program starts and registers; under another share id it has another
\* mailbox
Start(m) ==
    /\ member[m].pc = "down"
    /\ member[m].try < MaxTry
    /\ \E id \in Register(m) :
         /\ member' = [member EXCEPT ![m].pc = "resolve", ![m].try = @ + 1, ![m].id = id]
         /\ mail' = IF id = member[m].id THEN mail ELSE [mail EXCEPT ![m] = <<>>]
    /\ UNCHANGED <<tcp, inbox, leaderVars, net>>

\* The static leader is the resolved address until there is a tunnel
Resolve(m) ==
    /\ member[m].pc = "resolve"
    /\ \/ member' = [member EXCEPT ![m].pc = "post", ![m].via = "direct"]
       \/ Goes(m, "failed")
    /\ UNCHANGED <<tcp, mail, inbox, leaderVars, net>>

\* A socket is bound, its candidates are gathered and posted
Post(m) ==
    /\ member[m].pc = "post"
    /\ \E cands \in Candidates :
         /\ Gather(At("member", This(m)), cands)
         /\ \E push \in SignalPush(inbox, [join |-> This(m), cands |-> cands]) :
              /\ inbox' = push.box
              /\ Goes(m, IF push.ok THEN "wait" ELSE "failed")
    /\ UNCHANGED <<tcp, mail, leaderVars>>

\* Only the first of the messages pulled is used
Pull(m) ==
    /\ member[m].pc = "wait"
    /\ mail[m] # <<>>
    /\ mail' = [mail EXCEPT ![m] = <<>>]
    /\ \E got \in SignalPull(mail[m]) :
         member' = IF got = <<>> THEN member
                   ELSE [member EXCEPT ![m].pc = "punch", ![m].reply = Head(got)]
    /\ UNCHANGED <<tcp, inbox, leaderVars, net>>

Probe(m) ==
    /\ member[m].pc = "punch"
    /\ InBounds
    /\ LET r == member[m].reply
       IN  net' = net \cup Probes(At("member", This(m)), At("leader", r.join), r.cands)
    /\ UNCHANGED <<memberVars, mail, inbox, leaderVars>>

Hear(m) ==
    /\ member[m].pc = "punch"
    /\ \E a \in Addresses :
         /\ Heard(At("member", This(m)), a)
         /\ member' = [member EXCEPT ![m].pc = "shake", ![m].peer = a]
    /\ UNCHANGED <<tcp, mail, inbox, leaderVars>>

\* FingerprintVerifier: the certificate has the fingerprint received, and the
\* handshake is signed with its key
Trusted(fp) == fp = leader.cert /\ leader.cert = leader.key

\* The QUIC handshake needs the leader's endpoint on that address and a
\* certificate it trusts
Accepted(m) ==
    /\ member[m].peer # Stun
    /\ member[m].peer.join \in ends
    /\ Trusted(member[m].reply.fp)

Shake(m) ==
    /\ member[m].pc = "shake"
    /\ Accepted(m)
    /\ member' = [member EXCEPT ![m].pc = "bound", ![m].conn = TRUE]
    /\ UNCHANGED <<tcp, mail, inbox, leaderVars, net>>

\* The local port is bound, or not; the proxy is switched to it
Switch(m) ==
    /\ member[m].pc = "bound"
    /\ \/ member' = [member EXCEPT ![m].pc = "up", ![m].via = "tunnel"]
       \/ member' = [member EXCEPT ![m].pc = "failed", ![m].conn = FALSE]
    /\ UNCHANGED <<tcp, mail, inbox, leaderVars, net>>

\* Mutant: the wait for the reply has no deadline
TimeOutLate(m) ==
    /\ member[m].pc \in {"punch", "shake"}
    /\ Goes(m, "failed")
    /\ UNCHANGED <<tcp, mail, inbox, leaderVars, net>>

\* The deadlines of the wait for the reply, of punch and of the handshake
TimeOut(m) ==
    /\ member[m].pc \in {"wait", "punch", "shake"}
    /\ Goes(m, "failed")
    /\ UNCHANGED <<tcp, mail, inbox, leaderVars, net>>

\* The program ends; its socket and its connection are gone
Stop(m) ==
    /\ member[m].pc # "down"
    /\ member' = [member EXCEPT ![m] = Stopped(m)]
    /\ tcp' = [tcp EXCEPT ![m] = "none"]
    /\ UNCHANGED <<mail, inbox, leaderVars, net>>

(***************************************************************************)
(* The tunnel: a TCP connection to the local port is one QUIC stream       *)
(***************************************************************************)
LoseConnection(m) ==
    /\ member[m].conn
    /\ member' = [member EXCEPT ![m].conn = FALSE]
    /\ UNCHANGED <<tcp, mail, inbox, leaderVars, net>>

\* The local port is served as long as the program runs, also without a
\* connection
Accept(m) ==
    /\ member[m].pc = "up"
    /\ tcp[m] = "none"
    /\ tcp' = [tcp EXCEPT ![m] = "accepted"]
    /\ UNCHANGED <<member, mail, inbox, leaderVars, net>>

OpenBi(m) ==
    /\ tcp[m] = "accepted"
    /\ tcp' = [tcp EXCEPT ![m] = IF member[m].conn THEN "opened" ELSE "none"]
    /\ UNCHANGED <<member, mail, inbox, leaderVars, net>>

\* The leader connects to its share port and copies; or one side is gone
Bridge(m) ==
    /\ tcp[m] = "opened"
    /\ \/ /\ member[m].conn
          /\ member[m].peer.join \in ends
          /\ tcp' = [tcp EXCEPT ![m] = "bridged"]
       \/ tcp' = [tcp EXCEPT ![m] = "none"]
    /\ UNCHANGED <<member, mail, inbox, leaderVars, net>>

Unbridge(m) ==
    /\ tcp[m] = "bridged"
    /\ tcp' = [tcp EXCEPT ![m] = "none"]
    /\ UNCHANGED <<member, mail, inbox, leaderVars, net>>

(***************************************************************************)
(* The leader: load_or_generate, then run_leader_punch                     *)
(***************************************************************************)
\* The session runs once the leader is registered
LeaderRegister ==
    /\ leader.pc = "down"
    /\ leader' = [leader EXCEPT !.pc = "load"]
    /\ UNCHANGED <<memberVars, mail, inbox, ends, files, net, crashes>>

\* Mutant: the pair is new only if both files are missing
LoadEither ==
    /\ leader.pc = "load"
    /\ IF files.cert # 0 \/ files.key # 0
       THEN leader' = [leader EXCEPT !.pc = "pull", !.cert = files.cert, !.key = files.key]
       ELSE leader' = [leader EXCEPT !.pc = "cert", !.cert = crashes + 1, !.key = crashes + 1]
    /\ UNCHANGED <<memberVars, mail, inbox, ends, files, net, crashes>>

\* A new pair unless both files have content
LoadOrGenerate ==
    /\ leader.pc = "load"
    /\ IF files.cert # 0 /\ files.key # 0
       THEN leader' = [leader EXCEPT !.pc = "pull", !.cert = files.cert, !.key = files.key]
       ELSE leader' = [leader EXCEPT !.pc = "cert", !.cert = crashes + 1, !.key = crashes + 1]
    /\ UNCHANGED <<memberVars, mail, inbox, ends, files, net, crashes>>

\* Each fs::write truncates and writes. Its result is ignored: a file that cannot
\* be opened stays what it was, one that cannot be written stays empty, and the
\* session goes on with the pair in memory
WriteFiles ==
    /\ \/ /\ leader.pc = "cert"
          /\ \/ files' = [files EXCEPT !.cert = 0] /\ LeaderGoes("certWrite")
             \/ files' = [files EXCEPT !.lost = TRUE] /\ LeaderGoes("key")
       \/ /\ leader.pc = "certWrite" /\ LeaderGoes("key")
          /\ files' \in {[files EXCEPT !.cert = leader.cert], [files EXCEPT !.lost = TRUE]}
       \/ /\ leader.pc = "key"
          /\ \/ files' = [files EXCEPT !.key = 0] /\ LeaderGoes("keyWrite")
             \/ files' = [files EXCEPT !.lost = TRUE] /\ LeaderGoes("pull")
       \/ /\ leader.pc = "keyWrite" /\ LeaderGoes("pull")
          /\ files' \in {[files EXCEPT !.key = leader.key], [files EXCEPT !.lost = TRUE]}
    /\ UNCHANGED <<memberVars, mail, inbox, ends, net, crashes>>

LeaderPull ==
    /\ leader.pc = "pull"
    /\ inbox # <<>>
    /\ inbox' = <<>>
    /\ \E got \in SignalPull(inbox) :
         leader' = [leader EXCEPT !.pc = "batch", !.batch = got]
    /\ UNCHANGED <<memberVars, mail, ends, files, net, crashes>>

Taken == Head(leader.batch)

\* Mutant: no message is skipped
NobodyKnown(msg) == FALSE

Known(msg) == <<msg.join.of, msg.join.id>> \in leader.tunnels

Drop == [leader EXCEPT !.pc = "batch", !.batch = Tail(@)]

\* A member who has a tunnel is skipped; the last message ends the round
SkipOrEnd ==
    /\ leader.pc = "batch"
    /\ IF leader.batch = <<>> THEN leader' = [leader EXCEPT !.pc = "pull"]
       ELSE Known(Taken) /\ leader' = Drop
    /\ UNCHANGED <<memberVars, mail, inbox, ends, files, net, crashes>>

\* A socket of its own for each message: bound and its candidates gathered,
\* then the reply posted; an error of either goes on to the next message
Answer ==
    /\ leader.pc = "batch"
    /\ leader.batch # <<>>
    /\ ~Known(Taken)
    /\ \E cands \in Candidates :
         LET j == Taken.join
             r == [join |-> j, cands |-> cands, fp |-> leader.cert]
         IN  /\ Gather(At("leader", j), cands)
             /\ \E push \in SignalPush(mail[j.of], r) :
                  /\ mail' = IF member[j.of].id = j.id THEN [mail EXCEPT ![j.of] = push.box]
                             ELSE mail
                  /\ leader' = IF push.ok THEN [leader EXCEPT !.pc = "punch"] ELSE Drop
    /\ UNCHANGED <<memberVars, inbox, ends, files, crashes>>

LeaderProbe ==
    /\ leader.pc = "punch"
    /\ InBounds
    /\ net' = net \cup Probes(At("leader", Taken.join), At("member", Taken.join), Taken.cands)
    /\ UNCHANGED <<memberVars, mail, inbox, leaderVars>>

\* The socket gets an endpoint, whose connections are served, and the member
\* counts as connected
Endpoint(j) ==
    /\ ends' = ends \cup {j}
    /\ leader' = [Drop EXCEPT !.tunnels = @ \cup {<<j.of, j.id>>}]

\* The first datagram ends punch; creating the endpoint may fail
LeaderHear ==
    /\ leader.pc = "punch"
    /\ \E a \in Addresses : Heard(At("leader", Taken.join), a)
    /\ \/ Endpoint(Taken.join)
       \/ UNCHANGED ends /\ leader' = Drop
    /\ UNCHANGED <<memberVars, mail, inbox, files, crashes>>

LeaderTimeOut ==
    /\ leader.pc = "punch"
    /\ leader' = Drop
    /\ UNCHANGED <<memberVars, mail, inbox, ends, files, net, crashes>>

\* Sockets, endpoints and tunnels are in memory; the server may give another
\* share id at the next start, and the old mailbox is nobody's
LeaderCrash ==
    /\ leader.pc # "down"
    /\ crashes < MaxCrash
    /\ crashes' = crashes + 1
    /\ leader' = [pc |-> "down", cert |-> 0, key |-> 0, batch |-> <<>>, tunnels |-> {}]
    /\ ends' = {}
    /\ inbox' \in {inbox, <<>>}
    /\ UNCHANGED <<memberVars, mail, files, net>>

(***************************************************************************)
(* The network and the server, which keeps a message for 60 seconds        *)
(***************************************************************************)
Lose ==
    /\ \E d \in net : net' = net \ {d}
    /\ UNCHANGED <<memberVars, mail, inbox, leaderVars>>

Expire ==
    /\ \/ inbox # <<>> /\ inbox' = Tail(inbox) /\ UNCHANGED mail
       \/ \E m \in Members : mail[m] # <<>> /\ mail' = [mail EXCEPT ![m] = Tail(@)]
                             /\ UNCHANGED inbox
    /\ UNCHANGED <<memberVars, leaderVars, net>>

JoinStep(m) == Resolve(m) \/ Post(m) \/ Pull(m) \/ Hear(m) \/ Shake(m)
              \/ Switch(m)

StreamStep(m) == OpenBi(m) \/ Bridge(m)

LeaderStep == LoadOrGenerate \/ WriteFiles \/ LeaderPull \/ SkipOrEnd
              \/ Answer \/ LeaderHear

Next ==
    \/ \E m \in Members :
         \/ Start(m) \/ JoinStep(m) \/ Probe(m) \/ TimeOut(m) \/ Stop(m)
         \/ LoseConnection(m) \/ Accept(m) \/ StreamStep(m) \/ Unbridge(m)
    \/ LeaderRegister \/ LeaderStep \/ LeaderProbe \/ LeaderTimeOut \/ LeaderCrash \/ Lose \/ Expire

Spec == Init /\ [][Next]_vars

\* A task that can go on does, and a deadline comes
FairSpec ==
    /\ Spec
    /\ \A m \in Members : WF_vars(JoinStep(m)) /\ WF_vars(TimeOut(m)) /\ WF_vars(StreamStep(m))
    /\ WF_vars(LeaderStep) /\ WF_vars(LeaderTimeOut)

(***************************************************************************)
(* Properties                                                              *)
(***************************************************************************)
\* However often the leader crashes while load_or_generate writes the pair, and
\* whether or not a write of it fails: what it serves with comes of a certificate
\* and a key that are there. As long as no write has failed they are one pair, and
\* the fingerprint a member was once given is the one it will find (quic.rs 36-37);
\* after one has, a restart may make another pair, or load two that do not fit
Fits ==
    /\ leader.cert = leader.key
    /\ \A m \in Members :
         /\ member[m].reply # None => member[m].reply.fp = leader.cert
         /\ \A i \in DOMAIN mail[m] : mail[m][i].fp = leader.cert

FingerprintHolds ==
    leader.pc \in Serving =>
        /\ leader.cert # 0 /\ leader.key # 0
        /\ ~files.lost => Fits

\* Several messages of one share id, also of an earlier start of the member's
\* program and in one round: the leader keeps one endpoint, and so one task
\* and one socket, for it (p2p.rs 65-67)
OneEndpoint ==
    \A i, j \in ends : i.of = j.of /\ i.id = j.id => i = j

\* Whatever is lost: a join ends with a tunnel or an error, a connection to
\* the local port is bridged or dropped, and the leader comes back to its
\* mailbox
EverythingEnds ==
    /\ \A m \in Members :
         /\ member[m].pc \in Waiting ~> member[m].pc \notin Waiting
         /\ tcp[m] \in {"accepted", "opened"} ~> tcp[m] \in {"none", "bridged"}
    /\ leader.pc \in Serving ~> leader.pc \in {"pull", "down"}

\* Stated by punch.rs 125: when punch succeeds it returns the address of the
\* peer
PunchReturnsPeer ==
    \A m \in Members : member[m].pc = "shake" => member[m].peer # Stun
=============================================================================
