----------------------------- MODULE Enrollment -----------------------------
(***************************************************************************)
(* How a node joins: it broadcasts its public key every 10 s until it is   *)
(* enrolled, the master records the key and defers the request to the hub  *)
(* through PendingRelayQueue, the hub's approval comes back over the       *)
(* serial line and becomes a JOIN_ACK, and the node records the master,    *)
(* the enrolled flag and the master's address, then the secondary master   *)
(* if the ACK names one, each in NVS, one after the other (Enrollment.cpp, *)
(* PeerEnrollment.cpp, MeshMessenger::enrollPeer, PendingRelayQueue.cpp).  *)
(* The node's own registry may be full: it keeps its records when a board  *)
(* that was a master is turned into a node.                                *)
(*                                                                         *)
(* The radio loses and delays frames; a frame passes the receiver's replay *)
(* cache once (ReplayCache), so delivery consumes it, and it is the retry  *)
(* and the repeated approval that bring it back.  Either board may restart *)
(* between any two NVS writes.  The hub and its operator are external: a   *)
(* request that reached the hub may be approved once.  One master, as the  *)
(* production pin requires (MASTER_PUBKEY, MASTER_MAC).                    *)
(***************************************************************************)
EXTENDS Integers, Sequences, FiniteSets

CONSTANTS
    Joiners,
    MaxPeers,      \* MAX_PEERS, 10 in the code, on master and node alike
    Defaults,      \* NUM_DEFAULT_PEERS, records of a blank node
    Secondaries,   \* whether an approval names a secondary master: in BOOLEAN
    QueueCap,      \* requests PendingRelayQueue holds, 4 in the code
    MaxKey,        \* bound on the key pairs a node ever generates
    MaxRestarts,   \* bound on restarts of the boards, wiped or not
    NoKey

ASSUME EnrollmentConstants ==
    /\ MaxPeers \in Nat
    /\ Defaults \in 0..MaxPeers
    /\ Secondaries \subseteq BOOLEAN
    /\ QueueCap \in Nat
    /\ MaxKey \in Nat
    /\ MaxRestarts \in Nat
    /\ NoKey \notin 0..MaxKey

VARIABLES
    key,        \* per node: generation of the key pair in its NVS
    enrolled,   \* per node: NVS enrolled flag and Enrollment::_enrolled
    others,     \* per node: records in its PeerRegistry besides the masters'
    uplink,     \* per node: the master is in its PeerRegistry, RAM and NVS
    backup,     \* per node: the secondary is in its PeerRegistry, RAM and NVS
    knowsMaster,\* per node: knownMasterMac is set, RAM and NVS
    knowsBackup,\* per node: knownMasterMacSecondary is set, RAM and NVS
    step,       \* per node: where it is in processJoinAck
    named,      \* per node: the JOIN_ACK it processes names a secondary
    peers,      \* the master's PeerRegistry, RAM and NVS: public key per node
    queue,      \* the master's PendingRelayQueue (RAM)
    hub,        \* requests waiting for a decision at the hub
    net,        \* frames on the air
    restarts

\* What a node holds, and what it holds besides the progress of processJoinAck.
record == <<key, enrolled, others, uplink, backup, knowsMaster, knowsBackup>>
joins == <<record, step, named>>
joinVars == <<joins, peers, queue, hub, net, restarts>>

Keys == 0..MaxKey
Requests == [mac: Joiners, key: Keys]
Frames == [type: {"ENROLLMENT"}, mac: Joiners, key: Keys]
          \cup [type: {"JOIN_ACK"}, mac: Joiners, key: Keys, second: BOOLEAN]
Steps == {"idle", "register", "flag", "learn", "second", "learnSecond"}

JoinTypeOK ==
    /\ key \in [Joiners -> Keys]
    /\ enrolled \in [Joiners -> BOOLEAN]
    /\ others \in [Joiners -> 0..MaxPeers]
    /\ uplink \in [Joiners -> BOOLEAN]
    /\ backup \in [Joiners -> BOOLEAN]
    /\ knowsMaster \in [Joiners -> BOOLEAN]
    /\ knowsBackup \in [Joiners -> BOOLEAN]
    /\ step \in [Joiners -> Steps]
    /\ named \in [Joiners -> BOOLEAN]
    /\ peers \in [Joiners -> Keys \cup {NoKey}]
    /\ queue \in Seq(Requests) /\ Len(queue) <= QueueCap
    /\ hub \subseteq Requests
    /\ net \subseteq Frames
    /\ restarts \in 0..MaxRestarts

Registered == {n \in Joiners : peers[n] /= NoKey}

JoinInit ==
    /\ key = [n \in Joiners |-> 0]
    /\ enrolled = [n \in Joiners |-> FALSE]
    /\ others \in [Joiners -> Defaults..MaxPeers]
    /\ uplink = [n \in Joiners |-> FALSE]
    /\ backup = [n \in Joiners |-> FALSE]
    /\ knowsMaster = [n \in Joiners |-> FALSE]
    /\ knowsBackup = [n \in Joiners |-> FALSE]
    /\ step = [n \in Joiners |-> "idle"]
    /\ named = [n \in Joiners |-> FALSE]
    /\ peers = [n \in Joiners |-> NoKey]
    /\ queue = << >>
    /\ hub = {}
    /\ net = {}
    /\ restarts = 0

-----------------------------------------------------------------------------
(***************************************************************************)
(* The node asks.                                                          *)
(***************************************************************************)

\* Enrollment::sendRequest: the node's current public key, to everyone.
Request(n) == [type |-> "ENROLLMENT", mac |-> n, key |-> key[n]]

\* tickEnrollmentBroadcast, every 10 s while not enrolled.
SendRequest(n) ==
    /\ ~enrolled[n]
    /\ net' = net \cup {Request(n)}
    /\ UNCHANGED <<joins, peers, queue, hub, restarts>>

-----------------------------------------------------------------------------
(***************************************************************************)
(* The master records, defers, relays and acknowledges.                    *)
(***************************************************************************)

\* registerPeerWithKey with allowRekey = false: an established key is kept; a
\* full registry records nothing.  The caller ignores the result.
RegisterPeerWithKey(n, k) ==
    peers' = IF peers[n] = NoKey /\ Cardinality(Registered) < MaxPeers
             THEN [peers EXCEPT ![n] = k] ELSE peers

\* PendingRelayQueue::push: a full queue drops the request.
Push(r) == queue' = IF Len(queue) < QueueCap THEN Append(queue, r) ELSE queue

\* Fault: a request of a node already on record is not relayed again.
ReceiveFirstRequestOnly(f) ==
    /\ f.type = "ENROLLMENT"
    /\ RegisterPeerWithKey(f.mac, f.key)
    /\ IF peers[f.mac] = NoKey THEN Push([mac |-> f.mac, key |-> f.key]) ELSE UNCHANGED queue
    /\ net' = net \ {f}
    /\ UNCHANGED <<joins, hub, restarts>>

\* handleReceivedMessage on the master, MESH_TYPE_ENROLLMENT.
ReceiveRequest(f) ==
    /\ f.type = "ENROLLMENT"
    /\ RegisterPeerWithKey(f.mac, f.key)
    /\ Push([mac |-> f.mac, key |-> f.key])
    /\ net' = net \ {f}
    /\ UNCHANGED <<joins, hub, restarts>>

\* drainPendingRelay from Mesh::loop: every queued request goes out.
DrainRelay ==
    /\ queue /= << >>
    /\ hub' = hub \cup {queue[i] : i \in 1..Len(queue)}
    /\ queue' = << >>
    /\ UNCHANGED <<joins, peers, net, restarts>>

\* The hub approves, with or without a secondary master; the master answers
\* with the key it has on record.  Without a record there is no answer.
EnrollPeer(r, two) ==
    /\ hub' = hub \ {r}
    /\ net' = IF peers[r.mac] = NoKey THEN net
              ELSE net \cup {[type |-> "JOIN_ACK", mac |-> r.mac, key |-> peers[r.mac],
                              second |-> two]}
    /\ UNCHANGED <<joins, peers, queue, restarts>>

-----------------------------------------------------------------------------
(***************************************************************************)
(* The node joins: processJoinAck, one NVS write per step.                 *)
(***************************************************************************)

\* Fault: the fingerprint is not compared.
ReceiveAnyJoinAck(f) ==
    /\ f.type = "JOIN_ACK"
    /\ step[f.mac] = "idle"
    /\ step' = [step EXCEPT ![f.mac] = "register"]
    /\ named' = [named EXCEPT ![f.mac] = f.second]
    /\ net' = net \ {f}
    /\ UNCHANGED <<record, peers, queue, hub, restarts>>

\* The fingerprint in the ACK must be that of this node's key (taken to
\* identify it).  The pin and the origin gate hold for the one master.
ReceiveJoinAck(f) ==
    /\ f.type = "JOIN_ACK"
    /\ step[f.mac] = "idle"
    /\ f.key = key[f.mac]
    /\ step' = [step EXCEPT ![f.mac] = "register"]
    /\ named' = [named EXCEPT ![f.mac] = f.second]
    /\ net' = net \ {f}
    /\ UNCHANGED <<record, peers, queue, hub, restarts>>

\* peers.count() >= MAX_PEERS in the node's own registry.
RegistryFull(n) ==
    others[n] + (IF uplink[n] THEN 1 ELSE 0) + (IF backup[n] THEN 1 ELSE 0) >= MaxPeers

\* The handler returns, or goes on.
Returns(n) ==
    /\ step' = [step EXCEPT ![n] = "idle"]
    /\ named' = [named EXCEPT ![n] = FALSE]

GoesOn(n, s) == step' = [step EXCEPT ![n] = s] /\ UNCHANGED named

\* registerFn for the master: a routable peer, saved ...
RegisterMaster(n) ==
    /\ step[n] = "register"
    /\ uplink[n] \/ ~RegistryFull(n)
    /\ uplink' = [uplink EXCEPT ![n] = TRUE]
    /\ GoesOn(n, "flag")
    /\ UNCHANGED <<key, enrolled, others, backup, knowsMaster, knowsBackup>>
    /\ UNCHANGED <<peers, queue, hub, net, restarts>>

\* Fault: the result of registerFn is not looked at.
RegistrationIgnored(n) ==
    /\ step[n] = "register"
    /\ ~uplink[n] /\ RegistryFull(n)
    /\ GoesOn(n, "flag")
    /\ UNCHANGED <<record, peers, queue, hub, net, restarts>>

\* ... or the registry is full and the node stays as it was, not enrolled.
RegistrationFails(n) ==
    /\ step[n] = "register"
    /\ ~uplink[n] /\ RegistryFull(n)
    /\ Returns(n)
    /\ UNCHANGED <<record, peers, queue, hub, net, restarts>>

SaveEnrolledFlag(n) ==
    /\ step[n] = "flag"
    /\ enrolled' = [enrolled EXCEPT ![n] = TRUE]
    /\ GoesOn(n, "learn")
    /\ UNCHANGED <<key, others, uplink, backup, knowsMaster, knowsBackup>>
    /\ UNCHANGED <<peers, queue, hub, net, restarts>>

\* learnMasterMac: RAM and NVS.
Learns(n) == knowsMaster' = [knowsMaster EXCEPT ![n] = TRUE]

\* An address that is known already is left alone; without a secondary in the
\* ACK that was all.
LearnMasterMac(n) ==
    /\ step[n] = "learn"
    /\ Learns(n)
    /\ IF named[n] THEN GoesOn(n, "second") ELSE Returns(n)
    /\ UNCHANGED <<key, enrolled, others, uplink, backup, knowsBackup>>
    /\ UNCHANGED <<peers, queue, hub, net, restarts>>

\* registerFn for the secondary.
RegisterSecondary(n) ==
    /\ step[n] = "second"
    /\ backup[n] \/ ~RegistryFull(n)
    /\ backup' = [backup EXCEPT ![n] = TRUE]
    /\ GoesOn(n, "learnSecond")
    /\ UNCHANGED <<key, enrolled, others, uplink, knowsMaster, knowsBackup>>
    /\ UNCHANGED <<peers, queue, hub, net, restarts>>

\* A full registry: the node is enrolled, without the secondary.
SecondaryNotRegistered(n) ==
    /\ step[n] = "second"
    /\ ~backup[n] /\ RegistryFull(n)
    /\ Returns(n)
    /\ UNCHANGED <<record, peers, queue, hub, net, restarts>>

\* learnSecondaryMasterMac, unless one is known.
LearnSecondaryMasterMac(n) ==
    /\ step[n] = "learnSecond"
    /\ knowsBackup' = [knowsBackup EXCEPT ![n] = TRUE]
    /\ Returns(n)
    /\ UNCHANGED <<key, enrolled, others, uplink, backup, knowsMaster>>
    /\ UNCHANGED <<peers, queue, hub, net, restarts>>

\* MasterBeacon::process, first beacon of the pinned master.
LearnFromBeacon(n) ==
    /\ step[n] = "idle"
    /\ ~knowsMaster[n]
    /\ Learns(n)
    /\ UNCHANGED <<key, enrolled, others, uplink, backup, knowsBackup, step, named>>
    /\ UNCHANGED <<peers, queue, hub, net, restarts>>

-----------------------------------------------------------------------------
(***************************************************************************)
(* What goes wrong.                                                        *)
(***************************************************************************)
Lose(f) ==
    /\ net' = net \ {f}
    /\ UNCHANGED <<joins, peers, queue, hub, restarts>>

\* Enrollment::init reloads what NVS holds.
NodeRestarts(n) ==
    /\ restarts < MaxRestarts
    /\ restarts' = restarts + 1
    /\ Returns(n)
    /\ UNCHANGED <<record, peers, queue, hub, net>>

MasterRestarts ==
    /\ restarts < MaxRestarts
    /\ restarts' = restarts + 1
    /\ queue' = << >>
    /\ UNCHANGED <<joins, peers, hub, net>>

\* A factory reset or an erased NVS partition: the node comes up blank, with a
\* new key pair and the default peers.  Its old frames have left the air.
WipeNode(n) ==
    /\ key[n] < MaxKey
    /\ restarts < MaxRestarts
    /\ restarts' = restarts + 1
    /\ key' = [key EXCEPT ![n] = @ + 1]
    /\ enrolled' = [enrolled EXCEPT ![n] = FALSE]
    /\ others' = [others EXCEPT ![n] = Defaults]
    /\ uplink' = [uplink EXCEPT ![n] = FALSE]
    /\ backup' = [backup EXCEPT ![n] = FALSE]
    /\ knowsMaster' = [knowsMaster EXCEPT ![n] = FALSE]
    /\ knowsBackup' = [knowsBackup EXCEPT ![n] = FALSE]
    /\ Returns(n)
    /\ net' = {f \in net : f.mac /= n}
    /\ UNCHANGED <<peers, queue, hub>>

\* The mesh task goes on with the JOIN_ACK it is processing.
JoinStep(n) ==
    \/ RegisterMaster(n)
    \/ RegistrationFails(n)
    \/ SaveEnrolledFlag(n)
    \/ LearnMasterMac(n)
    \/ RegisterSecondary(n)
    \/ SecondaryNotRegistered(n)
    \/ LearnSecondaryMasterMac(n)

JoinNext ==
    \/ \E n \in Joiners :
         \/ SendRequest(n)
         \/ JoinStep(n)
         \/ LearnFromBeacon(n)
         \/ NodeRestarts(n)
         \/ WipeNode(n)
    \/ \E f \in net : ReceiveRequest(f) \/ ReceiveJoinAck(f) \/ Lose(f)
    \/ DrainRelay
    \/ \E r \in hub, two \in Secondaries : EnrollPeer(r, two)
    \/ MasterRestarts

JoinSpec == JoinInit /\ [][JoinNext]_joinVars

\* The housekeeping loops keep running, the hub's operator gets to every
\* request, and a frame that is sent again and again gets through some time.
ReceiveRequestOf(n) == \E f \in net : f.mac = n /\ ReceiveRequest(f)
ReceiveJoinAckOf(n) == \E f \in net : f.mac = n /\ ReceiveJoinAck(f)
EnrollPeerOf(n) == \E r \in hub, two \in Secondaries : r.mac = n /\ EnrollPeer(r, two)

Fairness ==
    /\ WF_joinVars(DrainRelay)
    /\ \A n \in Joiners :
         /\ WF_joinVars(SendRequest(n))
         /\ WF_joinVars(JoinStep(n))
         /\ SF_joinVars(ReceiveRequestOf(n))
         /\ SF_joinVars(ReceiveJoinAckOf(n))
         /\ SF_joinVars(EnrollPeerOf(n))

FairSpec == JoinSpec /\ Fairness

-----------------------------------------------------------------------------
(***************************************************************************)
(* Properties.                                                             *)
(***************************************************************************)

\* A node whose NVS says enrolled has the master in its peer registry, at
\* every point where it may restart and however full its registry was: 'do NOT
\* mark enrolled or TOFU-learn -- an "enrolled" node without an uplink route is
\* worse than retrying' (Enrollment.cpp:149-154).  The secondary likewise: an
\* address it would fail over to is registered first (Enrollment.cpp:181-185).
EnrolledHasUplink ==
    \A n \in Joiners : (enrolled[n] => uplink[n]) /\ (knowsBackup[n] => backup[n])

\* A node considers itself enrolled only under the key the master holds for
\* it, or no sealed frame would ever open: across lost, repeated and stale
\* requests and ACKs, wipes and restarts (Enrollment.cpp:108, MeshMessenger.cpp:237-248).
KeysAgree == \A n \in Joiners : enrolled[n] => peers[n] = key[n]

\* As long as no node loses its key pair, and the registry of each has room for
\* the master, every node is enrolled in the end and stays so, although requests
\* and ACKs get lost, the relay queue overflows and boards restart: each loss is
\* repaired by the 10 s retry.  (A node without room asks for ever, and may take
\* the place in the relay queue that another one needs.)
EventuallyEnrolled ==
    [](\A n \in Joiners : key[n] = 0 /\ others[n] < MaxPeers) => \A n \in Joiners : <>[]enrolled[n]

\* The key pair and the join state of a node are consistent with the frames,
\* the master's registry and its own: the inductive form of KeysAgree and
\* EnrolledHasUplink.
EnrollInv ==
    /\ JoinTypeOK
    /\ EnrolledHasUplink
    /\ KeysAgree
    /\ \A n \in Joiners : step[n] /= "idle" => peers[n] = key[n]
    /\ \A n \in Joiners : step[n] \notin {"idle", "register"} => uplink[n]
    /\ \A n \in Joiners : step[n] = "learnSecond" => backup[n]
    /\ \A f \in net : f.type = "JOIN_ACK" => peers[f.mac] = f.key

\* What the guide says of a wiped node: "you will need to re-enroll the node
\* with your hub afterward, as if it were brand new".
WipedNodeReenrolls == \A n \in Joiners : [](key[n] > 0 => <>enrolled[n])
=============================================================================
