----------------------------- MODULE PeerProofs -----------------------------
(***************************************************************************)
(* How a peer gets into the registry, and who is registered with the radio *)
(* driver.  First the safety of the join for any number of nodes, any      *)
(* capacity of the registry and of the relay queue, and any number of      *)
(* restarts and wipes (Enrollment); then the driver's table for any number *)
(* of boards and any capacity of the registry and the LRU (PeerTable).     *)
(***************************************************************************)
EXTENDS Enrollment, PeerTable, FiniteSetTheorems, SequenceTheorems, TLAPS

\* The registry never changes a key it holds: registerPeerWithKey with
\* allowRekey = false.
LEMMA KeyKept ==
    ASSUME JoinTypeOK, NEW n \in Joiners, NEW k \in Keys, RegisterPeerWithKey(n, k)
    PROVE  /\ peers' \in [Joiners -> Keys \cup {NoKey}]
           /\ \A m \in Joiners : peers[m] # NoKey => peers'[m] = peers[m]
  BY DEF JoinTypeOK, RegisterPeerWithKey

\* The queue stays within its capacity.
LEMMA PushBounded ==
    ASSUME JoinTypeOK, NEW r \in Requests, Push(r)
    PROVE  queue' \in Seq(Requests) /\ Len(queue') <= QueueCap
  BY EnrollmentConstants DEF JoinTypeOK, Push

\* A request or a restart on the master's side: keys and join states of the
\* nodes are untouched, held keys are kept.
LEMMA RequestKeepsInv ==
    ASSUME EnrollInv, NEW f \in net, ReceiveRequest(f)
    PROVE  EnrollInv'
<1>1. f.mac \in Joiners /\ f.key \in Keys /\ [mac |-> f.mac, key |-> f.key] \in Requests
  BY DEF EnrollInv, JoinTypeOK, Frames, Requests
<1>2. /\ peers' \in [Joiners -> Keys \cup {NoKey}]
      /\ \A m \in Joiners : peers[m] # NoKey => peers'[m] = peers[m]
  BY <1>1, KeyKept DEF EnrollInv, ReceiveRequest
<1>3. queue' \in Seq(Requests) /\ Len(queue') <= QueueCap
  BY <1>1, PushBounded DEF EnrollInv, ReceiveRequest
<1>4. \A k \in Keys : k # NoKey
  BY EnrollmentConstants DEF Keys
<1>5. JoinTypeOK'
  BY <1>2, <1>3 DEF EnrollInv, JoinTypeOK, ReceiveRequest, joins, record
<1>6. \A n \in Joiners : peers[n] = key[n] => peers'[n] = key'[n]
  BY <1>2, <1>4 DEF EnrollInv, JoinTypeOK, ReceiveRequest, joins, record
<1>7. \A g \in net' : g.type = "JOIN_ACK" => peers'[g.mac] = g.key
  BY <1>2, <1>4 DEF EnrollInv, JoinTypeOK, Frames, ReceiveRequest
<1> QED
  BY <1>5, <1>6, <1>7 DEF EnrollInv, EnrolledHasUplink, KeysAgree, ReceiveRequest, joins, record

\* Relaying to the hub and acknowledging.
LEMMA MasterKeepsInv ==
    ASSUME EnrollInv, DrainRelay \/ MasterRestarts \/ \E r \in hub, two \in Secondaries : EnrollPeer(r, two)
    PROVE  EnrollInv'
<1>1. CASE DrainRelay
  <2>1. {queue[i] : i \in 1..Len(queue)} \subseteq Requests
    BY DEF EnrollInv, JoinTypeOK
  <2>2. << >> \in Seq(Requests) /\ Len(<< >>) <= QueueCap
    BY EnrollmentConstants
  <2> QED
    BY <1>1, <2>1, <2>2 DEF DrainRelay, EnrollInv, JoinTypeOK, EnrolledHasUplink, KeysAgree, joins, record
<1>2. CASE MasterRestarts
  <2>1. << >> \in Seq(Requests) /\ Len(<< >>) <= QueueCap /\ restarts' \in 0..MaxRestarts
    BY <1>2, EnrollmentConstants DEF MasterRestarts, EnrollInv, JoinTypeOK
  <2> QED
    BY <1>2, <2>1 DEF MasterRestarts, EnrollInv, JoinTypeOK, EnrolledHasUplink, KeysAgree, joins, record
<1>3. ASSUME NEW r \in hub, NEW two \in Secondaries, EnrollPeer(r, two)
      PROVE  EnrollInv'
  <2>1. r.mac \in Joiners /\ peers[r.mac] \in Keys \cup {NoKey}
    BY DEF EnrollInv, JoinTypeOK, Requests
  <2>2. net' \subseteq Frames
    BY <1>3, <2>1, EnrollmentConstants DEF EnrollPeer, EnrollInv, JoinTypeOK, Frames
  <2>3. \A f \in net' : f.type = "JOIN_ACK" => peers[f.mac] = f.key
    BY <1>3 DEF EnrollPeer, EnrollInv
  <2> QED
    BY <1>3, <2>2, <2>3 DEF EnrollPeer, EnrollInv, JoinTypeOK, EnrolledHasUplink, KeysAgree, joins, record
<1> QED
  BY <1>1, <1>2, <1>3

\* What the invariant says of the join states, when one node's changes.
LEMMA OthersUnmoved ==
    ASSUME EnrollInv, JoinTypeOK', NEW n \in Joiners, peers' = peers,
           \A f \in net' : f \in net,
           \A m \in Joiners \ {n} :
             /\ key'[m] = key[m] /\ enrolled'[m] = enrolled[m] /\ step'[m] = step[m]
             /\ uplink'[m] = uplink[m] /\ backup'[m] = backup[m]
             /\ knowsBackup'[m] = knowsBackup[m],
           enrolled'[n] => uplink'[n] /\ peers[n] = key'[n],
           knowsBackup'[n] => backup'[n],
           step'[n] # "idle" => peers[n] = key'[n],
           step'[n] \notin {"idle", "register"} => uplink'[n],
           step'[n] = "learnSecond" => backup'[n]
    PROVE  EnrollInv'
<1>1. ASSUME NEW m \in Joiners
      PROVE  /\ (enrolled'[m] => uplink'[m] /\ peers'[m] = key'[m])
             /\ (knowsBackup'[m] => backup'[m])
             /\ (step'[m] # "idle" => peers'[m] = key'[m])
             /\ (step'[m] \notin {"idle", "register"} => uplink'[m])
             /\ (step'[m] = "learnSecond" => backup'[m])
  <2>1. CASE m = n
    BY <2>1
  <2>2. CASE m # n
    BY <2>2 DEF EnrollInv, EnrolledHasUplink, KeysAgree
  <2> QED
    BY <2>1, <2>2
<1>2. \A f \in net' : f.type = "JOIN_ACK" => peers'[f.mac] = f.key
  BY DEF EnrollInv
<1>3. EnrolledHasUplink' /\ KeysAgree'
  BY <1>1 DEF EnrolledHasUplink, KeysAgree
<1> QED
  BY <1>1, <1>2, <1>3 DEF EnrollInv

\* The master's address is learned, and the handler returns or goes on.
LEMMA LearnKeepsInv ==
    ASSUME EnrollInv, NEW n \in Joiners, LearnMasterMac(n)
    PROVE  EnrollInv'
<1>1. /\ UNCHANGED <<key, enrolled, others, uplink, backup, knowsBackup>>
      /\ UNCHANGED <<peers, queue, hub, net, restarts>>
      /\ step[n] = "learn" /\ knowsMaster' = [knowsMaster EXCEPT ![n] = TRUE]
  BY DEF LearnMasterMac, Learns
<1>2. /\ step' = [step EXCEPT ![n] = step'[n]] /\ step'[n] \in {"idle", "second"}
      /\ named' \in [Joiners -> BOOLEAN]
  <2>1. step \in [Joiners -> Steps] /\ named \in [Joiners -> BOOLEAN]
    BY DEF EnrollInv, JoinTypeOK
  <2>2. CASE named[n]
    BY <2>1, <2>2 DEF LearnMasterMac, GoesOn
  <2>3. CASE ~named[n]
    BY <2>1, <2>3 DEF LearnMasterMac, Returns
  <2> QED
    BY <2>2, <2>3
<1>3. JoinTypeOK'
  <2>1. step' \in [Joiners -> Steps]
    BY <1>2 DEF EnrollInv, JoinTypeOK, Steps
  <2>2. knowsMaster' \in [Joiners -> BOOLEAN]
    BY <1>1 DEF EnrollInv, JoinTypeOK
  <2> QED
    BY <1>1, <1>2, <2>1, <2>2 DEF EnrollInv, JoinTypeOK
<1>4. uplink[n] /\ peers[n] = key[n] /\ (knowsBackup[n] => backup[n])
  BY <1>1 DEF EnrollInv, EnrolledHasUplink
<1>5. \A m \in Joiners \ {n} : step'[m] = step[m]
  BY <1>2 DEF EnrollInv, JoinTypeOK
<1> QED
  BY <1>1, <1>2, <1>3, <1>4, <1>5, OthersUnmoved

\* A wiped node starts over; the master keeps what it has on record.
LEMMA WipeKeepsInv ==
    ASSUME EnrollInv, NEW n \in Joiners, WipeNode(n)
    PROVE  EnrollInv'
<1>1. key[n] + 1 \in Keys
  BY EnrollmentConstants DEF WipeNode, Keys, EnrollInv, JoinTypeOK
<1>2. JoinTypeOK'
  BY <1>1, EnrollmentConstants DEF WipeNode, Returns, EnrollInv, JoinTypeOK, Steps
<1>3. \A m \in Joiners \ {n} :
        /\ key'[m] = key[m] /\ enrolled'[m] = enrolled[m] /\ step'[m] = step[m]
        /\ uplink'[m] = uplink[m] /\ backup'[m] = backup[m] /\ knowsBackup'[m] = knowsBackup[m]
  BY DEF WipeNode, Returns, EnrollInv, JoinTypeOK
<1>4. ~enrolled'[n] /\ ~knowsBackup'[n] /\ step'[n] = "idle"
  BY DEF WipeNode, Returns, EnrollInv, JoinTypeOK
<1>5. peers' = peers /\ \A f \in net' : f \in net
  BY DEF WipeNode
<1> QED
  BY <1>2, <1>3, <1>4, <1>5, OthersUnmoved

\* processJoinAck, step by step, and everything else on a node.
LEMMA NodeKeepsInv ==
    ASSUME EnrollInv, NEW n \in Joiners,
           \/ SendRequest(n) \/ JoinStep(n) \/ LearnFromBeacon(n)
           \/ NodeRestarts(n) \/ WipeNode(n)
    PROVE  EnrollInv'
<1> USE DEF EnrollInv, JoinTypeOK, EnrolledHasUplink, KeysAgree, Steps, joins, record
<1>1. CASE SendRequest(n)
  <2>1. [type |-> "ENROLLMENT", mac |-> n, key |-> key[n]] \in Frames
    BY DEF Frames
  <2> QED
    BY <1>1, <2>1 DEF SendRequest, Request
<1>2. CASE RegisterMaster(n)
  BY <1>2 DEF RegisterMaster, GoesOn
<1>3. CASE RegistrationFails(n)
  BY <1>3 DEF RegistrationFails, Returns
<1>4. CASE SaveEnrolledFlag(n)
  BY <1>4 DEF SaveEnrolledFlag, GoesOn
<1>5. CASE LearnMasterMac(n)
  BY <1>5, LearnKeepsInv
<1>6. CASE RegisterSecondary(n)
  BY <1>6 DEF RegisterSecondary, GoesOn
<1>7. CASE SecondaryNotRegistered(n)
  BY <1>7 DEF SecondaryNotRegistered, Returns
<1>8. CASE LearnSecondaryMasterMac(n)
  BY <1>8 DEF LearnSecondaryMasterMac, Returns
<1>9. CASE LearnFromBeacon(n)
  BY <1>9 DEF LearnFromBeacon, Learns
<1>10. CASE NodeRestarts(n)
  <2>1. restarts' \in 0..MaxRestarts
    BY <1>10, EnrollmentConstants DEF NodeRestarts
  <2> QED
    BY <1>10, <2>1 DEF NodeRestarts, Returns
<1>11. CASE WipeNode(n)
  BY <1>11, WipeKeepsInv
<1> HIDE DEF EnrollInv
<1> QED
  BY <1>1, <1>2, <1>3, <1>4, <1>5, <1>6, <1>7, <1>8, <1>9, <1>10, <1>11 DEF JoinStep

\* The frames on the air, the master's registry and the join state of every
\* node stay consistent, wherever a board loses power
\* (Enrollment::processJoinAck, registerPeerWithKey, MeshMessenger::enrollPeer).
THEOREM JoinInvariant == JoinSpec => []EnrollInv
<1>1. JoinInit => EnrollInv
  BY EnrollmentConstants DEF JoinInit, EnrollInv, JoinTypeOK, EnrolledHasUplink, KeysAgree, Keys, Steps
<1>2. ASSUME EnrollInv, [JoinNext]_joinVars PROVE EnrollInv'
  <2> USE <1>2
  <2>1. ASSUME NEW f \in net, ReceiveJoinAck(f) PROVE EnrollInv'
    <3>1. f.mac \in Joiners /\ peers[f.mac] = key[f.mac]
      BY <2>1 DEF EnrollInv, JoinTypeOK, Frames, ReceiveJoinAck
    <3>2. f.second \in BOOLEAN
      BY <2>1 DEF EnrollInv, JoinTypeOK, Frames, ReceiveJoinAck
    <3> QED
      BY <2>1, <3>1, <3>2
         DEF ReceiveJoinAck, EnrollInv, JoinTypeOK, Steps, EnrolledHasUplink, KeysAgree, record
  <2>2. ASSUME NEW f \in net, Lose(f) PROVE EnrollInv'
    BY <2>2 DEF Lose, EnrollInv, JoinTypeOK, EnrolledHasUplink, KeysAgree, joins, record
  <2>3. CASE UNCHANGED joinVars
    BY <2>3 DEF joinVars, EnrollInv, JoinTypeOK, EnrolledHasUplink, KeysAgree, joins, record
  <2> QED
    BY <2>1, <2>2, <2>3, NodeKeepsInv, RequestKeepsInv, MasterKeepsInv DEF JoinNext
<1> QED
  BY <1>1, <1>2, PTL DEF JoinSpec

\* An enrolled node shares its key with the master, whatever requests and
\* answers were lost, repeated or late (registerPeerWithKey,
\* Enrollment.cpp:108).
THEOREM JoinSafe == JoinSpec => []KeysAgree
<1>1. EnrollInv => KeysAgree
  BY DEF EnrollInv
<1> QED
  BY <1>1, JoinInvariant, PTL

\* A node that is enrolled in NVS has its uplink, and a secondary it knows of is
\* registered, at every point where it may restart and with a registry as full
\* as may be (Enrollment.cpp:148-160, 181-185).
THEOREM FlagAfterUplink == JoinSpec => []EnrolledHasUplink
<1>1. EnrollInv => EnrolledHasUplink
  BY DEF EnrollInv
<1> QED
  BY <1>1, JoinInvariant, PTL

-----------------------------------------------------------------------------
(***************************************************************************)
(* Who stays registered with the driver: PeerTable, for any number of      *)
(* boards, any capacity of the registry and of the LRU of downlink hops.   *)
(***************************************************************************)

In(s) == {s[i] : i \in 1..Len(s)}
Distinct(s) == \A i, j \in 1..Len(s) : s[i] = s[j] => i = j

\* A list without its member at i.
Without(r, s, i) ==
    /\ r \in Seq(Macs) /\ Len(r) = Len(s) - 1 /\ Distinct(r)
    /\ In(r) = In(s) \ {s[i]}

\* Taking out one place of the list takes out its address, and no other.
LEMMA DroppedFrom ==
    ASSUME NEW s \in Seq(Macs), Distinct(s), NEW i \in 1..Len(s), NEW r, r \in Seq(Macs),
           Len(r) = Len(s) - 1, \A j \in 1..Len(r) : r[j] = IF j < i THEN s[j] ELSE s[j + 1]
    PROVE  Without(r, s, i)
<1>1. PICK l \in Nat : l = Len(s)
  OBVIOUS
<1>2. l >= 1 /\ i \in 1..l /\ Len(r) = l - 1
  BY <1>1
<1>3. \A j \in 1..(l - 1) : r[j] = IF j < i THEN s[j] ELSE s[j + 1]
  BY <1>2
<1>4. \A j, k \in 1..l : s[j] = s[k] => j = k
  BY <1>1 DEF Distinct
<1>5. ASSUME NEW j \in 1..(l - 1), NEW k \in 1..(l - 1), r[j] = r[k] PROVE j = k
  <2>1. j \in 1..l /\ j + 1 \in 1..l /\ k \in 1..l /\ k + 1 \in 1..l
    BY <1>2
  <2>2. PICK a \in 1..l : a = IF j < i THEN j ELSE j + 1
    BY <2>1
  <2>3. PICK b \in 1..l : b = IF k < i THEN k ELSE k + 1
    BY <2>1
  <2>4. r[j] = s[a] /\ r[k] = s[b]
    BY <1>3, <2>2, <2>3
  <2>5. a = b
    BY <1>4, <1>5, <2>4
  <2> QED
    BY <1>2, <2>2, <2>3, <2>5
<1>6. In(r) \subseteq In(s) \ {s[i]}
  <2> SUFFICES ASSUME NEW j \in 1..(l - 1) PROVE r[j] \in In(s) \ {s[i]}
    BY <1>2 DEF In
  <2>1. PICK a \in 1..l : a = IF j < i THEN j ELSE j + 1
    BY <1>2
  <2>2. r[j] = s[a] /\ a # i
    BY <1>2, <1>3, <2>1
  <2>3. s[a] # s[i]
    BY <1>2, <1>4, <2>2
  <2> QED
    BY <1>1, <2>2, <2>3 DEF In
<1>7. In(s) \ {s[i]} \subseteq In(r)
  <2> SUFFICES ASSUME NEW a \in 1..l, a # i PROVE s[a] \in In(r)
    BY <1>1 DEF In
  <2>1. CASE a < i
    <3>1. a \in 1..(l - 1)
      BY <1>2, <2>1
    <3>2. r[a] = s[a]
      BY <1>3, <2>1, <3>1
    <3> QED
      BY <1>2, <3>1, <3>2 DEF In
  <2>2. CASE ~(a < i)
    <3>1. a - 1 \in 1..(l - 1) /\ ~(a - 1 < i) /\ (a - 1) + 1 = a
      BY <1>2, <2>2
    <3>2. r[a - 1] = s[a]
      BY <1>3, <3>1
    <3> QED
      BY <1>2, <3>1, <3>2 DEF In
  <2> QED
    BY <2>1, <2>2
<1> QED
  BY <1>1, <1>2, <1>5, <1>6, <1>7 DEF Without, Distinct

\* RemoveAt of the community modules is the list without that place.
LEMMA RemoveAtIs ==
    ASSUME NEW s \in Seq(Macs), Distinct(s), NEW i \in 1..Len(s)
    PROVE  Without(RemoveAt(s, i), s, i)
<1>1. PICK l \in Nat : l = Len(s)
  OBVIOUS
<1>2. i \in 1..l
  BY <1>1
<1>3. PICK a : a = SubSeq(s, 1, i - 1)
  OBVIOUS
<1>4. PICK b : b = SubSeq(s, i + 1, l)
  OBVIOUS
<1>5. PICK r : r = RemoveAt(s, i)
  OBVIOUS
<1>6. r = a \o b
  BY <1>1, <1>3, <1>4, <1>5 DEF RemoveAt
<1>7. /\ a \in Seq(Macs) /\ Len(a) = i - 1
      /\ \A j \in 1..(i - 1) : a[j] = s[j]
  BY <1>1, <1>2, <1>3
<1>8. /\ b \in Seq(Macs) /\ Len(b) = l - i
      /\ \A j \in 1..(l - i) : b[j] = s[i + j]
  BY <1>1, <1>2, <1>4
<1>9. /\ a \o b \in Seq(Macs) /\ Len(a \o b) = Len(a) + Len(b)
      /\ \A j \in 1..Len(a) + Len(b) :
           (a \o b)[j] = IF j <= Len(a) THEN a[j] ELSE b[j - Len(a)]
  BY <1>7, <1>8, ConcatProperties, Zenon
<1>10. r \in Seq(Macs) /\ Len(r) = l - 1
  BY <1>2, <1>6, <1>7, <1>8, <1>9
<1>11. ASSUME NEW j \in 1..(l - 1) PROVE r[j] = IF j < i THEN s[j] ELSE s[j + 1]
  <2>1. r[j] = IF j <= i - 1 THEN a[j] ELSE b[j - (i - 1)]
    BY <1>2, <1>6, <1>7, <1>8, <1>9, SMTT(30)
  <2>2. CASE j < i
    <3>1. j \in 1..(i - 1)
      BY <1>2, <2>2
    <3> QED
      BY <1>7, <2>1, <2>2, <3>1
  <2>3. CASE ~(j < i)
    <3>1. j - (i - 1) \in 1..(l - i) /\ i + (j - (i - 1)) = j + 1 /\ ~(j <= i - 1)
      BY <1>2, <2>3
    <3> QED
      BY <1>8, <2>1, <2>3, <3>1
  <2> QED
    BY <2>2, <2>3
<1>12. \A j \in 1..Len(r) : r[j] = IF j < i THEN s[j] ELSE s[j + 1]
  BY <1>10, <1>11
<1>13. Len(r) = Len(s) - 1 /\ r \in Seq(Macs)
  BY <1>1, <1>10
<1>14. Without(r, s, i)
  BY <1>12, <1>13, DroppedFrom
<1> QED
  BY <1>5, <1>14

\* An address put in front of a list that does not have it.
LEMMA PutInFront ==
    ASSUME NEW s \in Seq(Macs), Distinct(s), NEW m \in Macs, m \notin In(s), NEW r, r = <<m>> \o s
    PROVE  /\ r \in Seq(Macs) /\ Len(r) = Len(s) + 1 /\ Distinct(r) /\ In(r) = In(s) \cup {m}
<1>1. PICK l \in Nat : l = Len(s)
  OBVIOUS
<1>2. PICK h : h = <<m>>
  OBVIOUS
<1>3. h \in Seq(Macs) /\ Len(h) = 1 /\ h[1] = m
  BY <1>2
<1>4. /\ h \o s \in Seq(Macs) /\ Len(h \o s) = Len(h) + Len(s)
      /\ \A j \in 1..Len(h) + Len(s) : (h \o s)[j] = IF j <= Len(h) THEN h[j] ELSE s[j - Len(h)]
  BY <1>3, ConcatProperties, Zenon
<1>5. /\ r \in Seq(Macs) /\ Len(r) = l + 1 /\ r[1] = m
      /\ \A j \in 1..(l + 1) : j # 1 => r[j] = s[j - 1]
  BY <1>1, <1>2, <1>3, <1>4
<1>6. \A k \in 1..l : s[k] \in In(s) /\ s[k] # m /\ k + 1 \in 1..(l + 1) /\ r[k + 1] = s[k]
  BY <1>1, <1>5 DEF In
<1>7. ASSUME NEW j \in 1..(l + 1), NEW k \in 1..(l + 1), r[j] = r[k] PROVE j = k
  <2>1. CASE j # 1 /\ k # 1
    <3>1. j - 1 \in 1..l /\ k - 1 \in 1..l /\ s[j - 1] = s[k - 1]
      BY <1>5, <1>7, <2>1
    <3>2. j - 1 = k - 1
      BY <1>1, <3>1 DEF Distinct
    <3> QED
      BY <3>2
  <2>2. ASSUME NEW q \in 1..(l + 1), q # 1 PROVE r[q] # m
    <3>1. q - 1 \in 1..l /\ r[q] = s[q - 1]
      BY <1>5, <2>2
    <3> QED
      BY <1>6, <3>1
  <2> QED
    BY <1>5, <1>7, <2>1, <2>2
<1>8. In(r) \subseteq In(s) \cup {m}
  <2> SUFFICES ASSUME NEW j \in 1..(l + 1) PROVE r[j] \in In(s) \cup {m}
    BY <1>5 DEF In
  <2>1. CASE j = 1
    BY <1>5, <2>1
  <2>2. CASE j # 1
    <3>1. j - 1 \in 1..l /\ r[j] = s[j - 1]
      BY <1>5, <2>2
    <3> QED
      BY <1>6, <3>1
  <2> QED
    BY <2>1, <2>2
<1>9. In(s) \cup {m} \subseteq In(r)
  <2>1. m \in In(r)
    <3>1. 1 \in 1..Len(r)
      BY <1>5
    <3> QED
      BY <1>5, <3>1 DEF In
  <2>2. ASSUME NEW k \in 1..l PROVE s[k] \in In(r)
    BY <1>5, <1>6 DEF In
  <2> QED
    BY <1>1, <2>1, <2>2 DEF In
<1> QED
  BY <1>1, <1>5, <1>7, <1>8, <1>9 DEF Distinct

\* At most n members.
AtMost(S, n) == IsFiniteSet(S) /\ Cardinality(S) <= n

\* The addresses that only an uplink relay accounts for, those that calls are
\* about to add, and the calls under way.
Strays == espNow \ (registry \cup In(lru) \cup masters)
Pending == {call[u].hop : u \in {t \in Callers : call[t].stage \in {"drop", "add"}}}

\* No call is under way: what forwardingPeer does not name was left behind.
Quiet == Active = {} /\ AtMost(Strays \ Relay, overlaps)

\* One call is under way, and was so all the time since it began.  Once it has
\* dropped the relay before, its own is the only one to come.
Alone(t) ==
    /\ Active = {t} /\ ~call[t].raced
    /\ \/ /\ call[t].stage = "drop"
          /\ call[t].hop \notin Relay
          /\ AtMost(Strays \ Relay, overlaps)
       \/ /\ call[t].stage \in {"add", "head", "tail"}
          /\ AtMost(Strays \ {call[t].hop}, overlaps)
          /\ call[t].stage = "tail" => forwardingPeer.head = call[t].hop

\* Calls race.  The relay from before may be there in excess as long as every
\* one of them has still to drop it; the first to do so pays for it.
ToDrop(a) ==
    /\ Relay = {a}
    /\ AtMost(Strays \cup Pending, overlaps + 1)
    /\ \A t \in Active : call[t].stage = "drop" /\ call[t].hop # a

Racing ==
    /\ Active # {} /\ \A t \in Active : call[t].raced
    /\ AtMost(Strays \cup Pending, overlaps) \/ \E a \in Strays : ToDrop(a)

Mode == Quiet \/ (\E t \in Callers : Alone(t)) \/ Racing

\* The inductive invariant of the table.
OwnersInv ==
    /\ registry \subseteq Macs /\ Cardinality(registry) <= RegistryMax
    /\ lru \in Seq(Macs) /\ Len(lru) <= LruMax /\ Distinct(lru)
    /\ masters \subseteq MasterMacs /\ (master # NoMac => master \in masters)
    /\ espNow \subseteq Macs

CallsInv ==
    /\ forwardingPeer \in [head: Macs \cup {NoMac}, tail: Macs \cup {NoMac}]
    /\ call \in [Callers -> Calls]
    /\ overlaps \in Nat

\* A call under way has a board as its hop.
Named == \A t \in Callers : call[t].stage # "idle" => call[t].hop \in Macs

TableInv == OwnersInv /\ CallsInv /\ Named /\ Mode

\* Counting.
LEMMA FewerAtMost ==
    ASSUME NEW T, NEW n \in Nat, AtMost(T, n), NEW S, S \subseteq T
    PROVE  AtMost(S, n)
<1>1. IsFiniteSet(S) /\ Cardinality(S) <= Cardinality(T)
  BY FS_Subset DEF AtMost
<1>2. Cardinality(S) \in Nat /\ Cardinality(T) \in Nat
  BY <1>1, FS_CardinalityType DEF AtMost
<1> QED
  BY <1>1, <1>2 DEF AtMost

\* One address more, as registerPeerWithEspNow adds it.
LEMMA OneMoreAtMost ==
    ASSUME NEW S, NEW n \in Nat, AtMost(S, n), NEW x
    PROVE  AtMost(S \cup {x}, n + 1)
<1>1. IsFiniteSet(S) /\ Cardinality(S) \in Nat /\ Cardinality(S) <= n
  BY FS_CardinalityType DEF AtMost
<1>2. IsFiniteSet(S \cup {x}) /\ Cardinality(S \cup {x}) <= Cardinality(S) + 1
  BY <1>1, FS_AddElement
<1>3. Cardinality(S \cup {x}) \in Nat
  BY <1>2, FS_CardinalityType
<1> QED
  BY <1>1, <1>2, <1>3 DEF AtMost

\* One address fewer, as esp_now_del_peer takes it out.
LEMMA OneFewerAtMost ==
    ASSUME NEW S, NEW n \in Nat, AtMost(S, n + 1), NEW x \in S
    PROVE  AtMost(S \ {x}, n)
<1>1. IsFiniteSet(S) /\ Cardinality(S) \in Nat /\ Cardinality(S) <= n + 1
  BY FS_CardinalityType DEF AtMost
<1>2. IsFiniteSet(S \ {x}) /\ Cardinality(S \ {x}) = Cardinality(S) - 1
  BY <1>1, FS_RemoveElement
<1> QED
  BY <1>1, <1>2 DEF AtMost

\* The members of a list, as PeerTable has them.
LEMMA TableTerms == \A s : s \in Seq(Macs) => ToSet(s) = In(s)
  BY DEF ToSet, In

\* What becomes of the list of hops when the hop m is taken out of it.
LEMMA UntrackedIs ==
    ASSUME OwnersInv, NEW m \in Macs, NEW r, r = Untracked(m)
    PROVE  /\ r \in Seq(Macs) /\ Distinct(r) /\ In(r) = In(lru) \ {m}
           /\ Len(r) = IF m \in In(lru) THEN Len(lru) - 1 ELSE Len(lru)
<1>1. lru \in Seq(Macs) /\ Distinct(lru)
  BY DEF OwnersInv
<1>2. m \in In(lru) <=> Tracked(m) # {}
  BY DEF In, Tracked
<1>3. CASE Tracked(m) = {}
  <2>1. r = lru /\ m \notin In(lru)
    BY <1>2, <1>3 DEF Untracked
  <2> QED
    BY <1>1, <2>1
<1>4. CASE Tracked(m) # {}
  <2>1. PICK i : i = CHOOSE k \in Tracked(m) : TRUE
    OBVIOUS
  <2>2. i \in Tracked(m)
    BY <1>4, <2>1
  <2>3. i \in 1..Len(lru) /\ lru[i] = m
    BY <2>2 DEF Tracked
  <2>4. r = RemoveAt(lru, i)
    BY <1>4, <2>1 DEF Untracked
  <2>5. Without(r, lru, i)
    BY <1>1, <2>3, <2>4, RemoveAtIs
  <2> QED
    BY <1>2, <1>4, <2>3, <2>5 DEF Without
<1> QED
  BY <1>3, <1>4

\* A list of hops that is full, without its oldest.
LEMMA FrontIs ==
    ASSUME OwnersInv, Len(lru) = LruMax, LruMax \in Nat \ {0}, NEW r, r = Front(lru)
    PROVE  LruMax \in 1..Len(lru) /\ Without(r, lru, LruMax)
<1>1. PICK l \in Nat : l = LruMax
  OBVIOUS
<1>2. l >= 1 /\ Len(lru) = l /\ l \in 1..Len(lru)
  BY <1>1
<1>3. lru \in Seq(Macs) /\ Distinct(lru)
  BY DEF OwnersInv
<1>4. r = SubSeq(lru, 1, l - 1)
  BY <1>2 DEF Front
<1>5. r \in Seq(Macs) /\ Len(r) = l - 1 /\ \A j \in 1..(l - 1) : r[j] = lru[j]
  BY <1>2, <1>3, <1>4
<1>6. \A j \in 1..Len(r) : r[j] = IF j < l THEN lru[j] ELSE lru[j + 1]
  BY <1>2, <1>5
<1>7. Len(r) = Len(lru) - 1 /\ r \in Seq(Macs)
  BY <1>2, <1>5
<1>8. Without(r, lru, l)
  BY <1>2, <1>3, <1>6, <1>7, DroppedFrom
<1> QED
  BY <1>1, <1>2, <1>8

\* registerDownlinkPeer: how each of its ways changes the list and the table.
Hops(m, out) ==
    /\ lru' \in Seq(Macs) /\ Len(lru') <= LruMax /\ Distinct(lru')
    /\ In(lru) \ In(lru') \subseteq out
    /\ In(lru') \subseteq In(lru) \cup {m}

\* registerDownlinkPeer with an enrolled peer or the master: it leaves the list.
LEMMA RegisterOwnedIs ==
    ASSUME OwnersInv, NEW m \in Macs, RegisterOwned(m)
    PROVE  Hops(m, {m}) /\ (m \in registry \/ m \in masters)
<1>1. lru' = Untracked(m) /\ (m \in registry \/ (master # NoMac /\ m = master))
  BY DEF RegisterOwned, Owned
<1>2. lru' \in Seq(Macs) /\ Distinct(lru') /\ In(lru') = In(lru) \ {m} /\
      Len(lru') = IF m \in In(lru) THEN Len(lru) - 1 ELSE Len(lru)
  BY <1>1, UntrackedIs
<1>3. Len(lru) \in Nat /\ Len(lru) <= LruMax /\ LruMax \in Nat
  BY PeerTableConstants DEF OwnersInv
<1>4. Len(lru') <= LruMax
  BY <1>2, <1>3
<1> QED
  BY <1>1, <1>2, <1>4 DEF Hops, OwnersInv

\* ... with a hop of the list: the same hops in another order.
LEMMA TouchTrackedIs ==
    ASSUME OwnersInv, NEW m \in Macs, TouchTracked(m)
    PROVE  Hops(m, {}) /\ m \in In(lru')
<1>1. lru' = <<m>> \o Untracked(m) /\ Tracked(m) # {}
  BY DEF TouchTracked
<1>2. m \in In(lru)
  BY <1>1 DEF In, Tracked
<1>3. PICK r : r = Untracked(m)
  OBVIOUS
<1>4. /\ r \in Seq(Macs) /\ Distinct(r) /\ In(r) = In(lru) \ {m}
      /\ Len(r) = IF m \in In(lru) THEN Len(lru) - 1 ELSE Len(lru)
  BY <1>3, UntrackedIs
<1>5. m \notin In(r)
  BY <1>4
<1>6. lru' = <<m>> \o r
  BY <1>1, <1>3
<1>7. /\ lru' \in Seq(Macs) /\ Len(lru') = Len(r) + 1 /\ Distinct(lru') /\ In(lru') = In(r) \cup {m}
  BY <1>4, <1>5, <1>6, PutInFront
<1>8. Len(lru) \in Nat /\ Len(lru) <= LruMax /\ LruMax \in Nat
  BY PeerTableConstants DEF OwnersInv
<1>9. Len(lru') <= LruMax
  BY <1>2, <1>4, <1>7, <1>8
<1> QED
  BY <1>2, <1>4, <1>7, <1>9 DEF Hops

\* ... with a new hop: one more in the list.
LEMMA TrackWithRoomIs ==
    ASSUME OwnersInv, NEW m \in Macs, TrackWithRoom(m)
    PROVE  Hops(m, {}) /\ m \in In(lru')
<1>1. lru' = <<m>> \o lru /\ Tracked(m) = {} /\ Len(lru) < LruMax
  BY DEF TrackWithRoom
<1>2. m \notin In(lru)
  BY <1>1 DEF In, Tracked
<1>3. lru \in Seq(Macs) /\ Distinct(lru) /\ LruMax \in Nat
  BY PeerTableConstants DEF OwnersInv
<1>4. /\ lru' \in Seq(Macs) /\ Len(lru') = Len(lru) + 1 /\ Distinct(lru')
      /\ In(lru') = In(lru) \cup {m}
  BY <1>1, <1>2, <1>3, PutInFront
<1>5. Len(lru') <= LruMax
  BY <1>1, <1>3, <1>4
<1> QED
  BY <1>4, <1>5 DEF Hops

\* ... with a new hop and a full list: the oldest gives its place.
LEMMA TrackByEvictionIs ==
    ASSUME OwnersInv, NEW m \in Macs, TrackByEviction(m)
    PROVE  /\ Hops(m, {lru[LruMax]}) /\ m \in In(lru')
           /\ lru[LruMax] \in In(lru) /\ lru[LruMax] \notin In(lru')
<1>1. lru' = <<m>> \o Front(lru) /\ Tracked(m) = {} /\ Len(lru) = LruMax
  BY DEF TrackByEviction
<1>2. m \notin In(lru)
  BY <1>1 DEF In, Tracked
<1>3. LruMax \in Nat \ {0}
  BY PeerTableConstants
<1>4. PICK r : r = Front(lru)
  OBVIOUS
<1>5. LruMax \in 1..Len(lru) /\ Without(r, lru, LruMax)
  BY <1>1, <1>3, <1>4, FrontIs
<1>6. r \in Seq(Macs) /\ Len(r) = Len(lru) - 1 /\ Distinct(r) /\ In(r) = In(lru) \ {lru[LruMax]}
  BY <1>5 DEF Without
<1>7. lru' = <<m>> \o r /\ m \notin In(r)
  BY <1>1, <1>2, <1>4, <1>6
<1>8. /\ lru' \in Seq(Macs) /\ Len(lru') = Len(r) + 1 /\ Distinct(lru') /\ In(lru') = In(r) \cup {m}
  BY <1>6, <1>7, PutInFront
<1>9. Len(lru') <= LruMax
  BY <1>1, <1>3, <1>6, <1>8
<1>10. lru[LruMax] \in In(lru)
  BY <1>5 DEF In
<1> QED
  BY <1>2, <1>6, <1>8, <1>9, <1>10 DEF Hops

\* Whatever takes addresses out of the relays' account, and does nothing to the
\* calls, keeps the count.
LEMMA FewerStrays ==
    ASSUME TableInv, Strays' \subseteq Strays,
           call' = call, forwardingPeer' = forwardingPeer, overlaps' = overlaps
    PROVE  Mode'
<1>1. Active' = Active /\ Relay' = Relay /\ Pending' = Pending /\ overlaps \in Nat
  BY DEF Active, Relay, Pending, TableInv, CallsInv
<1>2. CASE Quiet
  BY <1>1, <1>2, FewerAtMost, Strays' \ Relay \subseteq Strays \ Relay DEF Quiet, Mode
<1>3. ASSUME NEW t \in Callers, Alone(t) PROVE Mode'
  <2>1. /\ AtMost(Strays \ Relay, overlaps) => AtMost(Strays' \ Relay, overlaps)
        /\ AtMost(Strays \ {call[t].hop}, overlaps) => AtMost(Strays' \ {call[t].hop}, overlaps)
    BY <1>1, FewerAtMost, Strays' \ Relay \subseteq Strays \ Relay,
       Strays' \ {call[t].hop} \subseteq Strays \ {call[t].hop}
  <2>2. Alone(t)'
    BY <1>1, <1>3, <2>1 DEF Alone
  <2> QED
    BY <2>2 DEF Mode
<1>4. CASE Racing
  <2>1. Strays' \cup Pending \subseteq Strays \cup Pending
    OBVIOUS
  <2>2. CASE AtMost(Strays \cup Pending, overlaps)
    BY <1>1, <1>4, <2>1, <2>2, FewerAtMost DEF Racing, Mode
  <2>3. ASSUME NEW a \in Strays, ToDrop(a) PROVE Mode'
    <3>1. CASE a \in Strays'
      <4>1. AtMost(Strays' \cup Pending, overlaps + 1)
        BY <1>1, <2>1, <2>3, FewerAtMost DEF ToDrop
      <4>2. ToDrop(a)'
        BY <1>1, <2>3, <4>1 DEF ToDrop
      <4> QED
        BY <1>1, <1>4, <3>1, <4>2 DEF Racing, Mode
    <3>2. CASE a \notin Strays'
      <4>1. a \notin Pending
        BY <2>3 DEF ToDrop, Pending, Active
      <4>2. AtMost((Strays \cup Pending) \ {a}, overlaps)
        BY <1>1, <2>3, OneFewerAtMost DEF ToDrop
      <4>3. AtMost(Strays' \cup Pending, overlaps)
        BY <1>1, <3>2, <4>1, <4>2, FewerAtMost,
           Strays' \cup Pending \subseteq (Strays \cup Pending) \ {a}
      <4> QED
        BY <1>1, <1>4, <4>3 DEF Racing, Mode
    <3> QED
      BY <3>1, <3>2
  <2> QED
    BY <1>4, <2>2, <2>3 DEF Racing
<1> QED
  BY <1>2, <1>3, <1>4 DEF TableInv, Mode

\* The owners other than the relays, after the steps that are theirs.
LEMMA OwnersStep ==
    ASSUME TableInv,
           \/ MasterTimesOut
           \/ \E m \in Macs : BeaconAccepted(m) \/ PeerEnrolled(m) \/ RegisterDownlinkPeer(m)
    PROVE  TableInv'
<1>1. OwnersInv /\ CallsInv
  BY DEF TableInv
<1>2. call' = call /\ forwardingPeer' = forwardingPeer /\ overlaps' = overlaps
  BY DEF MasterTimesOut, BeaconAccepted, PeerEnrolled, RegisterDownlinkPeer, RegisterOwned,
         TouchTracked, TrackWithRoom, TrackByEviction
<1>3. CallsInv' /\ Named'
  BY <1>1, <1>2 DEF CallsInv, Named, TableInv
<1>4. CASE MasterTimesOut
  BY <1>1, <1>2, <1>3, <1>4, FewerStrays
     DEF MasterTimesOut, OwnersInv, TableInv, Strays, Distinct, In
<1>5. ASSUME NEW m \in Macs, BeaconAccepted(m) PROVE TableInv'
  <2>1. /\ registry' = registry /\ lru' = lru /\ espNow' = espNow
        /\ masters' = masters \cup {m} /\ master' = m /\ m \in MasterMacs
    BY <1>5 DEF BeaconAccepted
  <2>2. OwnersInv' /\ Strays' \subseteq Strays
    BY <1>1, <2>1 DEF OwnersInv, Strays, Distinct, In
  <2> QED
    BY <1>2, <1>3, <2>2, FewerStrays DEF TableInv
<1>6. ASSUME NEW m \in Macs, PeerEnrolled(m) PROVE TableInv'
  <2>1. /\ m \in registry \/ Cardinality(registry) < RegistryMax
        /\ registry' = registry \cup {m} /\ espNow' = espNow \cup {m}
        /\ lru' = lru /\ master' = master /\ masters' = masters
    BY <1>6 DEF PeerEnrolled
  <2>2. IsFiniteSet(registry) /\ Cardinality(registry) \in Nat
    BY <1>1, FS_Subset, FS_CardinalityType, PeerTableConstants DEF OwnersInv
  <2>3. Cardinality(registry \cup {m}) =
          IF m \in registry THEN Cardinality(registry) ELSE Cardinality(registry) + 1
    BY <2>2, FS_AddElement
  <2>4. Cardinality(registry) <= RegistryMax /\ RegistryMax \in Nat
    BY <1>1, PeerTableConstants DEF OwnersInv
  <2>5. Cardinality(registry') <= RegistryMax
    BY <2>1, <2>2, <2>3, <2>4
  <2>6. OwnersInv' /\ Strays' \subseteq Strays
    BY <1>1, <2>1, <2>5 DEF OwnersInv, Strays, Distinct, In
  <2> QED
    BY <1>2, <1>3, <2>6, FewerStrays DEF TableInv
<1>7. ASSUME NEW m \in Macs, RegisterDownlinkPeer(m) PROVE TableInv'
  <2>1. /\ registry' = registry /\ master' = master /\ masters' = masters
        /\ \/ espNow' = espNow \cup {m}
           \/ TrackByEviction(m) /\ espNow' = (espNow \ {lru[LruMax]}) \cup {m}
    BY <1>7 DEF RegisterDownlinkPeer, RegisterOwned, TouchTracked,
                TrackWithRoom, TrackByEviction
  <2>2. /\ lru' \in Seq(Macs) /\ Len(lru') <= LruMax /\ Distinct(lru')
        /\ Strays' \subseteq Strays
    <3>1. CASE RegisterOwned(m)
      <4>1. espNow' = espNow \cup {m}
        BY <3>1 DEF RegisterOwned
      <4> QED
        BY <1>1, <2>1, <3>1, <4>1, RegisterOwnedIs DEF Hops, Strays
    <3>2. CASE TouchTracked(m) \/ TrackWithRoom(m)
      <4>1. espNow' = espNow \cup {m}
        BY <3>2 DEF TouchTracked, TrackWithRoom
      <4> QED
        BY <1>1, <2>1, <3>2, <4>1, TouchTrackedIs, TrackWithRoomIs DEF Hops, Strays
    <3>3. CASE TrackByEviction(m)
      <4>1. espNow' = (espNow \ {lru[LruMax]}) \cup {m}
        BY <3>3 DEF TrackByEviction
      <4> QED
        BY <1>1, <2>1, <3>3, <4>1, TrackByEvictionIs DEF Hops, Strays
    <3> QED
      BY <1>7, <3>1, <3>2, <3>3 DEF RegisterDownlinkPeer
  <2>3. espNow' \subseteq Macs
    BY <1>1, <2>1 DEF OwnersInv
  <2>4. OwnersInv'
    BY <1>1, <2>1, <2>2, <2>3 DEF OwnersInv
  <2> QED
    BY <1>2, <1>3, <2>2, <2>4, FewerStrays DEF TableInv
<1> QED
  BY <1>4, <1>5, <1>6, <1>7

\* A call that begins: the first one alone, any other one races.
LEMMA BeginStep ==
    ASSUME TableInv, NEW t \in Callers, NEW h \in Macs, FindNextHop(t, h)
    PROVE  TableInv'
<1>0. overlaps + 1 \in Nat /\ (overlaps + 1) + 1 \in Nat
  BY DEF TableInv, CallsInv
<1>1. OwnersInv /\ CallsInv /\ Mode /\ overlaps \in Nat
  BY DEF TableInv, CallsInv
<1>2. /\ UNCHANGED <<registry, master, lru, forwardingPeer, espNow, masters>>
      /\ call[t].stage = "idle" /\ master # NoMac
  BY DEF FindNextHop
<1> DEFINE drop == Relay \cap ({NoMac, h, master} \cup registry) = {}
           rest == Active \ {t}
           fresh == {u \in rest : ~call[u].raced}
           asked == [stage |-> IF drop THEN "drop" ELSE "add", hop |-> h, raced |-> FALSE]
           new == [asked EXCEPT !.raced = rest # {}]
<1>3. /\ call' = [u \in Callers |->
                    IF u = t THEN new
                    ELSE IF u \in rest THEN [call[u] EXCEPT !.raced = TRUE] ELSE call[u]]
      /\ overlaps' = overlaps + (IF rest = {} THEN 0 ELSE 1 + Cardinality(fresh))
  BY DEF FindNextHop, Begins
<1>4. OwnersInv'
  BY <1>1, <1>2 DEF OwnersInv, Distinct, In
<1>5. Strays' = Strays /\ Relay' = Relay
  BY <1>2 DEF Strays, Relay, In
<1>6. t \notin Active /\ rest = Active
  BY <1>2 DEF Active
<1>7. /\ new.stage = (IF drop THEN "drop" ELSE "add") /\ new.hop = h
      /\ (rest = {} => ~new.raced) /\ (rest # {} => new.raced)
      /\ new \in Calls /\ new.stage # "idle"
  BY DEF Calls, Stages
<1> HIDE DEF new
<1>8. call' \in [Callers -> Calls]
  BY <1>1, <1>3, <1>7 DEF CallsInv, Calls
<1>9. call'[t] = new /\ \A u \in Active : /\ u # t /\ call'[u].stage = call[u].stage
                                          /\ call'[u].hop = call[u].hop /\ call'[u].raced
  BY <1>1, <1>3, <1>6, <1>7 DEF CallsInv, Calls, Active
<1>10. Active' = Active \cup {t}
  BY <1>1, <1>3, <1>6, <1>7, <1>9 DEF CallsInv, Calls, Active
<1>named. Named'
  <2> SUFFICES ASSUME NEW u \in Callers, call'[u].stage # "idle" PROVE call'[u].hop \in Macs
    BY DEF Named
  <2>1. CASE u = t
    BY <1>7, <1>9, <2>1
  <2>2. CASE u # t
    <3>1. u \in Active
      BY <1>10, <2>2 DEF Active
    <3> QED
      BY <1>9, <3>1 DEF TableInv, Named, Active
  <2> QED
    BY <2>1, <2>2
<1>11. Pending' \subseteq Pending \cup {h}
  <2> SUFFICES ASSUME NEW u \in Callers, call'[u].stage \in {"drop", "add"}, u # t
               PROVE  call'[u].hop \in Pending
    BY <1>7, <1>9 DEF Pending
  <2>1. u \in Active
    BY <1>10 DEF Active
  <2> QED
    BY <1>9, <2>1 DEF Pending
\* A relay that is not to be dropped is no stray, or the hop itself.
<1>12. ~drop => Strays \cap Relay \subseteq {h}
  <2> SUFFICES ASSUME ~drop, NEW x \in Strays \cap Relay PROVE x = h
    OBVIOUS
  <2>1. PICK y \in Relay : y \in {NoMac, h, master} \cup registry
    OBVIOUS
  <2>2. x = y
    BY <2>1 DEF Relay
  <2>3. x \in Macs /\ x \notin registry /\ x \notin masters
    BY <1>1 DEF Strays, OwnersInv
  <2> QED
    BY <1>1, <1>2, <2>1, <2>2, <2>3, PeerTableConstants DEF OwnersInv
<1> HIDE DEF drop, rest, fresh
<1>13. CASE Quiet
  <2>1. Active' = {t} /\ overlaps' = overlaps /\ ~call'[t].raced
    BY <1>1, <1>3, <1>6, <1>7, <1>9, <1>10, <1>13 DEF Quiet
  <2>2. CASE drop
    <3>1. call'[t].stage = "drop" /\ call'[t].hop = h /\ h \notin Relay
      BY <1>7, <1>9, <2>2 DEF drop
    <3> QED
      BY <1>1, <1>4, <1>named, <1>5, <1>8, <1>2, <1>13, <2>1, <3>1 DEF Quiet, Alone, Mode, TableInv, CallsInv
  <2>3. CASE ~drop
    <3>1. call'[t].stage = "add" /\ call'[t].hop = h
      BY <1>7, <1>9, <2>3
    <3>2. Strays \ {h} \subseteq Strays \ Relay
      BY <1>12, <2>3
    <3>3. AtMost(Strays \ {h}, overlaps)
      BY <1>1, <1>13, <3>2, FewerAtMost DEF Quiet
    <3> QED
      BY <1>1, <1>2, <1>4, <1>named, <1>5, <1>8, <2>1, <3>1, <3>3 DEF Alone, Mode, TableInv, CallsInv
  <2> QED
    BY <2>2, <2>3
<1>14. ASSUME ~Quiet PROVE Active # {} /\ \A u \in Active' : call'[u].raced
  <2>1. Active # {}
    BY <1>1, <1>14 DEF Mode, Alone, Racing
  <2> QED
    BY <1>6, <1>7, <1>9, <1>10, <2>1
<1>15. ASSUME NEW u \in Callers, Alone(u) PROVE TableInv'
  <2>1. fresh = {u} /\ Active = {u} /\ ~Quiet
    BY <1>6, <1>15 DEF Alone, fresh, rest, Quiet
  <2>2. Cardinality(fresh) = 1
    BY <2>1, FS_Singleton
  <2>3. overlaps' = overlaps + 2 /\ overlaps' \in Nat
    BY <1>1, <1>3, <1>6, <2>1, <2>2
  <2>4. CallsInv'
    BY <1>1, <1>2, <1>8, <2>3 DEF CallsInv
  <2>5. Pending \subseteq {call[u].hop}
    BY <2>1 DEF Pending, Active
  <2>6. Strays' \cup Pending' \subseteq (Strays \cup {call[u].hop}) \cup {h}
    BY <1>5, <1>11, <2>5
  <2>7. ASSUME NEW S, AtMost(S, overlaps), Strays' \cup Pending' \subseteq (S \cup {call[u].hop}) \cup {h}
        PROVE  TableInv'
    <3>1. AtMost(S \cup {call[u].hop}, overlaps + 1)
      BY <1>1, <2>7, OneMoreAtMost
    <3>2. AtMost((S \cup {call[u].hop}) \cup {h}, (overlaps + 1) + 1)
      BY <1>0, <3>1, OneMoreAtMost
    <3>3. (overlaps + 1) + 1 = overlaps' /\ overlaps' \in Nat
      BY <1>1, <2>3
    <3>4. AtMost(Strays' \cup Pending', overlaps')
      BY <2>7, <3>2, <3>3, FewerAtMost
    <3> QED
      BY <1>4, <1>named, <1>10, <1>14, <2>1, <2>4, <3>4 DEF Racing, Mode, TableInv
  <2>8. CASE call[u].stage # "drop"
    <3>1. AtMost(Strays \ {call[u].hop}, overlaps)
      BY <1>15, <2>8 DEF Alone
    <3> QED
      BY <2>6, <2>7, <3>1
  <2>9. CASE call[u].stage = "drop"
    <3>1. AtMost(Strays \ Relay, overlaps) /\ call[u].hop \notin Relay
      BY <1>15, <2>9 DEF Alone
    <3>2. CASE Strays \cap Relay = {}
      BY <2>6, <2>7, <3>1, <3>2
    <3>3. ASSUME NEW a \in Strays \cap Relay PROVE TableInv'
      <4>1. Relay = {a}
        BY <3>3 DEF Relay
      <4>2. CASE h = a
        BY <2>6, <2>7, <3>1, <4>1, <4>2
      <4>3. CASE h # a
        <5>1. drop
          BY <1>12, <3>3, <4>3
        <5>2. \A w \in Active' : call'[w].stage = "drop" /\ call'[w].hop # a
          BY <1>7, <1>9, <1>10, <2>1, <2>9, <3>1, <4>1, <4>3, <5>1
        <5>3. AtMost((Strays \ Relay) \cup {a}, overlaps + 1)
          BY <1>1, <3>1, OneMoreAtMost
        <5>4. AtMost(((Strays \ Relay) \cup {a}) \cup {call[u].hop}, (overlaps + 1) + 1)
          BY <1>0, <5>3, OneMoreAtMost
        <5>5. AtMost((((Strays \ Relay) \cup {a}) \cup {call[u].hop}) \cup {h}, ((overlaps + 1) + 1) + 1)
          BY <1>0, <5>4, OneMoreAtMost
        <5>6. ((overlaps + 1) + 1) + 1 = overlaps' + 1 /\ overlaps' + 1 \in Nat
          BY <1>1, <2>3
        <5>7. Strays' \cup Pending' \subseteq (((Strays \ Relay) \cup {a}) \cup {call[u].hop}) \cup {h}
          BY <2>6, <4>1
        <5>8. AtMost(Strays' \cup Pending', overlaps' + 1)
          BY <5>5, <5>6, <5>7, FewerAtMost
        <5>9. ToDrop(a)' /\ a \in Strays'
          BY <1>5, <3>3, <4>1, <5>2, <5>8 DEF ToDrop
        <5> QED
          BY <1>4, <1>named, <1>10, <1>14, <2>1, <2>4, <5>9 DEF Racing, Mode, TableInv
      <4> QED
        BY <4>2, <4>3
    <3> QED
      BY <3>2, <3>3
  <2> QED
    BY <2>8, <2>9
<1>16. CASE Racing
  <2>1. fresh = {} /\ Active # {} /\ ~Quiet
    BY <1>6, <1>16 DEF Racing, fresh, rest, Quiet
  <2>2. Cardinality(fresh) = 0
    BY <2>1, FS_EmptySet
  <2>3. overlaps' = overlaps + 1 /\ overlaps' \in Nat
    BY <1>1, <1>3, <1>6, <2>1, <2>2
  <2>4. CallsInv'
    BY <1>1, <1>2, <1>8, <2>3 DEF CallsInv
  <2>5. Strays' \cup Pending' \subseteq (Strays \cup Pending) \cup {h}
    BY <1>5, <1>11
  <2>6. ASSUME NEW S, AtMost(S, overlaps), Strays' \cup Pending' \subseteq S \cup {h}
        PROVE  TableInv'
    <3>1. AtMost(S \cup {h}, overlaps')
      BY <1>1, <2>3, <2>6, OneMoreAtMost
    <3>2. AtMost(Strays' \cup Pending', overlaps')
      BY <2>3, <2>6, <3>1, FewerAtMost
    <3> QED
      BY <1>4, <1>named, <1>10, <1>14, <2>1, <2>4, <3>2 DEF Racing, Mode, TableInv
  <2>7. CASE AtMost(Strays \cup Pending, overlaps)
    BY <2>5, <2>6, <2>7
  <2>8. ASSUME NEW a \in Strays, ToDrop(a) PROVE TableInv'
    <3>1. Relay = {a} /\ AtMost(Strays \cup Pending, overlaps + 1)
      BY <2>8 DEF ToDrop
    <3>2. CASE h = a
      <4>1. Strays' \cup Pending' \subseteq Strays \cup Pending
        BY <2>5, <3>2
      <4>2. AtMost(Strays' \cup Pending', overlaps')
        BY <1>1, <2>3, <3>1, <4>1, FewerAtMost
      <4> QED
        BY <1>4, <1>named, <1>10, <1>14, <2>1, <2>4, <4>2 DEF Racing, Mode, TableInv
    <3>3. CASE h # a
      <4>1. drop
        BY <1>12, <2>8, <3>1, <3>3
      <4>2. \A w \in Active' : call'[w].stage = "drop" /\ call'[w].hop # a
        BY <1>7, <1>9, <1>10, <2>8, <3>3, <4>1 DEF ToDrop
      <4>3. AtMost((Strays \cup Pending) \cup {h}, (overlaps + 1) + 1)
        BY <1>0, <3>1, OneMoreAtMost
      <4>4. (overlaps + 1) + 1 = overlaps' + 1 /\ overlaps' + 1 \in Nat
        BY <1>1, <2>3
      <4>5. AtMost(Strays' \cup Pending', overlaps' + 1)
        BY <2>5, <4>3, <4>4, FewerAtMost
      <4>6. ToDrop(a)' /\ a \in Strays'
        BY <1>5, <2>8, <3>1, <4>2, <4>5 DEF ToDrop
      <4> QED
        BY <1>4, <1>named, <1>10, <1>14, <2>1, <2>4, <4>6 DEF Racing, Mode, TableInv
    <3> QED
      BY <3>2, <3>3
  <2> QED
    BY <1>16, <2>7, <2>8 DEF Racing
<1> QED
  BY <1>1, <1>13, <1>15, <1>16 DEF Mode

\* What a call that is under way changes of the calls.
LEMMA CallMoves ==
    ASSUME CallsInv, NEW t \in Callers, NEW s \in Stages \ {"idle"}, Moves(t, s),
           call[t].stage # "idle"
    PROVE  /\ call' \in [Callers -> Calls] /\ Active' = Active /\ t \in Active
           /\ call'[t].stage = s /\ call'[t].hop = call[t].hop /\ (call'[t].raced <=> call[t].raced)
           /\ \A u \in Callers \ {t} : call'[u] = call[u]
<1>1. call' = [call EXCEPT ![t] = [call[t] EXCEPT !.stage = s]]
  BY DEF Moves
<1>2. /\ call[t] \in Calls /\ [call[t] EXCEPT !.stage = s] \in Calls
      /\ \A u \in Callers \ {t} : call'[u] = call[u]
      /\ call'[t] = [call[t] EXCEPT !.stage = s]
  BY <1>1 DEF CallsInv, Calls
<1>3. call' \in [Callers -> Calls] /\ call'[t].stage = s
  BY <1>1, <1>2 DEF CallsInv, Calls
<1> QED
  BY <1>1, <1>2, <1>3 DEF Calls, Active

\* The relay before is deleted: a call that is alone has only its own hop to
\* add, and calls that race have lost the one address in excess.
LEMMA DropStep ==
    ASSUME TableInv, NEW t \in Callers, DropRelay(t)
    PROVE  TableInv'
<1>1. OwnersInv /\ CallsInv /\ Named /\ Mode /\ overlaps \in Nat
  BY DEF TableInv, CallsInv
<1>2. /\ UNCHANGED <<registry, master, lru, forwardingPeer, masters, overlaps>>
      /\ espNow' = espNow \ Relay /\ call[t].stage = "drop" /\ Moves(t, "add")
  BY DEF DropRelay
<1>3. /\ call' \in [Callers -> Calls] /\ Active' = Active /\ t \in Active
      /\ call'[t].stage = "add" /\ call'[t].hop = call[t].hop /\ (call'[t].raced <=> call[t].raced)
      /\ \A u \in Callers \ {t} : call'[u] = call[u]
  BY <1>1, <1>2, CallMoves DEF Stages
<1>4. OwnersInv' /\ CallsInv' /\ Named' /\ Relay' = Relay
  BY <1>1, <1>2, <1>3 DEF Active, OwnersInv, CallsInv, Named, Distinct, In, Relay
<1>5. Strays' = Strays \ Relay
  BY <1>2 DEF Strays, In
<1>6. Pending' = Pending
  BY <1>2, <1>3 DEF Pending
<1>7. ASSUME NEW u \in Callers, Alone(u) PROVE Mode'
  <2>1. u = t /\ AtMost(Strays \ Relay, overlaps)
    BY <1>2, <1>3, <1>7 DEF Alone
  <2>2. AtMost(Strays' \ {call[t].hop}, overlaps)
    BY <1>1, <1>5, <2>1, FewerAtMost, Strays' \ {call[t].hop} \subseteq Strays \ Relay
  <2> QED
    BY <1>2, <1>3, <1>7, <2>1, <2>2 DEF Alone, Mode
<1>8. CASE Racing
  <2>1. Active' # {} /\ \A u \in Active' : call'[u].raced
    BY <1>3, <1>8 DEF Racing, Active
  <2>2. AtMost(Strays' \cup Pending', overlaps)
    <3>1. CASE AtMost(Strays \cup Pending, overlaps)
      BY <1>1, <1>5, <1>6, <3>1, FewerAtMost, Strays' \cup Pending \subseteq Strays \cup Pending
    <3>2. ASSUME NEW a \in Strays, ToDrop(a) PROVE AtMost(Strays' \cup Pending', overlaps)
      <4>1. Relay = {a} /\ a \notin Pending
        BY <3>2 DEF ToDrop, Pending, Active
      <4>2. AtMost((Strays \cup Pending) \ {a}, overlaps)
        BY <1>1, <3>2, OneFewerAtMost DEF ToDrop
      <4> QED
        BY <1>5, <1>6, <4>1, <4>2, Strays' \cup Pending' = (Strays \cup Pending) \ {a}
    <3> QED
      BY <1>8, <3>1, <3>2 DEF Racing
  <2>3. AtMost(Strays' \cup Pending', overlaps')
    BY <1>2, <2>2
  <2> QED
    BY <1>4, <2>1, <2>3 DEF Racing, Mode, TableInv
<1> QED
  BY <1>1, <1>3, <1>4, <1>7, <1>8 DEF Mode, Quiet, TableInv

\* The new relay is added: it was counted.
LEMMA AddStep ==
    ASSUME TableInv, NEW t \in Callers, AddRelay(t)
    PROVE  TableInv'
<1>1. OwnersInv /\ CallsInv /\ Named /\ Mode /\ overlaps \in Nat
  BY DEF TableInv, CallsInv
<1>2. /\ UNCHANGED <<registry, master, lru, forwardingPeer, masters, overlaps>>
      /\ espNow' = espNow \cup {call[t].hop} /\ call[t].stage = "add" /\ Moves(t, "head")
  BY DEF AddRelay
<1>3. /\ call' \in [Callers -> Calls] /\ Active' = Active /\ t \in Active
      /\ call'[t].stage = "head" /\ call'[t].hop = call[t].hop /\ (call'[t].raced <=> call[t].raced)
      /\ \A u \in Callers \ {t} : call'[u] = call[u]
  BY <1>1, <1>2, CallMoves DEF Stages
<1>4. call[t].hop \in Macs
  BY <1>1, <1>2 DEF TableInv, Named
<1>5. OwnersInv' /\ CallsInv' /\ Named' /\ Relay' = Relay
  BY <1>1, <1>2, <1>3, <1>4 DEF Active, NoCall, OwnersInv, CallsInv, Named, Distinct, In, Relay
<1>6. Strays' \subseteq Strays \cup {call[t].hop}
  BY <1>2 DEF Strays, In
<1>7. Pending' \subseteq Pending /\ call[t].hop \in Pending
  BY <1>2, <1>3 DEF Pending
<1>8. ASSUME NEW u \in Callers, Alone(u) PROVE Mode'
  <2>1. u = t /\ AtMost(Strays \ {call[t].hop}, overlaps)
    BY <1>2, <1>3, <1>8 DEF Alone
  <2>2. AtMost(Strays' \ {call[t].hop}, overlaps)
    BY <1>1, <1>6, <2>1, FewerAtMost, Strays' \ {call[t].hop} \subseteq Strays \ {call[t].hop}
  <2> QED
    BY <1>2, <1>3, <1>8, <2>1, <2>2 DEF Alone, Mode
<1>9. CASE Racing
  <2>1. Active' # {} /\ \A u \in Active' : call'[u].raced
    BY <1>3, <1>9 DEF Racing, Active
  <2>2. AtMost(Strays \cup Pending, overlaps)
    BY <1>2, <1>3, <1>9 DEF Racing, ToDrop
  <2>3. AtMost(Strays' \cup Pending', overlaps)
    BY <1>1, <1>6, <1>7, <2>2, FewerAtMost, Strays' \cup Pending' \subseteq Strays \cup Pending
  <2>4. AtMost(Strays' \cup Pending', overlaps')
    BY <1>2, <2>3
  <2> QED
    BY <1>5, <2>1, <2>4 DEF Racing, Mode, TableInv
<1> QED
  BY <1>1, <1>3, <1>5, <1>8, <1>9 DEF Mode, Quiet, TableInv

\* The copy into forwardingPeer.
LEMMA CopyHeadStep ==
    ASSUME TableInv, NEW t \in Callers, CopyHead(t)
    PROVE  TableInv'
<1>1. OwnersInv /\ CallsInv /\ Named /\ Mode /\ overlaps \in Nat
  BY DEF TableInv, CallsInv
<1>2. /\ UNCHANGED <<registry, master, lru, espNow, masters, overlaps>>
      /\ forwardingPeer' = [forwardingPeer EXCEPT !.head = call[t].hop]
      /\ call[t].stage = "head" /\ Moves(t, "tail")
  BY DEF CopyHead
<1>3. /\ call' \in [Callers -> Calls] /\ Active' = Active /\ t \in Active
      /\ call'[t].stage = "tail" /\ call'[t].hop = call[t].hop /\ (call'[t].raced <=> call[t].raced)
      /\ \A u \in Callers \ {t} : call'[u] = call[u]
  BY <1>1, <1>2, CallMoves DEF Stages
<1>4. call[t].hop \in Macs /\ forwardingPeer'.head = call[t].hop
  BY <1>1, <1>2 DEF TableInv, Named, CallsInv
<1>5. OwnersInv' /\ CallsInv' /\ Named' /\ Strays' = Strays
  BY <1>1, <1>2, <1>3, <1>4 DEF Active, NoCall, OwnersInv, CallsInv, Named, Distinct, In, Strays
<1>6. Pending' = Pending
  BY <1>2, <1>3 DEF Pending
<1>7. ASSUME NEW u \in Callers, Alone(u) PROVE Mode'
  <2>1. u = t /\ AtMost(Strays \ {call[t].hop}, overlaps)
    BY <1>2, <1>3, <1>7 DEF Alone
  <2> QED
    BY <1>2, <1>3, <1>4, <1>5, <1>7, <2>1 DEF Alone, Mode
<1>8. CASE Racing
  <2>1. Active' # {} /\ \A u \in Active' : call'[u].raced
    BY <1>3, <1>8 DEF Racing, Active
  <2>2. AtMost(Strays \cup Pending, overlaps)
    BY <1>2, <1>3, <1>8 DEF Racing, ToDrop
  <2>3. AtMost(Strays' \cup Pending', overlaps')
    BY <1>2, <1>5, <1>6, <2>2
  <2> QED
    BY <1>5, <2>1, <2>3 DEF Racing, Mode, TableInv
<1> QED
  BY <1>1, <1>3, <1>5, <1>7, <1>8 DEF Mode, Quiet, TableInv

\* ... and its second half: the call returns, and its relay is the one on record.
LEMMA CopyTailStep ==
    ASSUME TableInv, NEW t \in Callers, CopyTail(t)
    PROVE  TableInv'
<1>1. OwnersInv /\ CallsInv /\ Named /\ Mode /\ overlaps \in Nat
  BY DEF TableInv, CallsInv
<1>2. /\ UNCHANGED <<registry, master, lru, espNow, masters, overlaps>>
      /\ forwardingPeer' = [forwardingPeer EXCEPT !.tail = call[t].hop]
      /\ call[t].stage = "tail" /\ call' = [call EXCEPT ![t] = NoCall]
  BY DEF CopyTail
<1>3. /\ call' \in [Callers -> Calls] /\ Active' = Active \ {t} /\ t \in Active
      /\ \A u \in Callers \ {t} : call'[u] = call[u]
  BY <1>1, <1>2 DEF CallsInv, Calls, Stages, NoCall, Active
<1>4. call[t].hop \in Macs /\ forwardingPeer'.tail = call[t].hop
      /\ forwardingPeer'.head = forwardingPeer.head
  BY <1>1, <1>2 DEF TableInv, Named, CallsInv
<1>5. OwnersInv' /\ CallsInv' /\ Named' /\ Strays' = Strays
  BY <1>1, <1>2, <1>3, <1>4 DEF Active, NoCall, OwnersInv, CallsInv, Named, Distinct, In, Strays
<1>6. Pending' \subseteq Pending
  BY <1>2, <1>3 DEF Pending, NoCall, CallsInv
<1>7. ASSUME NEW u \in Callers, Alone(u) PROVE Mode'
  <2>1. u = t /\ AtMost(Strays \ {call[t].hop}, overlaps) /\ forwardingPeer.head = call[t].hop
    BY <1>2, <1>3, <1>7 DEF Alone
  <2>2. Relay' = {call[t].hop} /\ Active' = {}
    BY <1>3, <1>4, <1>7, <2>1 DEF Relay, Alone
  <2> QED
    BY <1>2, <1>5, <2>1, <2>2 DEF Quiet, Mode
<1>8. CASE Racing
  <2>1. AtMost(Strays \cup Pending, overlaps)
    BY <1>2, <1>3, <1>8 DEF Racing, ToDrop
  <2>2. AtMost(Strays \cup Pending', overlaps) /\ AtMost(Strays \ Relay', overlaps)
    BY <1>1, <1>6, <2>1, FewerAtMost, Strays \cup Pending' \subseteq Strays \cup Pending,
       Strays \ Relay' \subseteq Strays \cup Pending
  <2>3. AtMost(Strays' \cup Pending', overlaps') /\ AtMost(Strays' \ Relay', overlaps')
    BY <1>2, <1>5, <2>2
  <2>4. CASE Active' = {}
    BY <1>5, <2>3, <2>4 DEF Quiet, Mode, TableInv
  <2>5. CASE Active' # {}
    <3>1. \A u \in Active' : call'[u].raced
      BY <1>3, <1>8 DEF Racing, Active
    <3> QED
      BY <1>5, <2>3, <2>5, <3>1 DEF Racing, Mode, TableInv
  <2> QED
    BY <2>4, <2>5
<1> QED
  BY <1>1, <1>3, <1>5, <1>7, <1>8 DEF Mode, Quiet, TableInv

\* The inductive invariant of the driver's table: its owners keep within their
\* capacities, the list of hops has none twice, the current master is among the
\* masters of this boot, and the relays are counted at every step of the calls,
\* whichever way two of them interleave.
THEOREM TableInvariant == TableSpec => []TableInv
<1>1. ASSUME TableInit PROVE TableInv
  <2>1. << >> \in Seq(Macs) /\ Len(<< >>) = 0 /\ Cardinality({}) = 0 /\ IsFiniteSet({})
    BY FS_EmptySet
  <2>2. OwnersInv
    BY <1>1, <2>1, PeerTableConstants DEF TableInit, OwnersInv, Distinct, In
  <2>3. CallsInv /\ Named /\ Active = {}
    BY <1>1 DEF TableInit, CallsInv, Named, Calls, Stages, NoCall, Active
  <2>4. Strays \ Relay = {}
    BY <1>1 DEF TableInit, Strays
  <2>5. AtMost({}, overlaps)
    BY <1>1, <2>1 DEF TableInit, AtMost
  <2> QED
    BY <1>1, <2>2, <2>3, <2>4, <2>5 DEF TableInv, Mode, Quiet
<1>2. ASSUME TableInv, [TableNext]_tableVars PROVE TableInv'
  <2>1. CASE TableRestart
    <3>1. << >> \in Seq(Macs) /\ Len(<< >>) <= LruMax /\ Distinct(<< >>) /\ In(<< >>) = {}
      BY PeerTableConstants DEF Distinct, In
    <3>2. /\ lru' = << >> /\ espNow' = registry /\ registry' = registry
          /\ master' = NoMac /\ masters' = {} /\ overlaps' = 0
          /\ call' = [t \in Callers |-> NoCall]
          /\ forwardingPeer' = [head |-> NoMac, tail |-> NoMac]
      BY <2>1 DEF TableRestart
    <3>3. OwnersInv'
      BY <1>2, <3>1, <3>2 DEF TableInv, OwnersInv, Distinct, In
    <3>4. CallsInv' /\ Named' /\ Active' = {}
      BY <3>2 DEF CallsInv, Named, Calls, Stages, NoCall, Active
    <3>5. Strays' \ Relay' = {} /\ AtMost({}, overlaps')
      BY <3>2, FS_EmptySet DEF Strays, AtMost
    <3> QED
      BY <3>3, <3>4, <3>5 DEF TableInv, Mode, Quiet
  <2>2. CASE UNCHANGED tableVars
    <3>1. UNCHANGED <<Strays, Relay, Pending, Active>>
      BY <2>2 DEF tableVars, Strays, Relay, Pending, Active, In
    <3>2. OwnersInv' /\ CallsInv' /\ Named'
      BY <1>2, <2>2 DEF tableVars, TableInv, OwnersInv, CallsInv, Named, Distinct, In
    <3>3. call' = call /\ forwardingPeer' = forwardingPeer /\ overlaps' = overlaps
      BY <2>2 DEF tableVars
    <3> QED
      BY <1>2, <3>1, <3>2, <3>3, FewerStrays DEF TableInv
  <2> QED
    BY <1>2, <2>1, <2>2, OwnersStep, BeginStep, DropStep, AddStep, CopyHeadStep, CopyTailStep
       DEF TableNext
<1> QED
  BY <1>1, <1>2, PTL DEF TableSpec

\* Besides its other owners the driver's table holds one relay, and one more for
\* each call of findNextHopToMaster that overlapped another one, whatever boards
\* come and go and wherever the two tasks interleave (UplinkRouter.cpp:39-59).
THEOREM RelaysCounted == TableSpec => []TableBounded
<1>1. ASSUME TableInv PROVE AtMost(Strays, overlaps + 1)
  <2>1. overlaps \in Nat /\ overlaps + 1 \in Nat
    BY <1>1 DEF TableInv, CallsInv
  <2>2. ASSUME NEW x, AtMost(Strays \ {x}, overlaps) PROVE AtMost(Strays, overlaps + 1)
    <3>1. AtMost((Strays \ {x}) \cup {x}, overlaps + 1)
      BY <2>1, <2>2, OneMoreAtMost
    <3> QED
      BY <2>1, <3>1, FewerAtMost, Strays \subseteq (Strays \ {x}) \cup {x}
  <2>3. AtMost(Strays \ Relay, overlaps) => AtMost(Strays, overlaps + 1)
    <3>1. PICK x : Relay \subseteq {x}
      BY DEF Relay
    <3>2. ASSUME AtMost(Strays \ Relay, overlaps) PROVE AtMost(Strays, overlaps + 1)
      BY <2>1, <2>2, <3>1, <3>2, FewerAtMost, Strays \ {x} \subseteq Strays \ Relay
    <3> QED
      BY <3>2
  <2>4. CASE Racing
    <3>1. AtMost(Strays \cup Pending, overlaps) \/ AtMost(Strays \cup Pending, overlaps + 1)
      BY <2>4 DEF Racing, ToDrop
    <3>2. AtMost(Strays, overlaps) \/ AtMost(Strays, overlaps + 1)
      BY <2>1, <3>1, FewerAtMost, Strays \subseteq Strays \cup Pending
    <3> QED
      BY <2>1, <3>2, FS_CardinalityType DEF AtMost
  <2> QED
    BY <1>1, <2>2, <2>3, <2>4 DEF TableInv, Mode, Quiet, Alone
<1>2. ASSUME TableInv PROVE TableBounded
  <2>1. Relays = Strays
    BY <1>2, TableTerms DEF Relays, Strays, TableInv, OwnersInv
  <2> QED
    BY <1>1, <1>2, <2>1 DEF TableBounded, AtMost, TableInv, CallsInv
<1> QED
  BY <1>2, TableInvariant, PTL

\* A union has at most as many members as its parts.
LEMMA UnionBound ==
    ASSUME NEW S, IsFiniteSet(S), NEW T, IsFiniteSet(T)
    PROVE  /\ IsFiniteSet(S \cup T) /\ Cardinality(S \cup T) \in Nat
           /\ Cardinality(S \cup T) <= Cardinality(S) + Cardinality(T)
<1>1. IsFiniteSet(S \cap T)
  <2>1. S \cap T \in SUBSET S
    OBVIOUS
  <2> QED
    BY <2>1, FS_Subset
<1>2. /\ IsFiniteSet(S \cup T)
      /\ Cardinality(S \cup T) = Cardinality(S) + Cardinality(T) - Cardinality(S \cap T)
  BY FS_Union
<1>3. /\ Cardinality(S) \in Nat /\ Cardinality(T) \in Nat /\ Cardinality(S \cap T) \in Nat
      /\ Cardinality(S \cup T) \in Nat
  BY <1>1, <1>2, FS_CardinalityType
<1> QED
  BY <1>2, <1>3

\* Forwarding cannot exhaust the driver's table as long as its calls do not
\* overlap: what it holds is bounded by the capacities of its owners, 16 of the 19
\* places beside the broadcast address in the code, and the calls that overlapped
\* (UplinkRouter.cpp:39-46, DownlinkRouter.cpp:100-104).
THEOREM DriverTableBounded ==
    TableSpec => [](Cardinality(espNow) <= RegistryMax + LruMax + Cardinality(MasterMacs) + 1 + overlaps)
<1>1. ASSUME TableInv, TableBounded
      PROVE  Cardinality(espNow) <= RegistryMax + LruMax + Cardinality(MasterMacs) + 1 + overlaps
  <2>0. OwnersInv /\ overlaps \in Nat
    BY <1>1 DEF TableInv, CallsInv
  <2>1. PICK l \in Nat : l = Len(lru) /\ l <= LruMax
    BY <2>0 DEF OwnersInv
  <2>2. IsFiniteSet(In(lru)) /\ Cardinality(In(lru)) <= LruMax
    <3>1. lru \in Surjection(1..l, In(lru))
      BY <2>0, <2>1 DEF OwnersInv, In, Surjection
    <3>2. IsFiniteSet(1..l) /\ Cardinality(1..l) = l
      BY FS_Interval
    <3>3. IsFiniteSet(In(lru)) /\ Cardinality(In(lru)) <= l
      BY <3>1, <3>2, FS_Surjection
    <3>4. Cardinality(In(lru)) \in Nat
      BY <3>3, FS_CardinalityType
    <3> QED
      BY <2>1, <3>3, <3>4, PeerTableConstants
  <2>3. /\ IsFiniteSet(registry) /\ Cardinality(registry) <= RegistryMax
        /\ IsFiniteSet(MasterMacs) /\ MasterMacs \subseteq Macs /\ registry \subseteq Macs
        /\ IsFiniteSet(espNow) /\ masters \subseteq MasterMacs
    BY <2>0, FS_Subset, PeerTableConstants DEF OwnersInv
  <2>4. /\ Relays \subseteq espNow /\ IsFiniteSet(Relays)
        /\ Cardinality(Relays) \in Nat /\ Cardinality(Relays) <= 1 + overlaps
    BY <1>1, <2>3, FS_Subset, FS_CardinalityType DEF Relays, TableBounded
  <2> DEFINE A == registry \cup In(lru)
             B == A \cup Relays
             C == B \cup MasterMacs
  <2>5. /\ IsFiniteSet(A) /\ Cardinality(A) \in Nat
        /\ Cardinality(A) <= Cardinality(registry) + Cardinality(In(lru))
    BY <2>2, <2>3, UnionBound
  <2> HIDE DEF A
  <2>6. /\ IsFiniteSet(B) /\ Cardinality(B) \in Nat
        /\ Cardinality(B) <= Cardinality(A) + Cardinality(Relays)
    BY <2>4, <2>5, UnionBound
  <2> HIDE DEF B
  <2>7. /\ IsFiniteSet(C) /\ Cardinality(C) \in Nat
        /\ Cardinality(C) <= Cardinality(B) + Cardinality(MasterMacs)
    BY <2>3, <2>6, UnionBound
  <2> HIDE DEF C
  <2>8. espNow \subseteq C
    BY <2>0, <2>3, TableTerms DEF OwnersInv, Relays, A, B, C
  <2>9. Cardinality(espNow) <= Cardinality(C) /\ Cardinality(espNow) \in Nat
    BY <2>7, <2>8, FS_Subset, FS_CardinalityType
  <2>10. /\ Cardinality(registry) \in Nat /\ Cardinality(In(lru)) \in Nat
         /\ Cardinality(MasterMacs) \in Nat /\ RegistryMax \in Nat /\ LruMax \in Nat
    BY <2>2, <2>3, FS_CardinalityType, PeerTableConstants
  <2> QED
    BY <2>0, <2>2, <2>3, <2>4, <2>5, <2>6, <2>7, <2>9, <2>10
<1> QED
  BY <1>1, TableInvariant, RelaysCounted, PTL
=============================================================================
