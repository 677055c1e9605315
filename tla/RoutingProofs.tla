---------------------------- MODULE RoutingProofs ----------------------------
(***************************************************************************)
(* Routing in every mesh: any number of leaves, any radio links between    *)
(* them, any sizes of the tables and any hop limit, with frames delayed,   *)
(* lost, duplicated and out of order, and leaves that restart.             *)
(***************************************************************************)
EXTENDS Routing, FiniteSetTheorems, SequenceTheorems, TLAPS

-----------------------------------------------------------------------------
(***************************************************************************)
(* Types.                                                                  *)
(***************************************************************************)

Frames == [type : {"BEACON", "DATA", "REPORT", "DOWN"}, origin : Nodes, target : Nodes, seq : Nat,
           hop : 0..MaxHops, path : Seq(Leaves), from : Nodes, to : Nodes]

\* The master is neither the origin of an uplink frame nor the receiver of a beacon.
Addressed(f) ==
    /\ f.type \in {"DATA", "REPORT"} => f.origin \in Leaves
    /\ f.type = "BEACON" => f.to \in Leaves

Entries == [mac : Nodes, dist : 0..(MaxHops - 1)]
Routes == [node : Leaves, path : Seq(Leaves)]

RoutingTypes ==
    /\ seq \in [Nodes -> Nat]
    /\ marks \in [Nodes -> [Nodes -> Nat]]
    /\ table \in [Leaves -> Seq(Entries)]
    /\ fresh \in [Leaves -> Nat]
    /\ \A n \in Leaves : fresh[n] <= Len(table[n])
    /\ dist \in [Leaves -> Nat]
    /\ pending \in [Leaves -> SUBSET [seq : Nat, hop : 0..MaxHops]]
    /\ routes \in Seq(Routes)
    /\ air \subseteq Frames
    /\ \A f \in air : Addressed(f)
    /\ rebooted \subseteq Leaves

Linked(x, y) == <<x, y>> \in Links

\* The nodes, and the links between them.
LEMMA NodeFacts ==
    /\ Master \in Nodes /\ Leaves \subseteq Nodes /\ Master \notin Leaves
    /\ \A n \in Nodes : n # Master => n \in Leaves
    /\ \A x, y : Linked(x, y) => x \in Nodes /\ y \in Nodes /\ Linked(y, x)
    /\ MaxHops \in Nat /\ MaxHops >= 1
<1>1. \A x, y : Linked(x, y) => x \in Nodes /\ y \in Nodes
  BY RoutingConstants DEF Linked, Nodes
<1>2. ASSUME NEW x, NEW y, Linked(x, y) PROVE Linked(y, x)
  <2>1. PICK l \in Links : l = <<x, y>>
    BY <1>2 DEF Linked
  <2>2. <<l[2], l[1]>> \in Links
    BY RoutingConstants
  <2> QED
    BY <2>1, <2>2 DEF Linked
<1>3. MaxHops \in Nat /\ MaxHops >= 1 /\ Master \notin Leaves
  BY RoutingConstants
<1> QED
  BY <1>1, <1>2, <1>3 DEF Nodes

\* A set of numbers has a least member.
LEMMA MinMember == ASSUME NEW S, S \subseteq Nat, S # {} PROVE Min(S) \in S
<1>1. PICK x \in S : \A y \in S : ~(<<y, x>> \in OpToRel(<, Nat))
  BY NatLessThanWellFounded, WFMin
<1>2. \A y \in S : x <= y
  <2> SUFFICES ASSUME NEW y \in S PROVE x <= y
    OBVIOUS
  <2>1. x \in Nat /\ y \in Nat
    OBVIOUS
  <2>2. ~(y < x)
    BY <1>1, <2>1 DEF OpToRel
  <2> QED
    BY <2>1, <2>2
<1> QED
  BY <1>2 DEF Min

\* A table in which e takes slot i, or an unused one: e and members it had.
Taking(s, i, e) == <<e>> \o (IF i = 0 THEN s ELSE RemoveAt(s, i))

Taken(T, r, s, i, e) ==
    /\ r \in Seq(T)
    /\ Len(r) = IF i = 0 THEN Len(s) + 1 ELSE Len(s)
    /\ \A j \in 1..Len(r) : r[j] = e \/ \E k \in 1..Len(s) : r[j] = s[k]

\* What a table holds once an entry has taken its slot.
LEMMA SlotTaken ==
    ASSUME NEW T, NEW s \in Seq(T), NEW e \in T, NEW i \in 0..Len(s)
    PROVE  Taken(T, Taking(s, i, e), s, i, e)
<1> DEFINE r == Taking(s, i, e)
           kept == IF i = 0 THEN s ELSE RemoveAt(s, i)
<1>1. PICK l \in Nat : l = Len(s)
  OBVIOUS
<1>2. /\ kept \in Seq(T) /\ Len(kept) = IF i = 0 THEN l ELSE l - 1
      /\ \A j \in 1..Len(kept) : \E k \in 1..l : kept[j] = s[k]
  <2>1. CASE i = 0
    BY <1>1, <2>1
  <2>2. CASE i # 0
    <3> DEFINE a == SubSeq(s, 1, i - 1)
               b == SubSeq(s, i + 1, l)
    <3>1. i \in 1..l /\ kept = a \o b
      <4>1. i \in 1..l
        BY <1>1, <2>2
      <4>2. RemoveAt(s, i) = a \o b
        BY <1>1 DEF RemoveAt
      <4> QED
        BY <2>2, <4>1, <4>2
    <3>2. /\ a \in Seq(T) /\ Len(a) = i - 1
          /\ \A j \in 1..(i - 1) : a[j] = s[j]
      BY <1>1, <3>1
    <3>3. /\ b \in Seq(T) /\ Len(b) = l - i
          /\ \A j \in 1..(l - i) : b[j] = s[i + j]
      BY <1>1, <3>1
    <3> HIDE DEF a, b, kept
    <3>4. /\ a \o b \in Seq(T) /\ Len(a \o b) = Len(a) + Len(b)
          /\ \A j \in 1..Len(a) + Len(b) :
               (a \o b)[j] = IF j <= Len(a) THEN a[j] ELSE b[j - Len(a)]
      BY <3>2, <3>3, ConcatProperties, Zenon
    <3>5. Len(kept) = l - 1
      BY <3>1, <3>2, <3>3, <3>4
    <3>6. ASSUME NEW j \in 1..(l - 1) PROVE \E k \in 1..l : kept[j] = s[k]
      <4>1. CASE j <= i - 1
        <5>1. j \in 1..(i - 1) /\ j \in 1..l
          BY <3>1, <4>1
        <5>2. kept[j] = a[j]
          BY <3>1, <3>2, <3>3, <3>4, <4>1
        <5> QED
          BY <3>2, <5>1, <5>2
      <4>2. CASE ~(j <= i - 1)
        <5>1. j - (i - 1) \in 1..(l - i) /\ j + 1 \in 1..l /\ i + (j - (i - 1)) = j + 1
          BY <3>1, <4>2
        <5>2. kept[j] = b[j - (i - 1)]
          BY <3>1, <3>2, <3>3, <3>4, <4>2
        <5>3. b[j - (i - 1)] = s[j + 1]
          BY <3>3, <5>1
        <5> QED
          BY <5>1, <5>2, <5>3
      <4> QED
        BY <4>1, <4>2
    <3> QED
      BY <2>2, <3>1, <3>4, <3>5, <3>6
  <2> QED
    BY <2>1, <2>2
<1> HIDE DEF kept, r
<1>3. PICK n \in Nat : n = Len(kept)
  BY <1>2
<1>4. PICK h : h = <<e>>
  OBVIOUS
<1>5. h \in Seq(T) /\ Len(h) = 1 /\ h[1] = e
  BY <1>4
<1>6. kept \in Seq(T)
  BY <1>2
<1>7. /\ h \o kept \in Seq(T) /\ Len(h \o kept) = 1 + n
      /\ \A j \in 1..(1 + n) : (h \o kept)[j] = IF j <= 1 THEN h[j] ELSE kept[j - 1]
  <2>1. /\ h \o kept \in Seq(T) /\ Len(h \o kept) = Len(h) + Len(kept)
        /\ \A j \in 1..Len(h) + Len(kept) :
             (h \o kept)[j] = IF j <= Len(h) THEN h[j] ELSE kept[j - Len(h)]
    BY <1>5, <1>6, ConcatProperties, Zenon
  <2> QED
    BY <1>3, <1>5, <2>1
<1>8. r = h \o kept
  BY <1>4 DEF kept, r, Taking
<1>9. Len(r) = IF i = 0 THEN Len(s) + 1 ELSE Len(s)
  BY <1>1, <1>2, <1>3, <1>7, <1>8
<1>10. ASSUME NEW j \in 1..(1 + n) PROVE r[j] = e \/ \E k \in 1..l : r[j] = s[k]
  <2>1. CASE j = 1
    BY <1>5, <1>7, <1>8, <2>1
  <2>2. CASE j # 1
    <3>1. j - 1 \in 1..n /\ ~(j <= 1)
      BY <2>2
    <3> QED
      BY <1>2, <1>3, <1>7, <1>8, <3>1
  <2> QED
    BY <2>1, <2>2
<1> QED
  BY <1>1, <1>7, <1>8, <1>9, <1>10 DEF Taken, r

\* Frames as the actions make them.
LEMMA BeaconFramesAre ==
    ASSUME NEW n \in Nodes, NEW b \in [seq : Nat, hop : 0..MaxHops], NEW g \in BeaconFrames(n, b)
    PROVE  /\ g \in Frames /\ g.type = "BEACON" /\ g.from = n /\ g.hop = b.hop
           /\ g.to \in Leaves /\ Linked(n, g.to)
<1>1. PICK m \in InRange(n) \ {Master} :
         g = [type |-> "BEACON", origin |-> Master, target |-> Master, seq |-> b.seq,
              hop |-> b.hop, path |-> << >>, from |-> n, to |-> m]
  BY DEF BeaconFrames
<1>2. m \in Nodes /\ m \in Leaves /\ Linked(n, m)
  BY NodeFacts DEF InRange, Linked
<1>3. << >> \in Seq(Leaves)
  OBVIOUS
<1> QED
  BY <1>1, <1>2, <1>3, NodeFacts DEF Frames

\* A relayed frame differs from the one received in hop count, sender and receiver.
LEMMA RelayedIs ==
    ASSUME NEW f \in Frames, NEW hop \in Nodes, f.hop < MaxHops, NEW g, g = Relayed(f, hop)
    PROVE  /\ g \in Frames
           /\ g.type = f.type /\ g.origin = f.origin /\ g.target = f.target /\ g.seq = f.seq
           /\ g.path = f.path /\ g.hop = f.hop + 1 /\ g.from = f.to /\ g.to = hop
<1>1. f.hop + 1 \in 0..MaxHops
  BY NodeFacts DEF Frames
<1> QED
  BY <1>1 DEF Relayed, Frames

\* A report as the leaf that relays it passes it on.
Extends(g, f) ==
    /\ g \in Frames
    /\ g.type = f.type /\ g.origin = f.origin /\ g.seq = f.seq
    /\ g.path = Append(f.path, f.to) /\ g.from = f.to

\* A relayed report has its relay at the end of its path.
LEMMA ReportedIs ==
    ASSUME NEW f \in Frames, NEW hop \in Nodes, f.hop < MaxHops, f.to \in Leaves, NEW g,
           g = [Relayed(f, hop) EXCEPT !.path = Append(@, f.to)]
    PROVE  Extends(g, f)
<1>1. PICK r : r = Relayed(f, hop)
  OBVIOUS
<1>2. /\ r \in Frames
      /\ r.type = f.type /\ r.origin = f.origin /\ r.target = f.target /\ r.seq = f.seq
      /\ r.path = f.path /\ r.from = f.to /\ r.to = hop
  BY <1>1, RelayedIs
<1>3. f.path \in Seq(Leaves) /\ Append(f.path, f.to) \in Seq(Leaves)
  BY DEF Frames
<1>4. g = [r EXCEPT !.path = Append(f.path, f.to)]
  BY <1>1, <1>2
<1> QED
  BY <1>2, <1>3, <1>4 DEF Frames, Extends

\* Only a neighbour gets a frame (MeshTransport::sendMessage).
LEMMA UnicastIs == ASSUME NEW f PROVE \A g \in Unicast(f) : g = f /\ Linked(f.from, f.to)
BY DEF Unicast, Linked

\* Everyone a frame is addressed to is a node.
LEMMA HopsAreNodes ==
    ASSUME RoutingTypes, NEW n \in Leaves PROVE NextHops(n) \subseteq Nodes
<1>1. \A i \in 1..Len(table[n]) : table[n][i].mac \in Nodes
  <2>1. table[n] \in Seq(Entries)
    BY DEF RoutingTypes
  <2>2. \A i \in 1..Len(table[n]) : table[n][i] \in Entries
    BY <2>1
  <2> QED
    BY <2>2 DEF Entries
<1>2. ASSUME Closer(n) # {} PROVE table[n][Min(Closer(n))].mac \in Nodes
  <2>1. Closer(n) \subseteq 1..Len(table[n]) /\ Closer(n) \subseteq Nat
    <3>1. fresh[n] \in Nat /\ fresh[n] <= Len(table[n]) /\ Len(table[n]) \in Nat
      BY DEF RoutingTypes
    <3>2. 1..fresh[n] \subseteq 1..Len(table[n]) /\ 1..fresh[n] \subseteq Nat
      BY <3>1
    <3> QED
      BY <3>2 DEF Closer
  <2>2. Min(Closer(n)) \in Closer(n)
    BY <1>2, <2>1, MinMember
  <2> QED
    BY <1>1, <2>1, <2>2
<1> QED
  BY <1>2, NodeFacts DEF NextHops

\* The slot observeAndMinDistance takes is one of the table, or unused.
LEMMA SlotIs ==
    ASSUME RoutingTypes, NEW n \in Leaves, NEW mac PROVE Slot(n, mac) \subseteq 0..Len(table[n])
<1>1. fresh[n] \in Nat /\ Len(table[n]) \in Nat
  BY DEF RoutingTypes
<1>2. /\ 1..Len(table[n]) \subseteq 0..Len(table[n]) /\ 0 \in 0..Len(table[n])
      /\ (fresh[n] + 1)..Len(table[n]) \subseteq 0..Len(table[n])
  BY <1>1
<1> QED
  BY <1>2 DEF Slot

\* What observeAndMinDistance does to the table, and the distance it yields.
Observed(n, mac, d, t, k, m) ==
    /\ table' = [table EXCEPT ![n] = t]
    /\ fresh' = [fresh EXCEPT ![n] = k] /\ k <= Len(t)
    /\ dist' = [dist EXCEPT ![n] = 1 + m]
    /\ \A j \in 1..Len(t) : \/ t[j] = [mac |-> mac, dist |-> d]
                            \/ \E i \in 1..Len(table[n]) : t[j] = table[n][i]
    /\ m = d \/ \E i \in 1..Len(table[n]) : m = table[n][i].dist

\* observeAndMinDistance, whichever slot it takes.
LEMMA ObserveIs ==
    ASSUME RoutingTypes, NEW n \in Leaves, NEW mac \in Nodes, NEW d \in 0..(MaxHops - 1),
           Observe(n, mac, d)
    PROVE  \E t \in Seq(Entries), k \in Nat, m \in 0..(MaxHops - 1) : Observed(n, mac, d, t, k, m)
<1> DEFINE others == {j \in 1..fresh[n] : table[n][j].mac # mac}
           e == [mac |-> mac, dist |-> d]
           ds == {d} \cup {table[n][j].dist : j \in others}
<1>1. PICK i \in Slot(n, mac) :
         /\ table' = [table EXCEPT ![n] = <<e>> \o (IF i = 0 THEN table[n] ELSE RemoveAt(table[n], i))]
         /\ fresh' = [fresh EXCEPT ![n] = 1 + Cardinality(others \ {i})]
         /\ dist' = [dist EXCEPT ![n] = 1 + Min(ds)]
  BY DEF Observe
<1>2. table[n] \in Seq(Entries) /\ fresh[n] \in Nat /\ fresh[n] <= Len(table[n])
  BY DEF RoutingTypes
<1>3. PICK L \in Nat : L = Len(table[n])
  BY <1>2
<1>4. i \in 0..Len(table[n]) /\ e \in Entries
  BY SlotIs DEF Entries
<1>5. \A j \in 1..Len(table[n]) : table[n][j].dist \in 0..(MaxHops - 1)
  <2>1. \A j \in 1..Len(table[n]) : table[n][j] \in Entries
    BY <1>2
  <2> QED
    BY <2>1 DEF Entries
<1>6. others \subseteq 1..L
  <2>1. 1..fresh[n] \subseteq 1..L
    BY <1>2, <1>3
  <2> QED
    BY <2>1
<1> HIDE DEF others, e
<1>7. PICK t : t = Taking(table[n], i, e)
  OBVIOUS
<1>8. /\ t \in Seq(Entries) /\ Len(t) = IF i = 0 THEN Len(table[n]) + 1 ELSE Len(table[n])
      /\ \A j \in 1..Len(t) : t[j] = e \/ \E k \in 1..Len(table[n]) : t[j] = table[n][k]
  <2>1. table[n] \in Seq(Entries)
    BY <1>2
  <2>2. i \in 0..Len(table[n]) /\ e \in Entries
    BY <1>4
  <2>3. Taken(Entries, t, table[n], i, e)
    BY <1>7, <2>1, <2>2, SlotTaken, Zenon
  <2> QED
    BY <2>3, Zenon DEF Taken
<1>9. PICK k : k = 1 + Cardinality(others \ {i})
  OBVIOUS
<1>10. k \in Nat /\ k <= Len(t)
  <2>1. IsFiniteSet(1..L) /\ Cardinality(1..L) = L
    BY FS_Interval
  <2>2. CASE i = 0
    <3>1. others \ {i} \subseteq 1..L
      BY <1>6
    <3>2. /\ IsFiniteSet(others \ {i}) /\ Cardinality(others \ {i}) <= L
          /\ Cardinality(others \ {i}) \in Nat
      BY <2>1, <3>1, FS_Subset, FS_CardinalityType
    <3> QED
      BY <1>3, <1>8, <1>9, <2>2, <3>2
  <2>3. CASE i # 0
    <3>1. i \in 1..L
      BY <1>3, <1>4, <2>3
    <3>2. IsFiniteSet((1..L) \ {i}) /\ Cardinality((1..L) \ {i}) = L - 1
      BY <2>1, <3>1, FS_RemoveElement
    <3>3. others \ {i} \subseteq (1..L) \ {i}
      BY <1>6
    <3>4. /\ IsFiniteSet(others \ {i}) /\ Cardinality(others \ {i}) <= L - 1
      BY <3>2, <3>3, FS_Subset
    <3>5. Cardinality(others \ {i}) \in Nat
      BY <3>4, FS_CardinalityType
    <3> QED
      BY <1>3, <1>8, <1>9, <2>3, <3>4, <3>5
  <2> QED
    BY <2>2, <2>3
<1>11. PICK m : m = Min(ds)
  OBVIOUS
<1>12. m \in 0..(MaxHops - 1) /\ (m = d \/ \E j \in 1..Len(table[n]) : m = table[n][j].dist)
  <2>1. ds \subseteq 0..(MaxHops - 1) /\ ds # {}
    <3>1. \A j \in others : table[n][j].dist \in 0..(MaxHops - 1)
      BY <1>3, <1>5, <1>6
    <3> QED
      BY <3>1
  <2>2. ds \subseteq Nat
    BY <2>1
  <2> HIDE DEF ds
  <2>3. m \in ds
    BY <1>11, <2>1, <2>2, MinMember
  <2>4. m = d \/ \E j \in others : m = table[n][j].dist
    BY <2>3 DEF ds
  <2> QED
    BY <1>3, <1>6, <2>1, <2>3, <2>4
<1> HIDE DEF ds
<1>13. /\ table' = [table EXCEPT ![n] = t] /\ fresh' = [fresh EXCEPT ![n] = k]
       /\ dist' = [dist EXCEPT ![n] = 1 + m]
  BY <1>1, <1>7, <1>9, <1>11 DEF Taking
<1>14. \A j \in 1..Len(t) : \/ t[j] = [mac |-> mac, dist |-> d]
                            \/ \E j2 \in 1..Len(table[n]) : t[j] = table[n][j2]
  BY <1>8 DEF e
<1> QED
  BY <1>8, <1>10, <1>12, <1>13, <1>14 DEF Observed

\* A frame that passes isReplay was newer than the mark, which it raises.
LEMMA PassTypes ==
    ASSUME RoutingTypes, NEW f \in Frames, Pass(f)
    PROVE  /\ marks' \in [Nodes -> [Nodes -> Nat]]
           /\ \A n, o \in Nodes : marks[n][o] <= marks'[n][o]
           /\ marks'[f.to][f.origin] = f.seq /\ ~(f.seq <= marks[f.to][f.origin])
<1>1. /\ f.to \in Nodes /\ f.origin \in Nodes /\ f.seq \in Nat
      /\ marks \in [Nodes -> [Nodes -> Nat]]
  BY DEF Frames, RoutingTypes
<1>2. /\ marks' = [marks EXCEPT ![f.to][f.origin] = f.seq]
      /\ ~(f.seq <= marks[f.to][f.origin])
  BY DEF Pass, IsReplay
<1>3. marks' \in [Nodes -> [Nodes -> Nat]] /\ marks'[f.to][f.origin] = f.seq
  BY <1>1, <1>2
<1>4. ASSUME NEW n \in Nodes, NEW o \in Nodes PROVE marks[n][o] <= marks'[n][o]
  <2>1. marks[n][o] \in Nat
    BY <1>1
  <2>2. CASE n = f.to /\ o = f.origin
    BY <1>1, <1>2, <1>3, <2>1, <2>2
  <2>3. CASE ~(n = f.to /\ o = f.origin)
    <3>1. marks'[n][o] = marks[n][o]
      BY <1>1, <1>2, <2>3
    <3> QED
      BY <2>1, <3>1
  <2> QED
    BY <2>2, <2>3
<1> QED
  BY <1>2, <1>3, <1>4

\* The frames a leaf's own uplink, and a relayed one, consist of.
LEMMA UplinkFrames ==
    ASSUME RoutingTypes, NEW n \in Leaves, NEW type \in {"DATA", "REPORT"}, SendUplink(n, type),
           NEW g \in air'
    PROVE  \/ g \in air
           \/ /\ g \in Frames /\ g.type = type /\ g.origin = n /\ g.path = << >>
              /\ g.seq = seq[n] + 1
              /\ g.from = n /\ Linked(g.from, g.to)
<1>1. CASE air' = air
  BY <1>1
<1>2. CASE air' # air
  <2> DEFINE F(hop) == [type |-> type, origin |-> n, target |-> Master,
                        seq |-> seq[n] + 1, hop |-> 0, path |-> << >>,
                        from |-> n, to |-> hop]
  <2>1. PICK hop \in NextHops(n) : air' = air \cup Unicast(F(hop))
    BY <1>2 DEF SendUplink
  <2>2. hop \in Nodes /\ n \in Nodes /\ seq[n] + 1 \in Nat
    <3>1. hop \in Nodes /\ n \in Nodes
      BY HopsAreNodes, NodeFacts
    <3>2. seq[n] \in Nat
      BY <3>1 DEF RoutingTypes
    <3> QED
      BY <3>1, <3>2
  <2>3. 0 \in 0..MaxHops /\ << >> \in Seq(Leaves)
    BY NodeFacts
  <2>4. F(hop) \in Frames
    BY <2>2, <2>3, NodeFacts DEF Frames
  <2>5. g \in air \/ (g = F(hop) /\ Linked(F(hop).from, F(hop).to))
    BY <2>1, UnicastIs
  <2> QED
    BY <2>4, <2>5
<1> QED
  BY <1>1, <1>2

\* An uplink frame of another node goes on to a node.
LEMMA UplinkHopsAreNodes ==
    ASSUME RoutingTypes, NEW f \in Frames, f.to \in Leaves PROVE UplinkHops(f) \subseteq Nodes
BY HopsAreNodes, NodeFacts DEF UplinkHops

\* processAdapterData puts nothing on the air but the data frame it relays.
LEMMA RelayedData ==
    ASSUME RoutingTypes, NEW f \in Frames, RelayData(f), NEW g \in air'
    PROVE  g \in air \/ (g \in Frames /\ g.type = "DATA" /\ g.origin = f.origin /\ g.seq = f.seq)
<1>1. f.type = "DATA" /\ f.to \in Leaves /\ f.hop < MaxHops
  BY DEF RelayData
<1>2. PICK hop \in UplinkHops(f) : air' = air \cup Unicast(Relayed(f, hop))
  BY DEF RelayData
<1>3. hop \in Nodes
  BY <1>1, UplinkHopsAreNodes
<1>4. g \in air \/ g = Relayed(f, hop)
  BY <1>2, UnicastIs
<1> QED
  BY <1>1, <1>3, <1>4, RelayedIs

\* processRouteReport puts nothing on the air but the report, one relay longer.
LEMMA RelayedReport ==
    ASSUME RoutingTypes, NEW f \in Frames, RelayReport(f), NEW g \in air'
    PROVE  \/ g \in air
           \/ /\ g \in Frames /\ g.type = "REPORT" /\ g.origin = f.origin /\ g.seq = f.seq
              /\ g.path = Append(f.path, f.to)
              /\ g.from = f.to /\ Linked(g.from, g.to)
<1>1. f.type = "REPORT" /\ f.to \in Leaves /\ f.hop < MaxHops
  BY DEF RelayReport
<1>2. PICK hop \in UplinkHops(f) :
         air' = air \cup Unicast([Relayed(f, hop) EXCEPT !.path = Append(@, f.to)])
  BY DEF RelayReport
<1>3. hop \in Nodes
  BY <1>1, UplinkHopsAreNodes
<1>4. PICK r : r = [Relayed(f, hop) EXCEPT !.path = Append(@, f.to)]
  OBVIOUS
<1>5. g \in air \/ (g = r /\ Linked(r.from, r.to))
  BY <1>2, <1>4, UnicastIs
<1>6. Extends(r, f)
  BY <1>1, <1>3, <1>4, ReportedIs, Zenon
<1> QED
  BY <1>1, <1>5, <1>6 DEF Extends

\* A downlink on its way along a source route.
LEMMA ForwardedFrame ==
    ASSUME RoutingTypes, NEW f \in Frames, ForwardOnRoute(f), NEW g \in air'
    PROVE  \/ g \in air
           \/ /\ g \in Frames /\ g.type = "DOWN" /\ g.path = f.path /\ g.target = f.target
              /\ \E i \in 1..Len(f.path) :
                   /\ g.from = f.path[i]
                   /\ g.to = IF i < Len(f.path) THEN f.path[i + 1] ELSE f.target
<1>1. f.type = "DOWN" /\ f.hop < MaxHops /\ OnRoute(f) # {}
  BY DEF ForwardOnRoute
<1>2. f.path \in Seq(Leaves) /\ f.target \in Nodes /\ \A i \in 1..Len(f.path) : f.path[i] \in Nodes
  <2>1. f.path \in Seq(Leaves) /\ f.target \in Nodes
    BY DEF Frames
  <2> QED
    BY <2>1, NodeFacts
<1>3. PICK i : i = Min(OnRoute(f))
  OBVIOUS
<1>4. i \in 1..Len(f.path) /\ f.path[i] = f.to
  <2>1. OnRoute(f) \subseteq Nat
    BY <1>2 DEF OnRoute
  <2>2. i \in OnRoute(f)
    BY <1>1, <1>3, <2>1, MinMember
  <2> QED
    BY <2>2 DEF OnRoute
<1>5. PICK next : next = IF i < Len(f.path) THEN f.path[i + 1] ELSE f.target
  OBVIOUS
<1>6. air' = air \cup {Relayed(f, next)}
  BY <1>3, <1>5 DEF ForwardOnRoute
<1>7. next \in Nodes
  <2>1. CASE i < Len(f.path)
    <3>1. i + 1 \in 1..Len(f.path)
      BY <1>2, <1>4, <2>1
    <3> QED
      BY <1>2, <1>5, <2>1, <3>1
  <2>2. CASE ~(i < Len(f.path))
    BY <1>2, <1>5, <2>2
  <2> QED
    BY <2>1, <2>2
<1>8. PICK r : r = Relayed(f, next)
  OBVIOUS
<1>9. /\ r \in Frames /\ r.type = "DOWN" /\ r.path = f.path /\ r.target = f.target
      /\ r.from = f.path[i] /\ r.to = next
  BY <1>1, <1>4, <1>7, <1>8, RelayedIs
<1> QED
  BY <1>4, <1>5, <1>6, <1>8, <1>9

\* A route the master recorded leads back when it is reversed.
LEMMA ReverseIs ==
    ASSUME NEW T, NEW s \in Seq(T)
    PROVE  /\ Reverse(s) \in Seq(T) /\ Len(Reverse(s)) = Len(s)
           /\ \A i \in 1..Len(s) : Reverse(s)[i] = s[(Len(s) - i) + 1]
<1>1. PICK l \in Nat : l = Len(s)
  OBVIOUS
<1>2. Reverse(s) = [i \in 1..l |-> s[(l - i) + 1]]
  BY <1>1 DEF Reverse
<1>3. \A i \in 1..l : (l - i) + 1 \in 1..l
  OBVIOUS
<1>4. \A i \in 1..l : s[i] \in T
  BY <1>1
<1>5. Reverse(s) \in [1..l -> T]
  BY <1>2, <1>3, <1>4
<1>6. Reverse(s) \in Seq(T) /\ Len(Reverse(s)) = l
  BY <1>5
<1> QED
  BY <1>1, <1>2, <1>6

\* A downlink as the master sends it.
Sourced(g, n) ==
    \E i \in 1..Len(routes) :
        /\ routes[i].node = n /\ g.path = Reverse(routes[i].path)
        /\ g.path # << >> /\ g.to = g.path[1]

\* sendDownlinkToNode follows a recorded route, or addresses its neighbours.
LEMMA DownlinkFrames ==
    ASSUME RoutingTypes, NEW n \in Leaves, SendDownlink(n), NEW g \in air'
    PROVE  \/ g \in air
           \/ /\ g \in Frames /\ g.type = "DOWN" /\ g.target = n /\ g.from = Master
              /\ \/ Sourced(g, n)
                 \/ g.path = << >> /\ Linked(g.from, g.to)
<1> DEFINE route == SourceRoute(n)
           down(m) == [type |-> "DOWN", origin |-> Master, target |-> n,
                       seq |-> seq[Master] + 1, hop |-> 0, path |-> route,
                       from |-> Master, to |-> m]
<1>1. air' = air \cup (IF route # << >> THEN {down(route[1])}
                       ELSE UNION {Unicast(down(m)) : m \in Leaves})
  BY DEF SendDownlink
<1>2. seq[Master] + 1 \in Nat /\ 0 \in 0..MaxHops /\ n \in Nodes
  BY NodeFacts DEF RoutingTypes
<1>3. << >> \in Seq(Leaves)
  OBVIOUS
<1>4. CASE route # << >>
  <2>1. RoutesOf(n) # {}
    BY <1>4 DEF SourceRoute
  <2>2. PICK i : i = Min(RoutesOf(n))
    OBVIOUS
  <2>3. i \in 1..Len(routes) /\ routes[i].node = n
    <3>1. RoutesOf(n) \subseteq Nat
      BY DEF RoutesOf
    <3>2. i \in RoutesOf(n)
      BY <2>1, <2>2, <3>1, MinMember
    <3> QED
      BY <3>2 DEF RoutesOf
  <2>4. routes[i].path \in Seq(Leaves)
    <3>1. routes[i] \in Routes
      BY <2>3 DEF RoutingTypes
    <3> QED
      BY <3>1 DEF Routes
  <2>5. route = Reverse(routes[i].path)
    BY <2>1, <2>2 DEF SourceRoute
  <2>6. route \in Seq(Leaves)
    BY <2>4, <2>5, ReverseIs
  <2> HIDE DEF route
  <2>7. route[1] \in Nodes
    <3>1. 1 \in 1..Len(route)
      BY <1>4, <2>6, EmptySeq
    <3> QED
      BY <2>6, <3>1, NodeFacts
  <2>8. down(route[1]) \in Frames
    BY <1>2, <2>6, <2>7, NodeFacts DEF Frames
  <2>9. g \in air \/ g = down(route[1])
    BY <1>1, <1>4
  <2>10. ASSUME g = down(route[1]) PROVE Sourced(g, n)
    <3>1. g.path = route /\ g.to = route[1]
      BY <2>10
    <3> QED
      BY <1>4, <2>3, <2>5, <3>1, Zenon DEF Sourced
  <2>11. ASSUME g = down(route[1])
         PROVE  g \in Frames /\ g.type = "DOWN" /\ g.target = n /\ g.from = Master
    BY <2>8, <2>11
  <2> QED
    BY <2>9, <2>10, <2>11, Zenon
<1>5. CASE route = << >>
  <2>1. g \in air \/ \E m \in Leaves : g \in Unicast(down(m))
    BY <1>1, <1>5
  <2>2. ASSUME NEW m \in Leaves, g \in Unicast(down(m))
        PROVE  g = down(m) /\ Linked(g.from, g.to)
    BY <2>2, UnicastIs
  <2>3. \A m \in Leaves : down(m) \in Frames
    BY <1>2, <1>3, <1>5, NodeFacts DEF Frames
  <2>4. ASSUME NEW m \in Leaves, g \in Unicast(down(m))
        PROVE  /\ g \in Frames /\ g.type = "DOWN" /\ g.target = n /\ g.from = Master
               /\ g.path = << >> /\ Linked(g.from, g.to)
    <3>1. g = down(m) /\ Linked(g.from, g.to)
      BY <2>2, <2>4
    <3>2. g \in Frames
      BY <2>3, <3>1
    <3> QED
      BY <1>5, <3>1, <3>2
  <2> QED
    BY <2>1, <2>4
<1> QED
  BY <1>4, <1>5

\* What a step may put on the air.
LEMMA AirSteps ==
    ASSUME RoutingTypes, [Next]_vars, NEW g \in air' PROVE g \in Frames /\ Addressed(g)
<1>1. air \subseteq Frames /\ \A f \in air : Addressed(f)
  BY DEF RoutingTypes
<1>2. CASE g \in air
  BY <1>1, <1>2
<1>3. CASE g \notin air
  <2>1. air' # air
    BY <1>3
  <2>2. ASSUME SendBeacon PROVE g \in Frames /\ Addressed(g)
    <3>1. g \in BeaconFrames(Master, [seq |-> seq[Master] + 1, hop |-> 0])
      BY <1>3, <2>2 DEF SendBeacon
    <3>2. [seq |-> seq[Master] + 1, hop |-> 0] \in [seq : Nat, hop : 0..MaxHops]
      BY NodeFacts DEF RoutingTypes
    <3> QED
      BY <3>1, <3>2, BeaconFramesAre, NodeFacts DEF Addressed
  <2>3. ASSUME NEW f \in air, Receive(f) PROVE g \in Frames /\ Addressed(g)
    <3>1. f \in Frames /\ Addressed(f)
      BY <1>1
    <3>2. RelayData(f) \/ RelayReport(f) \/ ForwardOnRoute(f)
      BY <2>1, <2>3 DEF Receive, ReceiveBeacon, OwnUplinkBack, RecordRoute, Ends
    <3>3. CASE RelayData(f)
      <4>1. f.type = "DATA"
        BY <3>3 DEF RelayData
      <4> QED
        BY <1>3, <3>1, <3>3, <4>1, RelayedData DEF Addressed
    <3>4. CASE RelayReport(f)
      <4>1. f.type = "REPORT"
        BY <3>4 DEF RelayReport
      <4> QED
        BY <1>3, <3>1, <3>4, <4>1, RelayedReport DEF Addressed
    <3>5. CASE ForwardOnRoute(f)
      BY <1>3, <3>1, <3>5, ForwardedFrame DEF Addressed
    <3> QED
      BY <3>2, <3>3, <3>4, <3>5
  <2>4. ASSUME NEW n \in Leaves, RelayBeacon(n) PROVE g \in Frames /\ Addressed(g)
    <3>1. PICK b \in pending[n] : air' = air \cup BeaconFrames(n, b)
      BY <2>4 DEF RelayBeacon
    <3>2. b \in [seq : Nat, hop : 0..MaxHops] /\ n \in Nodes
      BY NodeFacts DEF RoutingTypes
    <3> QED
      BY <1>3, <3>1, <3>2, BeaconFramesAre DEF Addressed
  <2>5. ASSUME NEW n \in Leaves, SendUplink(n, "DATA") \/ SendUplink(n, "REPORT")
        PROVE  g \in Frames /\ Addressed(g)
    BY <1>3, <2>5, UplinkFrames DEF Addressed
  <2>6. ASSUME NEW n \in Leaves, SendDownlink(n) PROVE g \in Frames /\ Addressed(g)
    BY <1>3, <2>6, DownlinkFrames DEF Addressed
  <2>7. Next
    BY <2>1 DEF vars
  <2> QED
    BY <2>1, <2>2, <2>3, <2>4, <2>5, <2>6, <2>7 DEF Next, NeighborStale, MasterTimeout, Restart
<1> QED
  BY <1>2, <1>3

\* A restart empties what a leaf keeps in RAM.
LEMMA LoseRamTypes ==
    ASSUME RoutingTypes, NEW n \in Leaves, LoseRam(n), UNCHANGED <<seq, routes, air>>
    PROVE  RoutingTypes'
<1>1. [o \in Nodes |-> 0] \in [Nodes -> Nat] /\ n \in Nodes
  BY NodeFacts
<1>2. marks' \in [Nodes -> [Nodes -> Nat]]
  BY <1>1 DEF LoseRam, RoutingTypes
<1>3. << >> \in Seq(Entries) /\ Len(<< >>) = 0
  OBVIOUS
<1>4. table' \in [Leaves -> Seq(Entries)] /\ fresh' \in [Leaves -> Nat]
  BY <1>3 DEF LoseRam, RoutingTypes
<1>5. ASSUME NEW m \in Leaves PROVE fresh'[m] <= Len(table'[m])
  <2>1. CASE m = n
    BY <1>3, <2>1 DEF LoseRam, RoutingTypes
  <2>2. CASE m # n
    <3>1. fresh'[m] = fresh[m] /\ table'[m] = table[m]
      BY <2>2 DEF LoseRam, RoutingTypes
    <3> QED
      BY <3>1 DEF RoutingTypes
  <2> QED
    BY <2>1, <2>2
<1>6. Far \in Nat
  BY DEF Far
<1>7. dist' \in [Leaves -> Nat] /\ rebooted' \subseteq Leaves
  BY <1>6 DEF LoseRam, RoutingTypes
<1>8. pending' \in [Leaves -> SUBSET [seq : Nat, hop : 0..MaxHops]]
  BY DEF LoseRam, RoutingTypes
<1>9. seq' = seq /\ routes' = routes /\ air' = air
  OBVIOUS
<1> QED
  BY <1>2, <1>4, <1>5, <1>7, <1>8, <1>9 DEF RoutingTypes, Addressed

\* A beacon renews a neighbour and the distance derived from the table.
LEMMA ReceiveBeaconTypes ==
    ASSUME RoutingTypes, NEW f \in air, ReceiveBeacon(f)
    PROVE  RoutingTypes'
<1>1. /\ f \in Frames /\ f.to \in Leaves /\ f.from \in Nodes /\ f.hop \in 0..(MaxHops - 1)
      /\ f.seq \in Nat
  <2>1. f \in Frames /\ Addressed(f)
    BY DEF RoutingTypes
  <2> QED
    BY <2>1, NodeFacts DEF Frames, Addressed, ReceiveBeacon
<1>2. Pass(f) /\ Observe(f.to, f.from, f.hop)
  BY DEF ReceiveBeacon
<1>3. marks' \in [Nodes -> [Nodes -> Nat]]
  BY <1>1, <1>2, PassTypes
<1>4. PICK t \in Seq(Entries), k \in Nat, m \in 0..(MaxHops - 1) :
         Observed(f.to, f.from, f.hop, t, k, m)
  BY <1>1, <1>2, ObserveIs, Zenon
<1>5. /\ table' = [table EXCEPT ![f.to] = t]
      /\ fresh' = [fresh EXCEPT ![f.to] = k] /\ k <= Len(t)
      /\ dist' = [dist EXCEPT ![f.to] = 1 + m]
  BY <1>4 DEF Observed
<1>6. 1 + m \in 0..MaxHops /\ 1 + m \in Nat
  BY NodeFacts
<1>7. table' \in [Leaves -> Seq(Entries)] /\ fresh' \in [Leaves -> Nat]
  BY <1>5 DEF RoutingTypes
<1>8. dist' \in [Leaves -> Nat] /\ dist'[f.to] = 1 + m
  BY <1>1, <1>5, <1>6 DEF RoutingTypes
<1>9. ASSUME NEW n \in Leaves PROVE fresh'[n] <= Len(table'[n])
  <2>1. CASE n = f.to
    BY <1>5, <2>1 DEF RoutingTypes
  <2>2. CASE n # f.to
    <3>1. fresh'[n] = fresh[n] /\ table'[n] = table[n]
      BY <1>5, <2>2 DEF RoutingTypes
    <3> QED
      BY <3>1 DEF RoutingTypes
  <2> QED
    BY <2>1, <2>2
<1>10. pending' \in [Leaves -> SUBSET [seq : Nat, hop : 0..MaxHops]]
  <2>1. CASE pending' = pending
    BY <2>1 DEF RoutingTypes
  <2>2. CASE pending' # pending
    <3>1. pending' = [pending EXCEPT ![f.to] = {[seq |-> f.seq, hop |-> dist'[f.to]]}]
      BY <2>2 DEF ReceiveBeacon
    <3>2. [seq |-> f.seq, hop |-> dist'[f.to]] \in [seq : Nat, hop : 0..MaxHops]
      BY <1>1, <1>6, <1>8
    <3> QED
      BY <1>1, <3>1, <3>2 DEF RoutingTypes
  <2> QED
    BY <2>1, <2>2
<1>11. seq' = seq /\ routes' = routes /\ air' = air /\ rebooted' = rebooted
  BY DEF ReceiveBeacon
<1> QED
  BY <1>3, <1>7, <1>8, <1>9, <1>10, <1>11 DEF RoutingTypes, Addressed

\* A report at the master: its route takes its node's slot, or another's.
LEMMA RecordRouteIs ==
    ASSUME RoutingTypes, NEW f \in air, RecordRoute(f)
    PROVE  /\ routes' \in Seq(Routes)
           /\ \A j \in 1..Len(routes') : \/ routes'[j] = [node |-> f.origin, path |-> f.path]
                                         \/ \E k \in 1..Len(routes) : routes'[j] = routes[k]
<1>1. f.origin \in Leaves /\ f.path \in Seq(Leaves)
  <2>1. f \in Frames /\ Addressed(f)
    BY DEF RoutingTypes
  <2> QED
    BY <2>1 DEF Frames, Addressed, RecordRoute
<1>2. PICK e : e = [node |-> f.origin, path |-> f.path]
  OBVIOUS
<1>3. e \in Routes
  BY <1>1, <1>2 DEF Routes
<1>4. PICK i \in RouteSlot(f.origin) :
         routes' = <<e>> \o (IF i = 0 THEN routes ELSE RemoveAt(routes, i))
  BY <1>2 DEF RecordRoute
<1>5. routes \in Seq(Routes)
  BY DEF RoutingTypes
<1>6. i \in 0..Len(routes)
  <2>1. RoutesOf(f.origin) \subseteq 0..Len(routes)
    BY <1>5 DEF RoutesOf
  <2>2. Len(routes) \in 0..Len(routes) /\ 0 \in 0..Len(routes)
    BY <1>5
  <2> QED
    BY <2>1, <2>2 DEF RouteSlot
<1>7. routes' = Taking(routes, i, e)
  BY <1>4 DEF Taking
<1>8. Taken(Routes, routes', routes, i, e)
  BY <1>3, <1>5, <1>6, <1>7, SlotTaken, Zenon
<1> QED
  BY <1>2, <1>8 DEF Taken

\* The types hold at the start.
LEMMA TypesInit == ASSUME Init PROVE RoutingTypes
<1>1. << >> \in Seq(Entries) /\ Len(<< >>) = 0 /\ << >> \in Seq(Routes) /\ Far \in Nat
  BY DEF Far
<1>2. [o \in Nodes |-> 0] \in [Nodes -> Nat]
  OBVIOUS
<1> QED
  BY <1>1, <1>2 DEF Init, RoutingTypes

\* Every action keeps the types.
LEMMA TypesStep == ASSUME RoutingTypes, [Next]_vars PROVE RoutingTypes'
<1>1. air' \subseteq Frames /\ \A f \in air' : Addressed(f)
  BY AirSteps
<1>2. ASSUME SendBeacon PROVE RoutingTypes'
  <2>1. /\ seq' = [seq EXCEPT ![Master] = @ + 1]
        /\ UNCHANGED <<marks, table, fresh, dist, relayed, pending, routes, rebooted>>
    BY <1>2 DEF SendBeacon
  <2>2. seq' \in [Nodes -> Nat]
    BY <2>1, NodeFacts DEF RoutingTypes
  <2> QED
    BY <1>1, <2>1, <2>2 DEF RoutingTypes, Addressed
<1>3. ASSUME NEW f \in air, Receive(f) PROVE RoutingTypes'
  <2>1. f \in Frames
    BY DEF RoutingTypes
  <2>2. CASE ReceiveBeacon(f)
    BY <2>2, ReceiveBeaconTypes
  <2>3. CASE OwnUplinkBack(f)
    <3>1. /\ LoseRam(f.to) /\ UNCHANGED <<seq, routes, air>> /\ f.to \in Nodes
          /\ f.type \in {"DATA", "REPORT"} /\ f.to = f.origin /\ dist[f.to] # Far
      BY <2>1, <2>3 DEF OwnUplinkBack, Refused, OwnUplink, Frames
    <3>2. f.to \in Leaves
      BY <3>1 DEF RoutingTypes, Addressed
    <3> QED
      BY <3>1, <3>2, LoseRamTypes
  <2>4. CASE RecordRoute(f)
    <3>1. /\ Pass(f)
          /\ UNCHANGED <<seq, table, fresh, dist, relayed, pending, air, rebooted>>
      BY <2>4 DEF RecordRoute
    <3>2. marks' \in [Nodes -> [Nodes -> Nat]]
      BY <2>1, <3>1, PassTypes
    <3>3. routes' \in Seq(Routes)
      BY <2>4, RecordRouteIs
    <3> QED
      BY <1>1, <3>1, <3>2, <3>3 DEF RoutingTypes, Addressed
  <2>5. CASE RelayData(f) \/ RelayReport(f) \/ ForwardOnRoute(f) \/ Ends(f)
    <3>1. /\ Pass(f)
          /\ UNCHANGED <<seq, table, fresh, dist, relayed, pending, routes, rebooted>>
      BY <2>5 DEF RelayData, RelayReport, ForwardOnRoute, Ends
    <3>2. marks' \in [Nodes -> [Nodes -> Nat]]
      BY <2>1, <3>1, PassTypes
    <3> QED
      BY <1>1, <3>1, <3>2 DEF RoutingTypes, Addressed
  <2> QED
    BY <1>3, <2>2, <2>3, <2>4, <2>5 DEF Receive
<1>4. ASSUME NEW n \in Leaves, RelayBeacon(n) PROVE RoutingTypes'
  <2>1. /\ pending' = [pending EXCEPT ![n] = {}]
        /\ UNCHANGED <<seq, marks, table, fresh, dist, relayed, routes, rebooted>>
    BY <1>4 DEF RelayBeacon
  <2>2. pending' \in [Leaves -> SUBSET [seq : Nat, hop : 0..MaxHops]]
    BY <2>1 DEF RoutingTypes
  <2> QED
    BY <1>1, <2>1, <2>2 DEF RoutingTypes, Addressed
<1>5. ASSUME NEW n \in Leaves, NeighborStale(n) PROVE RoutingTypes'
  <2>1. /\ fresh[n] > 0 /\ fresh' = [fresh EXCEPT ![n] = @ - 1]
        /\ UNCHANGED <<seq, marks, table, dist, relayed, pending, routes, air, rebooted>>
    BY <1>5 DEF NeighborStale
  <2>2. fresh' \in [Leaves -> Nat]
    BY <2>1 DEF RoutingTypes
  <2>3. \A m \in Leaves : fresh'[m] <= Len(table'[m])
    <3> SUFFICES ASSUME NEW m \in Leaves PROVE fresh'[m] <= Len(table'[m])
      OBVIOUS
    <3>1. fresh[m] \in Nat /\ fresh[m] <= Len(table[m]) /\ Len(table[m]) \in Nat /\ table' = table
      BY <2>1 DEF RoutingTypes
    <3>2. fresh'[m] = fresh[m] \/ fresh'[m] = fresh[m] - 1
      BY <2>1 DEF RoutingTypes
    <3> QED
      BY <3>1, <3>2
  <2> QED
    BY <1>1, <2>1, <2>2, <2>3 DEF RoutingTypes, Addressed
<1>6. ASSUME NEW n \in Leaves, MasterTimeout(n) PROVE RoutingTypes'
  <2>1. /\ dist' = [dist EXCEPT ![n] = Far] /\ Far \in Nat
        /\ UNCHANGED <<seq, marks, table, fresh, relayed, pending, routes, air, rebooted>>
    BY <1>6 DEF MasterTimeout, Far
  <2>2. dist' \in [Leaves -> Nat]
    BY <2>1 DEF RoutingTypes
  <2> QED
    BY <1>1, <2>1, <2>2 DEF RoutingTypes, Addressed
<1>7. ASSUME NEW n \in Leaves, SendUplink(n, "DATA") \/ SendUplink(n, "REPORT") \/ SendDownlink(n)
      PROVE  RoutingTypes'
  <2>1. /\ \E m \in Nodes : seq' = [seq EXCEPT ![m] = @ + 1]
        /\ UNCHANGED <<marks, table, fresh, dist, relayed, pending, routes, rebooted>>
    BY <1>7, NodeFacts DEF SendUplink, SendDownlink
  <2>2. seq' \in [Nodes -> Nat]
    BY <2>1 DEF RoutingTypes
  <2> QED
    BY <1>1, <2>1, <2>2 DEF RoutingTypes, Addressed
<1>8. ASSUME NEW n \in Leaves, Restart(n) PROVE RoutingTypes'
  BY <1>8, LoseRamTypes DEF Restart
<1>9. CASE UNCHANGED vars
  BY <1>9 DEF RoutingTypes, Addressed, vars
<1> QED
  BY <1>2, <1>3, <1>4, <1>5, <1>6, <1>7, <1>8, <1>9 DEF Next

-----------------------------------------------------------------------------
(***************************************************************************)
(* Distances.  A node's distance is one more than a distance it heard from *)
(* a neighbour, and a neighbour announces its own: so behind every         *)
(* distance, in a table, awaiting its relay or on the air, there is a walk *)
(* of so many links from the master.                                       *)
(***************************************************************************)

HeardAt(n, e) == Linked(e.mac, n) /\ e.mac \in Within[e.dist]

BeaconOk(f) == f.type = "BEACON" => Linked(f.from, f.to) /\ f.from \in Within[f.hop]

BeaconInv ==
    /\ \A n \in Leaves : \A i \in 1..Len(table[n]) : HeardAt(n, table[n][i])
    /\ \A n \in Leaves : dist[n] # Far => n \in Within[dist[n]]
    /\ \A n \in Leaves : \A b \in pending[n] : n \in Within[b.hop]
    /\ \A f \in air : BeaconOk(f)

\* The master is no hop away from itself.
LEMMA WithinStart == Master \in Within[0]
<1> DEFINE p == [i \in 0..0 |-> Master]
<1>1. p \in Walks(0) /\ p[0] = Master
  BY NodeFacts DEF Walks
<1> QED
  BY <1>1, NodeFacts DEF Within

\* One link farther is one hop more.
LEMMA WithinNext ==
    ASSUME NEW k \in 0..(MaxHops - 1), NEW n, n \in Within[k], NEW m, Linked(n, m)
    PROVE  m \in Within[k + 1]
<1>1. k \in Nat /\ k \in 0..MaxHops /\ k + 1 \in 0..MaxHops
  BY NodeFacts
<1>2. PICK p \in Walks(k) : n = p[k]
  BY <1>1 DEF Within
<1>3. /\ p \in [0..k -> Nodes] /\ p[0] = Master
      /\ \A i \in 1..k : p[i] = p[i - 1] \/ <<p[i - 1], p[i]>> \in Links
  BY DEF Walks
<1>4. m \in Nodes
  BY NodeFacts
<1> DEFINE q == [i \in 0..(k + 1) |-> IF i <= k THEN p[i] ELSE m]
<1>5. q \in [0..(k + 1) -> Nodes] /\ q[0] = Master /\ q[k + 1] = m
  BY <1>1, <1>3, <1>4
<1>6. ASSUME NEW i \in 1..(k + 1) PROVE q[i] = q[i - 1] \/ <<q[i - 1], q[i]>> \in Links
  <2>1. CASE i <= k
    <3>1. q[i] = p[i] /\ q[i - 1] = p[i - 1] /\ i \in 1..k
      BY <1>1, <2>1
    <3> QED
      BY <1>3, <3>1
  <2>2. CASE ~(i <= k)
    <3>1. i = k + 1 /\ q[i] = m /\ q[i - 1] = p[k]
      BY <1>1, <2>2
    <3> QED
      BY <1>2, <3>1 DEF Linked
  <2> QED
    BY <2>1, <2>2
<1> HIDE DEF q
<1>7. q \in Walks(k + 1)
  BY <1>5, <1>6 DEF Walks
<1> QED
  BY <1>1, <1>5, <1>7 DEF Within

\* The beacons of a step: those that were on the air, the master's own, and
\* those a leaf relays.
LEMMA BeaconsStep ==
    ASSUME RoutingTypes, BeaconInv, [Next]_vars, NEW g \in air' PROVE BeaconOk(g)
<1>1. \A f \in air : BeaconOk(f)
  BY DEF BeaconInv
<1>2. CASE g \in air \/ g.type # "BEACON"
  BY <1>1, <1>2 DEF BeaconOk
<1>3. CASE g \notin air /\ g.type = "BEACON"
  <2>1. air' # air
    BY <1>3
  <2>2. ASSUME SendBeacon PROVE BeaconOk(g)
    <3>1. g \in BeaconFrames(Master, [seq |-> seq[Master] + 1, hop |-> 0])
      BY <1>3, <2>2 DEF SendBeacon
    <3>2. [seq |-> seq[Master] + 1, hop |-> 0] \in [seq : Nat, hop : 0..MaxHops]
      BY NodeFacts DEF RoutingTypes
    <3>3. g.from = Master /\ g.hop = 0 /\ Linked(Master, g.to)
      BY <3>1, <3>2, BeaconFramesAre, NodeFacts
    <3> QED
      BY <3>3, WithinStart DEF BeaconOk
  <2>3. ASSUME NEW f \in air, Receive(f) PROVE FALSE
    <3>1. f \in Frames
      BY DEF RoutingTypes
    <3>2. RelayData(f) \/ RelayReport(f) \/ ForwardOnRoute(f)
      BY <2>1, <2>3 DEF Receive, ReceiveBeacon, OwnUplinkBack, RecordRoute, Ends
    <3> QED
      BY <1>3, <3>1, <3>2, RelayedData, RelayedReport, ForwardedFrame
  <2>4. ASSUME NEW n \in Leaves, RelayBeacon(n) PROVE BeaconOk(g)
    <3>1. PICK b \in pending[n] : air' = air \cup BeaconFrames(n, b)
      BY <2>4 DEF RelayBeacon
    <3>2. b \in [seq : Nat, hop : 0..MaxHops] /\ n \in Nodes /\ n \in Within[b.hop]
      BY NodeFacts DEF RoutingTypes, BeaconInv
    <3>3. g.from = n /\ g.hop = b.hop /\ Linked(n, g.to)
      BY <1>3, <3>1, <3>2, BeaconFramesAre
    <3> QED
      BY <3>2, <3>3 DEF BeaconOk
  <2>5. ASSUME NEW n \in Leaves, SendUplink(n, "DATA") \/ SendUplink(n, "REPORT") PROVE FALSE
    BY <1>3, <2>5, UplinkFrames
  <2>6. ASSUME NEW n \in Leaves, SendDownlink(n) PROVE FALSE
    BY <1>3, <2>6, DownlinkFrames
  <2>7. Next
    BY <2>1 DEF vars
  <2> QED
    BY <2>1, <2>2, <2>3, <2>4, <2>5, <2>6, <2>7 DEF Next, NeighborStale, MasterTimeout, Restart
<1> QED
  BY <1>2, <1>3

\* Hearing a beacon keeps every distance above the radio distance.
LEMMA HearingBeacon ==
    ASSUME RoutingTypes, BeaconInv, NEW f \in air, ReceiveBeacon(f)
    PROVE  /\ \A n \in Leaves : \A i \in 1..Len(table'[n]) : HeardAt(n, table'[n][i])
           /\ \A n \in Leaves : dist'[n] # Far => n \in Within[dist'[n]]
           /\ \A n \in Leaves : \A b \in pending'[n] : n \in Within[b.hop]
<1>1. /\ f \in Frames /\ f.to \in Leaves /\ f.from \in Nodes /\ f.hop \in 0..(MaxHops - 1)
      /\ f.seq \in Nat
  <2>1. f \in Frames /\ Addressed(f)
    BY DEF RoutingTypes
  <2> QED
    BY <2>1, NodeFacts DEF Frames, Addressed, ReceiveBeacon
<1>2. Linked(f.from, f.to) /\ f.from \in Within[f.hop]
  BY DEF BeaconInv, BeaconOk, ReceiveBeacon
<1>3. Observe(f.to, f.from, f.hop)
  BY DEF ReceiveBeacon
<1>4. PICK t \in Seq(Entries), k \in Nat, m \in 0..(MaxHops - 1) :
         Observed(f.to, f.from, f.hop, t, k, m)
  BY <1>1, <1>3, ObserveIs, Zenon
<1>5. \A i \in 1..Len(table[f.to]) :
         HeardAt(f.to, table[f.to][i]) /\ table[f.to][i].dist \in 0..(MaxHops - 1)
  <2>1. table[f.to] \in Seq(Entries)
    BY <1>1 DEF RoutingTypes
  <2>2. \A i \in 1..Len(table[f.to]) : table[f.to][i] \in Entries
    BY <2>1
  <2> QED
    BY <1>1, <2>2 DEF Entries, BeaconInv
<1>6. \A j \in 1..Len(t) : HeardAt(f.to, t[j])
  <2> SUFFICES ASSUME NEW j \in 1..Len(t) PROVE HeardAt(f.to, t[j])
    OBVIOUS
  <2>1. CASE t[j] = [mac |-> f.from, dist |-> f.hop]
    BY <1>2, <2>1 DEF HeardAt
  <2>2. CASE \E i \in 1..Len(table[f.to]) : t[j] = table[f.to][i]
    BY <1>5, <2>2
  <2> QED
    BY <1>4, <2>1, <2>2 DEF Observed
<1>7. f.to \in Within[1 + m]
  <2>1. CASE m = f.hop
    <3>1. f.to \in Within[f.hop + 1]
      BY <1>1, <1>2, WithinNext
    <3> QED
      BY <1>1, <2>1, <3>1
  <2>2. ASSUME NEW i \in 1..Len(table[f.to]), m = table[f.to][i].dist PROVE f.to \in Within[1 + m]
    <3>1. Linked(table[f.to][i].mac, f.to) /\ table[f.to][i].mac \in Within[m]
      BY <1>5, <2>2 DEF HeardAt
    <3>2. f.to \in Within[m + 1]
      BY <3>1, WithinNext
    <3> QED
      BY <3>2
  <2> QED
    BY <1>4, <2>1, <2>2 DEF Observed
<1>8. /\ table' = [table EXCEPT ![f.to] = t] /\ dist' = [dist EXCEPT ![f.to] = 1 + m]
  BY <1>4 DEF Observed
<1>9. /\ table \in [Leaves -> Seq(Entries)] /\ dist \in [Leaves -> Nat]
      /\ pending \in [Leaves -> SUBSET [seq : Nat, hop : 0..MaxHops]]
  BY DEF RoutingTypes
<1>10. ASSUME NEW n \in Leaves
       PROVE  /\ \A i \in 1..Len(table'[n]) : HeardAt(n, table'[n][i])
              /\ dist'[n] # Far => n \in Within[dist'[n]]
  <2>1. CASE n = f.to
    <3>1. table'[n] = t /\ dist'[n] = 1 + m
      BY <1>8, <1>9, <2>1
    <3> QED
      BY <1>6, <1>7, <2>1, <3>1
  <2>2. CASE n # f.to
    <3>1. table'[n] = table[n] /\ dist'[n] = dist[n]
      BY <1>8, <1>9, <2>2
    <3> QED
      BY <3>1 DEF BeaconInv
  <2> QED
    BY <2>1, <2>2
<1>11. ASSUME NEW n \in Leaves, NEW b \in pending'[n] PROVE n \in Within[b.hop]
  <2>1. CASE b \in pending[n]
    BY <2>1 DEF BeaconInv
  <2>2. CASE b \notin pending[n]
    <3>1. pending' = [pending EXCEPT ![f.to] = {[seq |-> f.seq, hop |-> dist'[f.to]]}]
      BY <2>2 DEF ReceiveBeacon
    <3>2. n = f.to /\ b = [seq |-> f.seq, hop |-> dist'[f.to]]
      BY <1>9, <2>2, <3>1
    <3>3. dist'[f.to] = 1 + m
      BY <1>1, <1>8, <1>9
    <3> QED
      BY <1>7, <3>2, <3>3
  <2> QED
    BY <2>1, <2>2
<1> QED
  BY <1>10, <1>11

\* Nothing has been heard at the start.
LEMMA BeaconInit == ASSUME Init PROVE BeaconInv
<1>1. Len(<< >>) = 0
  OBVIOUS
<1> QED
  BY <1>1 DEF Init, BeaconInv

\* Every action keeps a walk behind every distance.
LEMMA BeaconStep == ASSUME RoutingTypes, BeaconInv, [Next]_vars PROVE BeaconInv'
<1> DEFINE Heard == \A n \in Leaves : \A i \in 1..Len(table[n]) : HeardAt(n, table[n][i])
           Near == \A n \in Leaves : dist[n] # Far => n \in Within[dist[n]]
           Due == \A n \in Leaves : \A b \in pending[n] : n \in Within[b.hop]
<1>1. \A g \in air' : BeaconOk(g)
  BY BeaconsStep
<1>2. Heard /\ Near /\ Due
  BY DEF BeaconInv
<1>3. /\ table \in [Leaves -> Seq(Entries)] /\ dist \in [Leaves -> Nat]
      /\ pending \in [Leaves -> SUBSET [seq : Nat, hop : 0..MaxHops]]
  BY DEF RoutingTypes
<1>4. ASSUME NEW f \in air, ReceiveBeacon(f) PROVE Heard' /\ Near' /\ Due'
  BY <1>4, HearingBeacon DEF HeardAt, Linked
<1>5. ASSUME NEW n \in Leaves, RelayBeacon(n) PROVE Heard' /\ Near' /\ Due'
  <2>1. /\ table' = table /\ dist' = dist
        /\ \A m \in Leaves : pending'[m] \subseteq pending[m]
    BY <1>3, <1>5 DEF RelayBeacon
  <2> QED
    BY <1>2, <2>1
<1>6. ASSUME NEW n \in Leaves, MasterTimeout(n) PROVE Heard' /\ Near' /\ Due'
  <2>1. /\ table' = table /\ pending' = pending
        /\ \A m \in Leaves : dist'[m] = Far \/ dist'[m] = dist[m]
    BY <1>3, <1>6 DEF MasterTimeout
  <2> QED
    BY <1>2, <2>1
<1>7. ASSUME NEW n, LoseRam(n) PROVE Heard' /\ Near' /\ Due'
  <2>2. ASSUME NEW m \in Leaves
        PROVE  /\ table'[m] = << >> \/ table'[m] = table[m]
               /\ dist'[m] = Far \/ dist'[m] = dist[m]
               /\ pending'[m] \subseteq pending[m]
    BY <1>3, <1>7 DEF LoseRam
  <2>3. Near' /\ Due'
    BY <1>2, <2>2
  <2>4. Heard'
    <3> SUFFICES ASSUME NEW m \in Leaves, NEW i \in 1..Len(table'[m]) PROVE HeardAt(m, table'[m][i])
      BY DEF HeardAt, Linked
    <3>1. table'[m] # << >>
      <4>1. Len(<< >>) = 0
        OBVIOUS
      <4> QED
        BY <4>1
    <3> QED
      BY <1>2, <2>2, <3>1
  <2> QED
    BY <2>3, <2>4
<1>8. CASE UNCHANGED <<table, dist, pending>>
  BY <1>1, <1>2, <1>8 DEF BeaconInv, BeaconOk, HeardAt, Linked
<1>9. \/ UNCHANGED <<table, dist, pending>>
      \/ \E f \in air : ReceiveBeacon(f) \/ LoseRam(f.to)
      \/ \E n \in Leaves : RelayBeacon(n) \/ MasterTimeout(n) \/ LoseRam(n)
  BY DEF Next, OwnUplinkBack, Restart, vars, SendBeacon, Receive, RelayData, RelayReport, RecordRoute, ForwardOnRoute, Ends,
         NeighborStale, SendUplink, SendDownlink
<1>10. (Heard /\ Near /\ Due)' => BeaconInv'
  BY <1>1 DEF BeaconInv, BeaconOk, Linked
<1> QED
  BY <1>4, <1>5, <1>6, <1>7, <1>8, <1>9, <1>10

\* The strengthening: types, and the walk behind every distance.
THEOREM DistanceInvariant == Spec => [](RoutingTypes /\ BeaconInv)
<1>1. Init => RoutingTypes /\ BeaconInv
  BY TypesInit, BeaconInit
<1>2. RoutingTypes /\ BeaconInv /\ [Next]_vars => (RoutingTypes /\ BeaconInv)'
  BY TypesStep, BeaconStep
<1> QED
  BY <1>1, <1>2, PTL DEF Spec

\* Whatever the links are and however beacons are delayed, lost, repeated or
\* overtaken, no node takes itself or a neighbour to be closer to the master
\* than the radio links allow (MasterBeacon::process, NeighborTable).
THEOREM DistancesNeverUnderestimated == Spec => []NeverUnderestimates
<1>1. RoutingTypes /\ BeaconInv => NeverUnderestimates
  BY DEF BeaconInv, BeaconOk, HeardAt, NeverUnderestimates
<1> QED
  BY <1>1, DistanceInvariant, PTL

-----------------------------------------------------------------------------
(***************************************************************************)
(* Reports.  The path of a report is the chain of links it came over, and  *)
(* the mark of every relay in it has reached the report's number, unless   *)
(* the relay restarted since: that is what keeps the report from passing   *)
(* there again.                                                            *)
(***************************************************************************)

\* What a leaf has sealed.  A leaf that has not restarted knows of every frame of
\* its own that is on the air.
SealOk(f) ==
    f.type \in {"DATA", "REPORT"} =>
        /\ f.seq <= seq[f.origin]
        /\ f.origin \notin rebooted => sealed[f.origin] # 0 /\ f.seq <= sealed[f.origin]

SealInv ==
    /\ sealed \in [Leaves -> Nat]
    /\ \A n \in Leaves : sealed[n] <= seq[n]
    /\ \A f \in air : SealOk(f)

\* The uplink frames of a step: those that were there, or their own relays, or a
\* new one.
LEMMA UplinksStep ==
    ASSUME RoutingTypes, [Next]_vars, NEW g \in air', g.type \in {"DATA", "REPORT"}
    PROVE  \/ \E f \in air : f.type \in {"DATA", "REPORT"} /\ g.origin = f.origin /\ g.seq = f.seq
           \/ \E n \in Leaves : /\ SendUplink(n, "DATA") \/ SendUplink(n, "REPORT")
                                /\ g.origin = n /\ g.seq = seq[n] + 1
<1>1. CASE g \in air
  BY <1>1
<1>2. CASE g \notin air
  <2>1. air' # air
    BY <1>2
  <2>2. ASSUME SendBeacon PROVE FALSE
    <3>1. g \in BeaconFrames(Master, [seq |-> seq[Master] + 1, hop |-> 0])
      BY <1>2, <2>2 DEF SendBeacon
    <3> QED
      BY <3>1 DEF BeaconFrames
  <2>3. ASSUME NEW f \in air, Receive(f)
        PROVE  f.type \in {"DATA", "REPORT"} /\ g.origin = f.origin /\ g.seq = f.seq
    <3>1. f \in Frames
      BY DEF RoutingTypes
    <3>2. RelayData(f) \/ RelayReport(f) \/ ForwardOnRoute(f)
      BY <2>1, <2>3 DEF Receive, ReceiveBeacon, OwnUplinkBack, RecordRoute, Ends
    <3>3. ~ForwardOnRoute(f)
      BY <1>2, <3>1, ForwardedFrame
    <3> QED
      BY <1>2, <3>1, <3>2, <3>3, RelayedData, RelayedReport DEF RelayData, RelayReport
  <2>4. ASSUME NEW n \in Leaves, RelayBeacon(n) PROVE FALSE
    <3>1. PICK b \in pending[n] : air' = air \cup BeaconFrames(n, b)
      BY <2>4 DEF RelayBeacon
    <3> QED
      BY <1>2, <3>1 DEF BeaconFrames
  <2>5. ASSUME NEW n \in Leaves, SendUplink(n, "DATA") \/ SendUplink(n, "REPORT")
        PROVE  g.origin = n /\ g.seq = seq[n] + 1
    BY <1>2, <2>5, UplinkFrames
  <2>6. ASSUME NEW n \in Leaves, SendDownlink(n) PROVE FALSE
    BY <1>2, <2>6, DownlinkFrames
  <2>7. Next
    BY <2>1 DEF vars
  <2> QED
    BY <2>1, <2>2, <2>3, <2>4, <2>5, <2>6, <2>7 DEF Next, NeighborStale, MasterTimeout, Restart
<1> QED
  BY <1>1, <1>2

\* How the numbers, the seals and the restarts change.
LEMMA SealsStep ==
    ASSUME RoutingTypes, SealInv, [Next]_vars
    PROVE  \/ UNCHANGED <<sealed, rebooted>> /\ \A n \in Leaves : seq'[n] = seq[n]
           \/ \E n \in Leaves : /\ SendUplink(n, "DATA") \/ SendUplink(n, "REPORT")
                                /\ seq' = [seq EXCEPT ![n] = @ + 1] /\ rebooted' = rebooted
                                /\ sealed' = [sealed EXCEPT ![n] = seq[n] + 1]
           \/ \E n \in Leaves : /\ seq' = seq /\ rebooted' = rebooted \cup {n}
                                /\ sealed' = [sealed EXCEPT ![n] = 0]
           \/ \E n \in rebooted, k \in Nat :
                /\ seq' = seq /\ rebooted' = rebooted /\ k <= seq[n]
                /\ sealed' = [sealed EXCEPT ![n] = k]
<1>1. ASSUME NEW f \in air, f.type \in {"DATA", "REPORT"}, Sealing(f), sealed' # sealed,
             seq' = seq, rebooted' = rebooted
      PROVE  \E n \in rebooted, k \in Nat :
               k <= seq[n] /\ sealed' = [sealed EXCEPT ![n] = k]
  <2>1. f \in Frames /\ f.origin \in Leaves /\ SealOk(f)
    BY <1>1 DEF RoutingTypes, Addressed, SealInv
  <2>2. OwnUplink(f) /\ ~Refused(f) /\ sealed' = [sealed EXCEPT ![f.to] = f.seq] /\ f.to = f.origin
    BY <1>1 DEF Sealing, OwnUplink
  <2>3. f.origin \in rebooted /\ f.seq <= seq[f.origin] /\ f.seq \in Nat
    BY <1>1, <2>1, <2>2 DEF SealOk, Refused, Frames
  <2> QED
    BY <2>2, <2>3
<1>2. ASSUME NEW l, LoseRam(l), seq' = seq
      PROVE  /\ seq' = seq /\ rebooted' = rebooted \cup {l} /\ sealed' = [sealed EXCEPT ![l] = 0]
  BY <1>2 DEF LoseRam
<1>3. ASSUME NEW f \in air, OwnUplinkBack(f) PROVE LoseRam(f.to) /\ seq' = seq /\ f.to \in Leaves
  BY <1>3 DEF OwnUplinkBack, Refused, OwnUplink, RoutingTypes, Addressed
<1>4. ASSUME NEW f \in air, RelayData(f) \/ RelayReport(f) \/ Ends(f), sealed' # sealed
      PROVE  f.type \in {"DATA", "REPORT"} /\ Sealing(f) /\ seq' = seq /\ rebooted' = rebooted
  BY <1>4 DEF RelayData, RelayReport, Ends
<1>5. ASSUME NEW f \in air, RelayData(f) \/ RelayReport(f) \/ Ends(f)
      PROVE  seq' = seq /\ rebooted' = rebooted
  BY <1>5 DEF RelayData, RelayReport, Ends
<1>6. ASSUME SendBeacon \/ \E n \in Leaves : SendDownlink(n)
      PROVE  UNCHANGED <<sealed, rebooted>> /\ \A n \in Leaves : seq'[n] = seq[n]
  <2>1. UNCHANGED <<sealed, rebooted>> /\ seq' = [seq EXCEPT ![Master] = @ + 1]
    BY <1>6 DEF SendBeacon, SendDownlink
  <2>2. seq \in [Nodes -> Nat] /\ Master \notin Leaves /\ Leaves \subseteq Nodes
    BY NodeFacts DEF RoutingTypes
  <2> QED
    BY <2>1, <2>2
<1>7. ASSUME NEW n \in Leaves, SendUplink(n, "DATA") \/ SendUplink(n, "REPORT")
      PROVE  /\ seq' = [seq EXCEPT ![n] = @ + 1] /\ rebooted' = rebooted
             /\ sealed' = [sealed EXCEPT ![n] = seq[n] + 1]
  BY <1>7 DEF SendUplink
<1>8. ASSUME NEW n \in Leaves, Restart(n) PROVE LoseRam(n) /\ seq' = seq
  BY <1>8 DEF Restart
<1>9. \/ UNCHANGED <<seq, sealed, rebooted>>
      \/ SendBeacon \/ \E n \in Leaves : SendDownlink(n)
      \/ \E n \in Leaves : SendUplink(n, "DATA") \/ SendUplink(n, "REPORT")
      \/ \E n \in Leaves : Restart(n)
      \/ \E f \in air : RelayData(f) \/ RelayReport(f) \/ Ends(f)
      \/ \E f \in air : OwnUplinkBack(f)
  BY DEF Next, vars, Receive, ReceiveBeacon, RecordRoute, ForwardOnRoute, RelayBeacon,
         NeighborStale, MasterTimeout
<1> QED
  BY <1>1, <1>2, <1>3, <1>4, <1>5, <1>6, <1>7, <1>8, <1>9

\* Every action keeps what the leaves know of their seals.
LEMMA SealStep == ASSUME RoutingTypes, SealInv, [Next]_vars PROVE SealInv'
<1>1. /\ seq \in [Nodes -> Nat] /\ Leaves \subseteq Nodes /\ rebooted \subseteq Leaves
      /\ sealed \in [Leaves -> Nat] /\ \A n \in Leaves : seq[n] \in Nat /\ sealed[n] <= seq[n]
  BY NodeFacts DEF RoutingTypes, SealInv
<1>2. /\ sealed' \in [Leaves -> Nat]
      /\ \A n \in Leaves : sealed'[n] <= seq'[n] /\ seq[n] <= seq'[n] /\ seq'[n] \in Nat
      /\ rebooted \subseteq rebooted'
      /\ \A n \in Leaves : n \notin rebooted' => sealed[n] <= sealed'[n]
  BY <1>1, SealsStep
<1>3. ASSUME NEW f \in air, f.type \in {"DATA", "REPORT"}
      PROVE  /\ f.origin \in Leaves /\ f.seq \in Nat /\ f.seq <= seq'[f.origin]
             /\ f.origin \notin rebooted' => sealed'[f.origin] # 0 /\ f.seq <= sealed'[f.origin]
  <2>1. f.origin \in Leaves /\ f.seq \in Nat /\ SealOk(f)
    BY <1>3 DEF RoutingTypes, Addressed, Frames, SealInv
  <2> QED
    BY <1>1, <1>2, <1>3, <2>1 DEF SealOk
<1>4. ASSUME NEW n \in Leaves, SendUplink(n, "DATA") \/ SendUplink(n, "REPORT")
      PROVE  seq[n] + 1 <= seq'[n] /\ sealed'[n] = seq[n] + 1 /\ seq[n] + 1 # 0
  BY <1>1, <1>4 DEF SendUplink
<1>5. ASSUME NEW g \in air' PROVE SealOk(g)'
  <2>1. CASE g.type \notin {"DATA", "REPORT"}
    BY <2>1 DEF SealOk
  <2>2. CASE g.type \in {"DATA", "REPORT"}
    <3>1. CASE \E f \in air : f.type \in {"DATA", "REPORT"} /\ g.origin = f.origin /\ g.seq = f.seq
      BY <1>3, <3>1 DEF SealOk
    <3>2. CASE \E n \in Leaves : /\ SendUplink(n, "DATA") \/ SendUplink(n, "REPORT")
                                 /\ g.origin = n /\ g.seq = seq[n] + 1
      BY <1>1, <1>4, <3>2 DEF SealOk
    <3> QED
      BY <2>2, <3>1, <3>2, UplinksStep
  <2> QED
    BY <2>1, <2>2
<1> QED
  BY <1>2, <1>5 DEF SealInv

Chain(o, p) ==
    /\ p # << >> => Linked(o, p[1])
    /\ \A i \in 1..(Len(p) - 1) : Linked(p[i], p[i + 1])

EndOf(o, p) == IF p = << >> THEN o ELSE p[Len(p)]

\* No relay twice, and not the origin, but for those that restarted (R).
Simple(o, p, R) ==
    /\ \A i \in 1..Len(p) : p[i] = o => o \in R
    /\ \A i, j \in 1..Len(p) : p[i] = p[j] => i = j \/ p[i] \in R

ReportOk(f, M, R) ==
    f.type = "REPORT" =>
        /\ Simple(f.origin, f.path, R) /\ Chain(f.origin, f.path)
        /\ f.from = EndOf(f.origin, f.path) /\ Linked(f.from, f.to)
        /\ \A i \in 1..Len(f.path) : f.path[i] \in R \/ f.seq <= M[f.path[i]][f.origin]

RouteOk(r, R) ==
    /\ Simple(r.node, r.path, R) /\ Chain(r.node, r.path) /\ Linked(EndOf(r.node, r.path), Master)
    /\ \A i \in 1..Len(r.path) : r.path[i] # r.node

ReportInv ==
    /\ \A f \in air : ReportOk(f, marks, rebooted)
    /\ \A i \in 1..Len(routes) : RouteOk(routes[i], rebooted)

\* Marks only grow, except where a leaf restarts.
Grown(M, R, M2, R2) ==
    R \subseteq R2 /\ \A n, o \in Nodes : n \in R2 \/ M[n][o] <= M2[n][o]

\* Every action lets the marks grow, or restarts the node that loses them.
LEMMA MarksGrow ==
    ASSUME RoutingTypes, [Next]_vars PROVE Grown(marks, rebooted, marks', rebooted')
<1>1. ASSUME NEW f \in air, Pass(f), rebooted' = rebooted
      PROVE  Grown(marks, rebooted, marks', rebooted')
  <2>1. f \in Frames
    BY DEF RoutingTypes
  <2> QED
    BY <1>1, <2>1, PassTypes DEF Grown
<1>2. ASSUME NEW l, LoseRam(l) PROVE Grown(marks, rebooted, marks', rebooted')
  <2>1. /\ marks' = [marks EXCEPT ![l] = [o \in Nodes |-> 0]]
        /\ rebooted' = rebooted \cup {l}
    BY <1>2 DEF LoseRam
  <2>2. ASSUME NEW n \in Nodes, NEW o \in Nodes, n # l PROVE marks[n][o] <= marks'[n][o]
    <3>1. marks'[n][o] = marks[n][o] /\ marks[n][o] \in Nat
      BY <2>1, <2>2 DEF RoutingTypes
    <3> QED
      BY <3>1
  <2> QED
    BY <2>1, <2>2 DEF Grown
<1>3. ASSUME marks' = marks, rebooted' = rebooted PROVE Grown(marks, rebooted, marks', rebooted')
  <2>1. \A n, o \in Nodes : marks[n][o] \in Nat
    BY DEF RoutingTypes
  <2> QED
    BY <1>3, <2>1 DEF Grown
<1>4. \/ marks' = marks /\ rebooted' = rebooted
      \/ \E f \in air : (Pass(f) /\ rebooted' = rebooted) \/ LoseRam(f.to)
      \/ \E n \in Leaves : LoseRam(n)
  BY DEF Next, vars, OwnUplinkBack, Restart, SendBeacon, Receive, ReceiveBeacon, RelayData, RelayReport, RecordRoute,
         ForwardOnRoute, Ends, RelayBeacon, NeighborStale, MasterTimeout, SendUplink, SendDownlink
<1> QED
  BY <1>1, <1>2, <1>3, <1>4

\* What holds of a report and of a route goes on to hold.
LEMMA ReportStays ==
    ASSUME NEW f \in Frames, NEW M \in [Nodes -> [Nodes -> Nat]], NEW R,
           NEW M2 \in [Nodes -> [Nodes -> Nat]], NEW R2,
           Grown(M, R, M2, R2), ReportOk(f, M, R)
    PROVE  ReportOk(f, M2, R2)
<1> SUFFICES ASSUME f.type = "REPORT" PROVE ReportOk(f, M2, R2)
  BY DEF ReportOk
<1>1. f.path \in Seq(Leaves) /\ f.origin \in Nodes /\ f.seq \in Nat
  BY DEF Frames
<1>2. \A i \in 1..Len(f.path) : f.path[i] \in Nodes
  BY <1>1, NodeFacts
<1>3. Simple(f.origin, f.path, R2)
  BY DEF ReportOk, Simple, Grown
<1>4. ASSUME NEW i \in 1..Len(f.path)
      PROVE  f.path[i] \in R2 \/ f.seq <= M2[f.path[i]][f.origin]
  <2>1. PICK x \in Nodes : x = f.path[i]
    BY <1>2
  <2>2. x \in R \/ f.seq <= M[x][f.origin]
    BY <2>1 DEF ReportOk
  <2>3. M[x][f.origin] \in Nat /\ M2[x][f.origin] \in Nat
    BY <1>1
  <2>4. x \in R2 \/ M[x][f.origin] <= M2[x][f.origin]
    BY <1>1 DEF Grown
  <2>5. x \in R => x \in R2
    BY DEF Grown
  <2>6. PICK s, a, b \in Nat : s = f.seq /\ a = M[x][f.origin] /\ b = M2[x][f.origin]
    BY <1>1, <2>3
  <2>7. s <= a /\ a <= b => s <= b
    BY <2>6
  <2> QED
    BY <2>1, <2>2, <2>4, <2>5, <2>6, <2>7, Zenon
<1> QED
  BY <1>3, <1>4 DEF ReportOk

\* A route stays simple when more leaves have restarted.
LEMMA RouteStays ==
    ASSUME NEW r, NEW R, NEW R2, R \subseteq R2, RouteOk(r, R) PROVE RouteOk(r, R2)
BY DEF RouteOk, Simple

\* A path with one relay more.
LEMMA LongerPath ==
    ASSUME NEW p \in Seq(Leaves), NEW x \in Leaves, NEW q, q = Append(p, x)
    PROVE  /\ q \in Seq(Leaves) /\ Len(q) = Len(p) + 1 /\ q # << >>
           /\ q[Len(q)] = x /\ \A i \in 1..Len(p) : q[i] = p[i]
OBVIOUS

\* A relayed report: its relay is not, unless it restarted, its origin, which
\* would refuse to seal it, nor in the path already, since it would know the report.
LEMMA RelayKeepsReport ==
    ASSUME RoutingTypes, SealInv, ReportInv, NEW f \in air, RelayReport(f), NEW g \in air', g \notin air
    PROVE  ReportOk(g, marks', rebooted')
<1>1. /\ f \in Frames /\ f.type = "REPORT" /\ f.to \in Leaves /\ f.origin \in Leaves
      /\ Pass(f) /\ rebooted' = rebooted
  BY DEF RoutingTypes, RelayReport, Addressed
<1>2. /\ f.path \in Seq(Leaves) /\ f.origin \in Nodes /\ f.to \in Nodes /\ f.seq \in Nat
  BY <1>1, NodeFacts DEF Frames
<1>3. /\ g \in Frames /\ g.type = "REPORT" /\ g.origin = f.origin /\ g.seq = f.seq
      /\ g.path = Append(f.path, f.to) /\ g.from = f.to /\ Linked(g.from, g.to)
  BY <1>1, RelayedReport
<1>4. f.to = f.origin => f.origin \in rebooted
  <2> SUFFICES ASSUME f.to = f.origin PROVE f.origin \in rebooted
    OBVIOUS
  <2>1. UplinkHops(f) # {} /\ ~Refused(f)
    BY DEF RelayReport, Sealing
  <2>2. NextHops(f.to) # {}
    BY <1>1, <2>1 DEF UplinkHops
  <2>3. dist[f.to] # Far
    BY <2>2 DEF NextHops, Far
  <2>4. SealOk(f)
    BY DEF SealInv
  <2> QED
    BY <1>1, <2>1, <2>3, <2>4 DEF OwnUplink, Refused, SealOk
<1>5. /\ Simple(f.origin, f.path, rebooted) /\ Chain(f.origin, f.path)
      /\ f.from = EndOf(f.origin, f.path) /\ Linked(f.from, f.to)
      /\ \A i \in 1..Len(f.path) : f.path[i] \in rebooted \/ f.seq <= marks[f.path[i]][f.origin]
  BY <1>1 DEF ReportInv, ReportOk
<1>6. ~(f.seq <= marks[f.to][f.origin]) /\ marks'[f.to][f.origin] = f.seq
  BY <1>1, PassTypes
<1>7. \A n, o \in Nodes : marks[n][o] <= marks'[n][o]
  BY <1>1, PassTypes
<1>8. PICK q : q = Append(f.path, f.to)
  OBVIOUS
<1>9. PICK l \in Nat : l = Len(f.path)
  BY <1>2
<1>10. /\ q \in Seq(Leaves) /\ Len(q) = l + 1 /\ q # << >>
       /\ q[l + 1] = f.to /\ \A i \in 1..l : q[i] = f.path[i]
  BY <1>1, <1>2, <1>8, <1>9, LongerPath
<1>11. ASSUME NEW i \in 1..l, q[i] = f.to PROVE f.to \in rebooted
  BY <1>5, <1>6, <1>9, <1>10, <1>11
<1>12. Simple(f.origin, q, rebooted)
  <2>1. ASSUME NEW i \in 1..(l + 1), q[i] = f.origin PROVE f.origin \in rebooted
    <3>1. CASE i = l + 1
      BY <1>4, <1>10, <2>1, <3>1
    <3>2. CASE i # l + 1
      <4>1. i \in 1..l
        BY <3>2
      <4> QED
        BY <1>5, <1>9, <1>10, <2>1, <4>1 DEF Simple
    <3> QED
      BY <3>1, <3>2
  <2>2. ASSUME NEW i \in 1..(l + 1), NEW j \in 1..(l + 1), q[i] = q[j]
        PROVE  i = j \/ q[i] \in rebooted
    <3>1. CASE i \in 1..l /\ j \in 1..l
      BY <1>5, <1>9, <1>10, <2>2, <3>1 DEF Simple
    <3>2. CASE i \in 1..l /\ j = l + 1
      BY <1>10, <1>11, <2>2, <3>2
    <3>3. CASE i = l + 1 /\ j \in 1..l
      BY <1>10, <1>11, <2>2, <3>3
    <3>4. i \in 1..l \/ i = l + 1
      OBVIOUS
    <3>5. j \in 1..l \/ j = l + 1
      OBVIOUS
    <3> QED
      BY <3>1, <3>2, <3>3, <3>4, <3>5
  <2> QED
    BY <1>10, <2>1, <2>2 DEF Simple
<1>13. Chain(f.origin, q) /\ EndOf(f.origin, q) = f.to
  <2>1. EndOf(f.origin, q) = f.to
    BY <1>10 DEF EndOf
  <2>2. CASE l = 0
    <3>1. f.path = << >>
      BY <1>2, <1>9, <2>2, EmptySeq
    <3>2. Linked(f.origin, q[1])
      BY <1>5, <1>10, <2>2, <3>1 DEF EndOf
    <3> QED
      BY <1>10, <2>1, <2>2, <3>2 DEF Chain
  <2>3. CASE l # 0
    <3>1. f.path # << >> /\ 1 \in 1..l /\ l \in 1..l
      BY <1>2, <1>9, <2>3, EmptySeq
    <3>2. Linked(f.origin, q[1])
      BY <1>5, <1>10, <3>1 DEF Chain
    <3>3. Linked(q[l], q[l + 1])
      BY <1>5, <1>9, <1>10, <3>1 DEF EndOf
    <3>4. ASSUME NEW i \in 1..l PROVE Linked(q[i], q[i + 1])
      <4>1. CASE i = l
        BY <3>3, <4>1
      <4>2. CASE i # l
        <5>1. i \in 1..(l - 1) /\ i + 1 \in 1..l
          BY <4>2
        <5> QED
          BY <1>5, <1>9, <1>10, <5>1 DEF Chain
      <4> QED
        BY <4>1, <4>2
    <3>5. Len(q) - 1 = l
      BY <1>10
    <3> QED
      BY <2>1, <3>2, <3>4, <3>5 DEF Chain
  <2> QED
    BY <2>2, <2>3
<1>14. ASSUME NEW i \in 1..(l + 1) PROVE q[i] \in rebooted \/ f.seq <= marks'[q[i]][f.origin]
  <2>1. CASE i = l + 1
    BY <1>2, <1>6, <1>10, <2>1
  <2>2. CASE i # l + 1
    <3>1. i \in 1..l
      BY <2>2
    <3>2. PICK x \in Nodes : x = f.path[i] /\ x = q[i]
      BY <1>2, <1>9, <1>10, <3>1, NodeFacts
    <3>3. x \in rebooted \/ f.seq <= marks[x][f.origin]
      BY <1>5, <1>9, <3>1, <3>2
    <3>4. marks[x][f.origin] <= marks'[x][f.origin]
      BY <1>2, <1>7
    <3>5. marks[x][f.origin] \in Nat /\ marks'[x][f.origin] \in Nat
      <4>1. /\ marks \in [Nodes -> [Nodes -> Nat]]
            /\ marks' \in [Nodes -> [Nodes -> Nat]]
        BY <1>1, PassTypes DEF RoutingTypes
      <4> QED
        BY <1>2, <4>1
    <3>6. PICK s, a, b \in Nat : s = f.seq /\ a = marks[x][f.origin] /\ b = marks'[x][f.origin]
      BY <1>2, <3>5
    <3>7. s <= a /\ a <= b => s <= b
      BY <3>6
    <3> QED
      BY <3>2, <3>3, <3>4, <3>6, <3>7, Zenon
  <2> QED
    BY <2>1, <2>2
<1>15. g.path = q
  BY <1>3, <1>8
<1> QED
  BY <1>1, <1>3, <1>10, <1>12, <1>13, <1>14, <1>15 DEF ReportOk

\* Nothing is sealed at the start.
LEMMA SealInit == ASSUME Init PROVE SealInv
<1>1. seq \in [Nodes -> Nat] /\ sealed \in [Leaves -> Nat] /\ air = {}
  BY DEF Init
<1>2. \A n \in Leaves : sealed[n] <= seq[n]
  BY NodeFacts DEF Init
<1> QED
  BY <1>1, <1>2 DEF SealInv

\* No report is on the air at the start, and none recorded.
LEMMA ReportInit == ASSUME Init PROVE ReportInv
<1>1. Len(<< >>) = 0
  OBVIOUS
<1> QED
  BY <1>1 DEF Init, ReportInv

\* The report a leaf sends about itself has an empty path.
LEMMA OwnReport ==
    ASSUME NEW g, NEW M, NEW R, g.path = << >>, g.from = g.origin, Linked(g.from, g.to)
    PROVE  ReportOk(g, M, R)
<1>1. Len(g.path) = 0
  OBVIOUS
<1> QED
  BY <1>1 DEF ReportOk, Simple, Chain, EndOf

\* Every action keeps the paths of reports and routes.
LEMMA ReportStep == ASSUME RoutingTypes, SealInv, ReportInv, [Next]_vars PROVE ReportInv'
<1>1. Grown(marks, rebooted, marks', rebooted')
  BY MarksGrow
<1>2. marks \in [Nodes -> [Nodes -> Nat]] /\ marks' \in [Nodes -> [Nodes -> Nat]]
  BY TypesStep DEF RoutingTypes
<1>3. ASSUME NEW g \in air' PROVE ReportOk(g, marks', rebooted')
  <2>1. CASE g \in air
    <3>1. g \in Frames /\ ReportOk(g, marks, rebooted)
      BY <2>1 DEF RoutingTypes, ReportInv
    <3> QED
      BY <1>1, <1>2, <3>1, ReportStays, Zenon
  <2>2. CASE g.type # "REPORT"
    BY <2>2 DEF ReportOk
  <2>3. CASE g \notin air /\ g.type = "REPORT"
    <3>1. air' # air
      BY <2>3
    <3>2. ASSUME SendBeacon PROVE FALSE
      <4>1. g \in BeaconFrames(Master, [seq |-> seq[Master] + 1, hop |-> 0])
        BY <2>3, <3>2 DEF SendBeacon
      <4> QED
        BY <2>3, <4>1 DEF BeaconFrames
    <3>3. ASSUME NEW f \in air, Receive(f) PROVE ReportOk(g, marks', rebooted')
      <4>1. f \in Frames
        BY DEF RoutingTypes
      <4>2. RelayData(f) \/ RelayReport(f) \/ ForwardOnRoute(f)
        BY <3>1, <3>3 DEF Receive, ReceiveBeacon, OwnUplinkBack, RecordRoute, Ends
      <4>3. ~RelayData(f) /\ ~ForwardOnRoute(f)
        BY <2>3, <4>1, RelayedData, ForwardedFrame
      <4> QED
        BY <2>3, <4>2, <4>3, RelayKeepsReport
    <3>4. ASSUME NEW n \in Leaves, RelayBeacon(n) PROVE FALSE
      <4>1. PICK b \in pending[n] : air' = air \cup BeaconFrames(n, b)
        BY <3>4 DEF RelayBeacon
      <4> QED
        BY <2>3, <4>1 DEF BeaconFrames
    <3>5. ASSUME NEW n \in Leaves, SendUplink(n, "DATA") \/ SendUplink(n, "REPORT")
          PROVE  ReportOk(g, marks', rebooted')
      <4>1. g.path = << >> /\ g.from = g.origin /\ Linked(g.from, g.to)
        BY <2>3, <3>5, UplinkFrames
      <4> QED
        BY <4>1, OwnReport
    <3>6. ASSUME NEW n \in Leaves, SendDownlink(n) PROVE FALSE
      BY <2>3, <3>6, DownlinkFrames
    <3>7. Next
      BY <3>1 DEF vars
    <3> QED
      BY <3>1, <3>2, <3>3, <3>4, <3>5, <3>6, <3>7 DEF Next, NeighborStale, MasterTimeout, Restart
  <2> QED
    BY <2>1, <2>2, <2>3
<1>4. ASSUME NEW i \in 1..Len(routes') PROVE RouteOk(routes'[i], rebooted')
  <2>1. rebooted \subseteq rebooted'
    BY <1>1 DEF Grown
  <2>2. ASSUME NEW k \in 1..Len(routes) PROVE RouteOk(routes[k], rebooted')
    <3>1. RouteOk(routes[k], rebooted)
      BY DEF ReportInv
    <3> QED
      BY <2>1, <3>1, RouteStays, Zenon
  <2>3. CASE routes' = routes
    BY <2>2, <2>3
  <2>4. ASSUME NEW f \in air, RecordRoute(f) PROVE RouteOk(routes'[i], rebooted')
    <3>1. f.type = "REPORT" /\ f.to = Master /\ rebooted' = rebooted
      BY <2>4 DEF RecordRoute
    <3>2. PICK r : r = [node |-> f.origin, path |-> f.path]
      OBVIOUS
    <3>3. RouteOk(r, rebooted')
      <4>1. f.path \in Seq(Leaves) /\ f.origin \notin Range(f.path)
        BY <2>4 DEF RoutingTypes, Frames, RecordRoute, SealedTwice
      <4>2. \A k \in 1..Len(f.path) : f.path[k] # f.origin
        BY <4>1 DEF Range
      <4> QED
        BY <3>1, <3>2, <4>2 DEF ReportInv, ReportOk, RouteOk
    <3>4. routes'[i] = r \/ \E k \in 1..Len(routes) : routes'[i] = routes[k]
      BY <2>4, <3>2, RecordRouteIs
    <3> QED
      BY <2>2, <3>3, <3>4
  <2>5. routes' = routes \/ \E f \in air : RecordRoute(f)
    BY DEF Next, vars, SendBeacon, Receive, ReceiveBeacon, RelayData, RelayReport, OwnUplinkBack, Restart,
           ForwardOnRoute, Ends, RelayBeacon, NeighborStale, MasterTimeout, SendUplink, SendDownlink
  <2> QED
    BY <2>3, <2>4, <2>5
<1> QED
  BY <1>3, <1>4, Zenon
     DEF ReportInv, ReportOk, RouteOk, Simple, Chain, EndOf, Linked

\* The strengthening for reports: a leaf that has not restarted knows what it
\* sealed, and the path of every report on the air and of every route recorded
\* is a chain of links, simple but for restarts, which its relays' marks have
\* reached.
THEOREM ReportInvariant == Spec => [](RoutingTypes /\ SealInv /\ ReportInv)
<1>1. Init => RoutingTypes /\ SealInv /\ ReportInv
  BY TypesInit, ReportInit, SealInit
<1>2. RoutingTypes /\ SealInv /\ ReportInv /\ [Next]_vars => (RoutingTypes /\ SealInv /\ ReportInv)'
  BY TypesStep, SealStep, ReportStep
<1> QED
  BY <1>1, <1>2, PTL DEF Spec

\* Stale distances may make next hops form a loop, but no route report goes
\* round one: the path it gathers (RouteReportHandler) holds no relay twice, nor
\* its origin, that has not restarted, and never the master; the route the master
\* records of it (RouteTable) does not hold its own node.
THEOREM RouteReportsDoNotLoop == Spec => []ReportsDoNotLoop
<1>1. ASSUME RoutingTypes, ReportInv, NEW r, r.path \in Seq(Leaves), Simple(r.node, r.path, rebooted)
      PROVE  /\ Master \notin Range(r.path)
             /\ r.node \in Range(r.path) => r.node \in rebooted
             /\ \A i, j \in 1..Len(r.path) : r.path[i] = r.path[j] => i = j \/ r.path[i] \in rebooted
  <2>1. DOMAIN r.path = 1..Len(r.path) /\ \A i \in 1..Len(r.path) : r.path[i] \in Leaves
    BY <1>1
  <2> QED
    BY <1>1, <2>1, NodeFacts DEF Range, Simple
<1>2. ASSUME RoutingTypes, ReportInv, NEW r \in Range(routes)
      PROVE  /\ r.path \in Seq(Leaves) /\ Simple(r.node, r.path, rebooted)
             /\ r.node \notin Range(r.path)
  <2>1. PICK i \in 1..Len(routes) : r = routes[i]
    <3>1. DOMAIN routes = 1..Len(routes)
      BY <1>2 DEF RoutingTypes
    <3> QED
      BY <3>1 DEF Range
  <2>2. r.path \in Seq(Leaves) /\ RouteOk(r, rebooted)
    <3>1. routes[i] \in Routes /\ RouteOk(routes[i], rebooted)
      BY <1>2 DEF RoutingTypes, ReportInv
    <3> QED
      BY <2>1, <3>1 DEF Routes
  <2>3. DOMAIN r.path = 1..Len(r.path)
    BY <2>2
  <2> QED
    BY <2>2, <2>3 DEF RouteOk, Range
<1>3. ASSUME RoutingTypes, ReportInv, NEW f \in air, f.type = "REPORT", NEW r,
             r = [node |-> f.origin, path |-> f.path]
      PROVE  r.path \in Seq(Leaves) /\ Simple(r.node, r.path, rebooted)
  <2>1. f \in Frames /\ ReportOk(f, marks, rebooted)
    BY <1>3 DEF RoutingTypes, ReportInv
  <2> QED
    BY <1>3, <2>1 DEF Frames, ReportOk
<1>4. RoutingTypes /\ ReportInv => ReportsDoNotLoop
  <2> SUFFICES ASSUME RoutingTypes, ReportInv PROVE ReportsDoNotLoop
    OBVIOUS
  <2>1. \A r \in Paths : r.path \in Seq(Leaves) /\ Simple(r.node, r.path, rebooted)
    <3> SUFFICES ASSUME NEW r \in Paths
                 PROVE  r.path \in Seq(Leaves) /\ Simple(r.node, r.path, rebooted)
      OBVIOUS
    <3>1. CASE r \in Range(routes)
      BY <1>2, <3>1
    <3>2. CASE r \notin Range(routes)
      <4>1. PICK f \in air : f.type = "REPORT" /\ r = [node |-> f.origin, path |-> f.path]
        BY <3>2 DEF Paths
      <4> QED
        BY <1>3, <4>1
    <3> QED
      BY <3>1, <3>2
  <2> QED
    BY <1>1, <1>2, <2>1 DEF ReportsDoNotLoop
<1> QED
  BY <1>4, ReportInvariant, PTL

-----------------------------------------------------------------------------
(***************************************************************************)
(* Downlinks.  A recorded path is a chain of links from its node to the    *)
(* master; links are symmetric, so its reverse leads back, and a downlink  *)
(* is on that chain at every hop.                                          *)
(***************************************************************************)

DownOk(f) ==
    f.type = "DOWN" =>
        /\ Linked(f.from, f.to)
        /\ f.path # << >> => Linked(f.path[Len(f.path)], f.target)
        /\ \A i \in 1..(Len(f.path) - 1) : Linked(f.path[i], f.path[i + 1])

DownInv == \A f \in air : DownOk(f)

\* A route of the master, reversed, is a way from the master to its node.
LEMMA RouteLeadsBack ==
    ASSUME NEW p \in Seq(Leaves), p # << >>, NEW o, Chain(o, p), Linked(EndOf(o, p), Master),
           NEW q, q = Reverse(p)
    PROVE  /\ Linked(Master, q[1]) /\ Linked(q[Len(q)], o)
           /\ \A i \in 1..(Len(q) - 1) : Linked(q[i], q[i + 1])
<1>1. PICK l \in Nat : l = Len(p)
  OBVIOUS
<1>2. l >= 1 /\ 1 \in 1..l /\ l \in 1..l
  <2>1. l # 0
    BY <1>1, EmptySeq
  <2> QED
    BY <2>1
<1>3. /\ q \in Seq(Leaves) /\ Len(q) = l
      /\ \A i \in 1..l : q[i] = p[(l - i) + 1]
  BY <1>1, ReverseIs
<1>4. q[1] = p[l] /\ q[l] = p[1]
  <2>1. (l - 1) + 1 = l /\ (l - l) + 1 = 1
    OBVIOUS
  <2> QED
    BY <1>2, <1>3, <2>1
<1>5. Linked(Master, q[1]) /\ Linked(q[l], o)
  BY <1>1, <1>4, NodeFacts DEF Chain, EndOf
<1>6. ASSUME NEW i \in 1..(l - 1) PROVE Linked(q[i], q[i + 1])
  <2>1. /\ i \in 1..l /\ i + 1 \in 1..l /\ l - i \in 1..(l - 1)
        /\ (l - (i + 1)) + 1 = l - i
    BY <1>2
  <2>2. q[i] = p[(l - i) + 1] /\ q[i + 1] = p[l - i]
    BY <1>3, <2>1
  <2>3. Linked(p[l - i], p[(l - i) + 1])
    BY <1>1, <2>1 DEF Chain
  <2> QED
    BY <2>2, <2>3, NodeFacts
<1> QED
  BY <1>3, <1>5, <1>6

\* Every action keeps downlinks on chains of links.
LEMMA DownStep == ASSUME RoutingTypes, ReportInv, DownInv, [Next]_vars PROVE DownInv'
<1>1. ASSUME NEW g \in air' PROVE DownOk(g)
  <2>1. CASE g \in air \/ g.type # "DOWN"
    BY <2>1 DEF DownOk, DownInv
  <2>2. CASE g \notin air /\ g.type = "DOWN"
    <3>1. air' # air
      BY <2>2
    <3>2. ASSUME SendBeacon PROVE FALSE
      <4>1. g \in BeaconFrames(Master, [seq |-> seq[Master] + 1, hop |-> 0])
        BY <2>2, <3>2 DEF SendBeacon
      <4> QED
        BY <2>2, <4>1 DEF BeaconFrames
    <3>3. ASSUME NEW f \in air, Receive(f) PROVE DownOk(g)
      <4>1. f \in Frames
        BY DEF RoutingTypes
      <4>2. RelayData(f) \/ RelayReport(f) \/ ForwardOnRoute(f)
        BY <3>1, <3>3 DEF Receive, ReceiveBeacon, OwnUplinkBack, RecordRoute, Ends
      <4>3. ForwardOnRoute(f) /\ f.type = "DOWN"
        BY <2>2, <4>1, <4>2, RelayedData, RelayedReport DEF ForwardOnRoute
      <4>4. PICK i \in 1..Len(f.path) :
              /\ g.path = f.path /\ g.target = f.target /\ g.from = f.path[i]
              /\ g.to = IF i < Len(f.path) THEN f.path[i + 1] ELSE f.target
        BY <2>2, <4>1, <4>3, ForwardedFrame
      <4>5. f.path \in Seq(Leaves)
        BY <4>1 DEF Frames
      <4>6. PICK l \in Nat : l = Len(f.path)
        BY <4>5
      <4>7. /\ f.path # << >> => Linked(f.path[l], f.target)
            /\ \A j \in 1..(l - 1) : Linked(f.path[j], f.path[j + 1])
        BY <4>3, <4>6 DEF DownInv, DownOk
      <4>8. Linked(g.from, g.to)
        <5>1. CASE i < l
          <6>1. i \in 1..(l - 1)
            BY <4>6, <5>1
          <6> QED
            BY <4>4, <4>6, <4>7, <5>1, <6>1
        <5>2. CASE ~(i < l)
          <6>1. i = l /\ f.path # << >>
            BY <4>5, <4>6, <5>2
          <6> QED
            BY <4>4, <4>6, <4>7, <5>2, <6>1
        <5> QED
          BY <5>1, <5>2
      <4> QED
        BY <4>4, <4>6, <4>7, <4>8 DEF DownOk
    <3>4. ASSUME NEW n \in Leaves, RelayBeacon(n) PROVE FALSE
      <4>1. PICK b \in pending[n] : air' = air \cup BeaconFrames(n, b)
        BY <3>4 DEF RelayBeacon
      <4> QED
        BY <2>2, <4>1 DEF BeaconFrames
    <3>5. ASSUME NEW n \in Leaves, SendUplink(n, "DATA") \/ SendUplink(n, "REPORT") PROVE FALSE
      BY <2>2, <3>5, UplinkFrames
    <3>6. ASSUME NEW n \in Leaves, SendDownlink(n) PROVE DownOk(g)
      <4>1. /\ g.target = n /\ g.from = Master
            /\ Sourced(g, n) \/ (g.path = << >> /\ Linked(g.from, g.to))
        BY <2>2, <3>6, DownlinkFrames
      <4>2. CASE Sourced(g, n)
        <5>1. PICK i \in 1..Len(routes) :
                /\ routes[i].node = n /\ g.path = Reverse(routes[i].path)
                /\ g.path # << >> /\ g.to = g.path[1]
          BY <4>2 DEF Sourced
        <5>2. PICK p : p = routes[i].path
          OBVIOUS
        <5>3. /\ p \in Seq(Leaves) /\ Chain(n, p) /\ Linked(EndOf(n, p), Master)
          <6>1. routes[i] \in Routes /\ RouteOk(routes[i], rebooted)
            BY DEF RoutingTypes, ReportInv
          <6> QED
            BY <5>1, <5>2, <6>1 DEF Routes, RouteOk
        <5>4. p # << >>
          <6>1. Len(Reverse(p)) = Len(p) /\ Reverse(p) \in Seq(Leaves)
            BY <5>3, ReverseIs
          <6> QED
            BY <5>1, <5>2, <6>1, EmptySeq
        <5>5. /\ Linked(Master, g.path[1]) /\ Linked(g.path[Len(g.path)], n)
              /\ \A j \in 1..(Len(g.path) - 1) : Linked(g.path[j], g.path[j + 1])
          BY <5>1, <5>2, <5>3, <5>4, RouteLeadsBack
        <5> QED
          BY <4>1, <5>1, <5>5 DEF DownOk
      <4>3. CASE g.path = << >> /\ Linked(g.from, g.to)
        <5>1. Len(g.path) = 0
          BY <4>3
        <5> QED
          BY <4>3, <5>1 DEF DownOk
      <4> QED
        BY <4>1, <4>2, <4>3
    <3>7. Next
      BY <3>1 DEF vars
    <3> QED
      BY <3>1, <3>2, <3>3, <3>4, <3>5, <3>6, <3>7 DEF Next, NeighborStale, MasterTimeout, Restart
  <2> QED
    BY <2>1, <2>2
<1> QED
  BY <1>1 DEF DownInv, DownOk, Linked

\* The strengthening for downlinks: what is recorded, and what is on the air.
THEOREM DownlinkInvariant == Spec => [](RoutingTypes /\ SealInv /\ ReportInv /\ DownInv)
<1>1. Init => RoutingTypes /\ SealInv /\ ReportInv /\ DownInv
  BY TypesInit, SealInit, ReportInit DEF Init, DownInv
<1>2. RoutingTypes /\ SealInv /\ ReportInv /\ DownInv /\ [Next]_vars => (RoutingTypes /\ SealInv /\ ReportInv /\ DownInv)'
  BY TypesStep, SealStep, ReportStep, DownStep
<1> QED
  BY <1>1, <1>2, PTL DEF Spec

\* A source-routed downlink goes from one radio neighbour to the next at every
\* hop: the path a report gathered, reversed, leads to its node (DownlinkRouter,
\* sendDownlinkToNode), in every mesh and whatever tables have been lost.
THEOREM SourceRoutesUsable == Spec => []SourceRouteUsable
<1>1. DownInv => SourceRouteUsable
  BY DEF DownInv, DownOk, Linked, SourceRouteUsable
<1> QED
  BY <1>1, DownlinkInvariant, PTL
=============================================================================
