------------------------------- MODULE Routing -------------------------------
(***************************************************************************)
(* How frames find their way through a mesh of one master and enrolled     *)
(* leaves.  The master's beacons are relayed outward, each leaf learning   *)
(* from them a NeighborTable and its distance to the master                *)
(* (MasterBeacon::process, NeighborTable).  Data and route reports are     *)
(* relayed hop by hop toward the master (UplinkRouter, MeshMessenger,      *)
(* RouteReportHandler); a report collects the relays it passes, and the    *)
(* master sends downlinks back along the reversed path (RouteTable,        *)
(* DownlinkRouter).  Every node keeps one high-water mark per origin, as   *)
(* ReplayCache does when it has a slot for every node.                     *)
(*                                                                         *)
(* A frame on the air may be delivered late, twice or never: frames stay   *)
(* in the air for good, and the replay marks are what stops a second copy  *)
(* (a dropped replay changes nothing, so it is no action).  A leaf that    *)
(* restarts loses its RAM, the note of what it sealed last included, while *)
(* its frames are still about; its sequence numbers go on, as the boot     *)
(* epoch sees to (TxSequence).  Every leaf is enrolled, the master is the  *)
(* pinned one, and a leaf's only enrolled peer is the master, as after a   *)
(* JOIN_ACK.                                                               *)
(***************************************************************************)
EXTENDS Integers, Sequences, FiniteSets, SequencesExt, FiniteSetsExt

CONSTANTS
    Leaves,
    Master,
    Links,        \* pairs of nodes within radio range of each other, symmetric
    NeighborMax,  \* LATTICE_NEIGHBOR_MAX, 8 in the code
    MaxHops,      \* MAX_HOPS, 8 in the code
    RouteMax,     \* LATTICE_ROUTE_TABLE_MAX, 16 in the code
    Traffic,      \* the uplink frames that are sent: pairs of a leaf and a type
    Targets,      \* leaves the hub addresses
    Unstable,     \* leaves that lose power, each at most once
    MaxSeq,       \* bound on the frames the master originates
    MaxUplinks    \* bound on the frames a leaf originates

ASSUME RoutingConstants ==
    /\ Master \notin Leaves
    /\ Links \subseteq (Leaves \cup {Master}) \X (Leaves \cup {Master})
    /\ \A l \in Links : <<l[2], l[1]>> \in Links
    /\ NeighborMax \in Nat \ {0}
    /\ MaxHops \in Nat \ {0}
    /\ Traffic \subseteq Leaves \X {"DATA", "REPORT"}
    /\ Targets \subseteq Leaves
    /\ Unstable \subseteq Leaves
    /\ MaxSeq \in Nat
    /\ MaxUplinks \in Nat
    /\ RouteMax \in Nat \ {0}

Nodes == Leaves \cup {Master}
Far == 255

VARIABLES
    seq,          \* per node: the sequence number it drew last
    marks,        \* per node and origin: the replay cache's mark
    table,        \* per leaf: NeighborTable, most recently heard first
    fresh,        \* per leaf: how many of them are not stale (a prefix)
    dist,         \* per leaf: currentMaster.distance; Far means no master
    relayed,      \* per leaf: seq of the beacon relayed last
    pending,      \* per leaf: relayPendingMsg, at most one
    sealed,       \* per leaf: number sealed last since boot, 0 for the sentinel
    routes,       \* the master's RouteTable, most recent [node, path] first
    air,          \* frames on their way to a receiver in range
    rebooted      \* history: leaves that have restarted

vars == <<seq, marks, table, fresh, dist, relayed, pending, sealed, routes, air, rebooted>>

Neighbors == [mac: Nodes, dist: 0..MaxHops]
Beacons == [seq: 1..MaxSeq, hop: 0..MaxHops]

TypeOK ==
    /\ seq \in [Nodes -> 0..(MaxSeq + MaxUplinks)]
    /\ marks \in [Nodes -> [Nodes -> 0..(MaxSeq + MaxUplinks)]]
    /\ \A n \in Leaves :
         /\ Len(table[n]) <= NeighborMax
         /\ \A i \in 1..Len(table[n]) : table[n][i] \in Neighbors
         /\ \A i, j \in 1..Len(table[n]) : table[n][i].mac = table[n][j].mac => i = j
         /\ fresh[n] \in 0..Len(table[n])
         /\ dist[n] \in (1..MaxHops) \cup {Far}
         /\ relayed[n] \in 0..MaxSeq
         /\ sealed[n] \in 0..MaxUplinks
         /\ Cardinality(pending[n]) <= 1 /\ pending[n] \subseteq Beacons
    /\ Len(routes) <= RouteMax
    /\ \A i \in 1..Len(routes) : routes[i].node \in Leaves /\ Len(routes[i].path) <= MaxHops
    /\ \A f \in air : f.hop \in 0..MaxHops /\ Len(f.path) <= MaxHops
    /\ rebooted \subseteq Leaves

InRange(n) == {m \in Nodes : <<n, m>> \in Links}

Init ==
    /\ seq = [n \in Nodes |-> 0]
    /\ marks = [n \in Nodes |-> [o \in Nodes |-> 0]]
    /\ table = [n \in Leaves |-> << >>]
    /\ fresh = [n \in Leaves |-> 0]
    /\ dist = [n \in Leaves |-> Far]
    /\ relayed = [n \in Leaves |-> 0]
    /\ pending = [n \in Leaves |-> {}]
    /\ sealed = [n \in Leaves |-> 0]
    /\ routes = << >>
    /\ air = {}
    /\ rebooted = {}

-----------------------------------------------------------------------------
(***************************************************************************)
(* Beacons.                                                                *)
(***************************************************************************)
BeaconFrames(n, b) ==
    {[type |-> "BEACON", origin |-> Master, target |-> Master, seq |-> b.seq,
      hop |-> b.hop, path |-> << >>, from |-> n, to |-> m] : m \in InRange(n) \ {Master}}

\* broadcastMasterBeacon.  (The master ignores the echoes of its own beacons.)
SendBeacon ==
    /\ seq[Master] < MaxSeq
    /\ seq' = [seq EXCEPT ![Master] = @ + 1]
    /\ air' = air \cup BeaconFrames(Master, [seq |-> seq[Master] + 1, hop |-> 0])
    /\ UNCHANGED <<marks, table, fresh, dist, relayed, pending, sealed, routes, rebooted>>

IsReplay(f) == f.seq <= marks[f.to][f.origin]

\* What isReplay leaves behind when it lets f pass.
Pass(f) ==
    /\ ~IsReplay(f)
    /\ marks' = [marks EXCEPT ![f.to][f.origin] = f.seq]

\* The slot of the table that mac gets: its own, an unused one (0), a stale
\* one, or that of a neighbour farthest from the master.
Slot(n, mac) ==
    LET own == {i \in 1..Len(table[n]) : table[n][i].mac = mac}
    IN  IF own /= {} THEN own
        ELSE IF Len(table[n]) < NeighborMax THEN {0}
        ELSE IF fresh[n] < Len(table[n]) THEN (fresh[n] + 1)..Len(table[n])
        ELSE {i \in 1..Len(table[n]) :
                \A j \in 1..Len(table[n]) : table[n][j].dist <= table[n][i].dist}

\* observeAndMinDistance, and the distance process() derives from it.
Observe(n, mac, d) ==
    \E i \in Slot(n, mac) :
        LET others == {j \in 1..fresh[n] : table[n][j].mac /= mac}
            kept == IF i = 0 THEN table[n] ELSE RemoveAt(table[n], i)
        IN  /\ table' = [table EXCEPT ![n] = <<[mac |-> mac, dist |-> d]>> \o kept]
            /\ fresh' = [fresh EXCEPT ![n] = 1 + Cardinality(others \ {i})]
            /\ dist' = [dist EXCEPT ![n] = 1 + Min({d} \cup {table[n][j].dist : j \in others})]

\* A fault: the beacon is relayed with the hop count it came with.
ReceiveBeaconHopKept(f) ==
    /\ f.type = "BEACON"
    /\ Pass(f)
    /\ f.hop < MaxHops
    /\ Observe(f.to, f.from, f.hop)
    /\ relayed' = [relayed EXCEPT ![f.to] = f.seq]
    /\ pending' = [pending EXCEPT ![f.to] = {[seq |-> f.seq, hop |-> f.hop]}]
    /\ UNCHANGED <<seq, sealed, routes, air, rebooted>>

\* MasterBeacon::process.  A relay is deferred; a relay still waiting for its
\* jitter is replaced.
ReceiveBeacon(f) ==
    /\ f.type = "BEACON"
    /\ Pass(f)
    /\ f.hop < MaxHops
    /\ Observe(f.to, f.from, f.hop)
    /\ IF f.seq <= relayed[f.to]
       THEN UNCHANGED <<relayed, pending>>
       ELSE /\ relayed' = [relayed EXCEPT ![f.to] = f.seq]
            /\ pending' = [pending EXCEPT ![f.to] = {[seq |-> f.seq, hop |-> dist'[f.to]]}]
    /\ UNCHANGED <<seq, sealed, routes, air, rebooted>>

\* The deferred relay of Mesh::loop.
RelayBeacon(n) ==
    \E b \in pending[n] :
        /\ pending' = [pending EXCEPT ![n] = {}]
        /\ air' = air \cup BeaconFrames(n, b)
        /\ UNCHANGED <<seq, marks, table, fresh, dist, relayed, sealed, routes, rebooted>>

\* STALE_PEER_THRESHOLD_MS passes since the neighbour heard longest ago.
NeighborStale(n) ==
    /\ fresh[n] > 0
    /\ fresh' = [fresh EXCEPT ![n] = @ - 1]
    /\ UNCHANGED <<seq, marks, table, dist, relayed, pending, sealed, routes, air, rebooted>>

\* checkTimeout.  STALE_MASTER_THRESHOLD_MS is the longer of the two, so every
\* neighbour is stale by then.
MasterTimeout(n) ==
    /\ dist[n] /= Far
    /\ fresh[n] = 0
    /\ dist' = [dist EXCEPT ![n] = Far]
    /\ UNCHANGED <<seq, marks, table, fresh, relayed, pending, sealed, routes, air, rebooted>>

\* What a leaf keeps in RAM after a restart.
LoseRam(n) ==
    /\ marks' = [marks EXCEPT ![n] = [o \in Nodes |-> 0]]
    /\ table' = [table EXCEPT ![n] = << >>]
    /\ fresh' = [fresh EXCEPT ![n] = 0]
    /\ dist' = [dist EXCEPT ![n] = Far]
    /\ relayed' = [relayed EXCEPT ![n] = 0]
    /\ pending' = [pending EXCEPT ![n] = {}]
    /\ sealed' = [sealed EXCEPT ![n] = 0]
    /\ rebooted' = rebooted \cup {n}

\* The power of a leaf fails, or a watchdog fires.
Restart(n) ==
    /\ n \in Unstable \ rebooted
    /\ LoseRam(n)
    /\ UNCHANGED <<seq, routes, air>>

-----------------------------------------------------------------------------
(***************************************************************************)
(* Uplink.                                                                 *)
(***************************************************************************)

\* selectNextHop: the freshest neighbour strictly closer than this node.
Closer(n) == {i \in 1..fresh[n] : table[n][i].dist < dist[n]}

\* findNextHopToMaster.  At distance 1 the master itself is preferred while its
\* peer entry is in range, which frames other than beacons keep up as well.
NextHops(n) ==
    (IF dist[n] = 1 THEN {Master} ELSE {}) \cup
    (IF dist[n] /= Far /\ Closer(n) /= {} THEN {table[n][Min(Closer(n))].mac} ELSE {})

\* sendMessage: only a receiver in range gets it.
Unicast(f) == IF <<f.from, f.to>> \in Links THEN {f} ELSE {}

\* transmitDispatch, and sendRouteReport, which does nothing without a next
\* hop; data that finds none is dropped after it was numbered and sealed.
SendUplink(n, type) ==
    /\ <<n, type>> \in Traffic
    /\ seq[n] < MaxUplinks
    /\ seq' = [seq EXCEPT ![n] = @ + 1]
    /\ \/ \E hop \in NextHops(n) :
            air' = air \cup Unicast([type |-> type, origin |-> n, target |-> Master,
                                     seq |-> seq[n] + 1, hop |-> 0, path |-> << >>,
                                     from |-> n, to |-> hop])
       \/ type = "DATA" /\ NextHops(n) = {} /\ UNCHANGED air
    /\ sealed' = [sealed EXCEPT ![n] = seq[n] + 1]
    /\ UNCHANGED <<marks, table, fresh, dist, relayed, pending, routes, rebooted>>

\* Where a leaf sends an uplink frame of another node.  Data that finds the leaf
\* without a master is flooded to its enrolled peers, that is to the master's
\* address; a report is not.
UplinkHops(f) ==
    IF f.type = "DATA" /\ dist[f.to] = Far THEN {Master} ELSE NextHops(f.to)

\* A fault: a frame's origin is not looked at.
OwnUplinkUnnoticed(f) == FALSE

\* transmitCore takes this frame for one it originates: its own, and a master
\* is known.
OwnUplink(f) == f.to = f.origin /\ dist[f.to] /= Far

\* checkEpochRollback refuses to seal it; the first seal since boot passes.
Refused(f) == OwnUplink(f) /\ sealed[f.to] /= 0 /\ f.seq <= sealed[f.to]

\* ... and what it notes otherwise.
Sealing(f) ==
    /\ ~Refused(f)
    /\ sealed' = IF OwnUplink(f) THEN [sealed EXCEPT ![f.to] = f.seq] ELSE sealed

Relayed(f, hop) == [f EXCEPT !.hop = @ + 1, !.from = f.to, !.to = hop]

\* processAdapterData on a leaf, RelayTowardMaster or Flood.
RelayData(f) ==
    /\ f.type = "DATA"
    /\ f.to \in Leaves
    /\ Pass(f)
    /\ f.hop < MaxHops
    /\ Sealing(f)
    /\ \E hop \in UplinkHops(f) : air' = air \cup Unicast(Relayed(f, hop))
    /\ UNCHANGED <<seq, table, fresh, dist, relayed, pending, routes, rebooted>>

\* processRouteReport on a leaf: it adds itself to the path.
RelayReport(f) ==
    /\ f.type = "REPORT"
    /\ f.to \in Leaves
    /\ Pass(f)
    /\ f.hop < MaxHops
    /\ Sealing(f)
    /\ \E hop \in UplinkHops(f) :
         air' = air \cup
                Unicast([Relayed(f, hop) EXCEPT !.path = Append(@, f.to)])
    /\ UNCHANGED <<seq, table, fresh, dist, relayed, pending, routes, rebooted>>

\* A leaf's own frame comes back, and checkEpochRollback restarts the node.
OwnUplinkBack(f) ==
    /\ f.type \in {"DATA", "REPORT"}
    /\ ~IsReplay(f)
    /\ f.hop < MaxHops
    /\ Refused(f)
    /\ LoseRam(f.to)
    /\ UNCHANGED <<seq, routes, air>>

RoutesOf(n) == {i \in 1..Len(routes) : routes[i].node = n}

\* The slot RouteTable::record gives n: its own, an unused one (0), the oldest.
RouteSlot(n) ==
    LET own == RoutesOf(n)
    IN  IF own /= {} THEN own
        ELSE IF Len(routes) < RouteMax THEN {0} ELSE {Len(routes)}

\* The origin has sealed the report again on its way: to the master the payload
\* is no report, and auth_path starts over in the middle of the path.
SealedTwice(f) == f.origin \in Range(f.path)

\* processRouteReport on the master; every hop of the path is enrolled, so the
\* chain verifies unless the origin is among them.
RecordRoute(f) ==
    /\ f.type = "REPORT"
    /\ f.to = Master
    /\ Pass(f)
    /\ ~SealedTwice(f)
    /\ \E i \in RouteSlot(f.origin) :
         routes' = <<[node |-> f.origin, path |-> f.path]>>
                   \o (IF i = 0 THEN routes ELSE RemoveAt(routes, i))
    /\ UNCHANGED <<seq, table, fresh, dist, relayed, pending, sealed, air, rebooted>>

-----------------------------------------------------------------------------
(***************************************************************************)
(* Downlink.                                                               *)
(***************************************************************************)
\* A fault: the path is used in the order the report gathered it.
SourceRouteAsReported(n) ==
    IF RoutesOf(n) = {} THEN << >> ELSE routes[Min(RoutesOf(n))].path

\* The reverse of the path recorded for n; empty if there is none.
SourceRoute(n) ==
    IF RoutesOf(n) = {} THEN << >> ELSE Reverse(routes[Min(RoutesOf(n))].path)

\* sendDownlinkToNode: along the source route, or to every enrolled peer.
SendDownlink(n) ==
    /\ n \in Targets
    /\ seq[Master] < MaxSeq
    /\ seq' = [seq EXCEPT ![Master] = @ + 1]
    /\ LET route == SourceRoute(n)
           down(m) == [type |-> "DOWN", origin |-> Master, target |-> n,
                       seq |-> seq[Master] + 1, hop |-> 0, path |-> route,
                       from |-> Master, to |-> m]
       IN  air' = air \cup (IF route /= << >> THEN {down(route[1])}
                            ELSE UNION {Unicast(down(m)) : m \in Leaves})
    /\ UNCHANGED <<marks, table, fresh, dist, relayed, pending, sealed, routes, rebooted>>

OnRoute(f) == {i \in 1..Len(f.path) : f.path[i] = f.to}

\* classify finds this leaf on the source route: forward to the hop after it.
ForwardOnRoute(f) ==
    /\ f.type = "DOWN"
    /\ f.to /= f.target
    /\ OnRoute(f) /= {}
    /\ Pass(f)
    /\ f.hop < MaxHops
    /\ LET i == Min(OnRoute(f))
           next == IF i < Len(f.path) THEN f.path[i + 1] ELSE f.target
       IN  air' = air \cup {Relayed(f, next)}
    /\ UNCHANGED <<seq, table, fresh, dist, relayed, pending, sealed, routes, rebooted>>

\* The frame is for this node, and whether it opens and is delivered or is
\* rejected, nothing is sent on: data and a report that does not verify at the
\* master, a downlink at its target.
Arrives(f) ==
    \/ f.type = "DATA" /\ f.to = Master
    \/ f.type = "REPORT" /\ f.to = Master /\ SealedTwice(f)
    \/ f.type = "DOWN" /\ f.to = f.target

\* The frame ends here: it arrives, has reached the hop limit, is a downlink at a
\* leaf off its route (whose flood reaches nobody but the master), or has no next
\* hop.
Ends(f) ==
    /\ Pass(f)
    /\ \/ /\ \/ Arrives(f)
             \/ f.hop >= MaxHops /\ f.to \in Leaves
             \/ f.type = "DOWN" /\ OnRoute(f) = {}
          /\ UNCHANGED sealed
       \/ /\ f.type \in {"DATA", "REPORT"} /\ f.to \in Leaves
          /\ f.hop < MaxHops
          /\ UplinkHops(f) = {}
          /\ Sealing(f)
    /\ UNCHANGED <<seq, table, fresh, dist, relayed, pending, routes, air, rebooted>>

Receive(f) ==
    \/ ReceiveBeacon(f)
    \/ RelayData(f)
    \/ RelayReport(f)
    \/ OwnUplinkBack(f)
    \/ RecordRoute(f)
    \/ ForwardOnRoute(f)
    \/ Ends(f)

Next ==
    \/ SendBeacon
    \/ \E f \in air : Receive(f)
    \/ \E n \in Leaves :
         \/ RelayBeacon(n)
         \/ NeighborStale(n)
         \/ MasterTimeout(n)
         \/ Restart(n)
         \/ SendUplink(n, "DATA")
         \/ SendUplink(n, "REPORT")
         \/ SendDownlink(n)

Spec == Init /\ [][Next]_vars

-----------------------------------------------------------------------------
(***************************************************************************)
(* Properties.                                                             *)
(***************************************************************************)

\* The nodes that k radio hops or fewer separate from the master: the ends of
\* the walks of k steps, each over a link or staying where it is.
Walks(k) ==
    {p \in [0..k -> Nodes] :
        p[0] = Master /\ \A i \in 1..k : p[i] = p[i - 1] \/ <<p[i - 1], p[i]>> \in Links}

Within == [k \in 0..MaxHops |-> {p[k] : p \in Walks(k)}]

\* No node takes itself, or a neighbour, to be closer to the master than the
\* radio links allow, however beacons are delayed, lost or overtaken: what a
\* node announces is one more than a distance its neighbour announced.  (Uplink
\* frames would otherwise be drawn to a node that has no way on.)
NeverUnderestimates ==
    /\ \A n \in Leaves :
         /\ dist[n] /= Far => n \in Within[dist[n]]
         /\ \A i \in 1..Len(table[n]) : table[n][i].mac \in Within[table[n][i].dist]
         /\ \A b \in pending[n] : n \in Within[b.hop]
    /\ \A f \in air : f.type = "BEACON" => f.from \in Within[f.hop]

Paths ==
    {[node |-> f.origin, path |-> f.path] : f \in {g \in air : g.type = "REPORT"}}
    \cup Range(routes)

\* Next hops may form a loop while neighbours hold stale distances, but a route
\* report does not go round one: nobody is in its path twice, and the origin not
\* at all, unless they restarted and forgot the report; the master is never in it,
\* and it records no report that its own origin relayed.
ReportsDoNotLoop ==
    /\ \A r \in Paths :
         /\ Master \notin Range(r.path)
         /\ r.node \in Range(r.path) => r.node \in rebooted
         /\ \A i, j \in 1..Len(r.path) :
              r.path[i] = r.path[j] => i = j \/ r.path[i] \in rebooted
    /\ \A r \in Range(routes) : r.node \notin Range(r.path)

\* A source-routed downlink is only ever sent from one radio neighbour to the
\* next: the path a report gathered outward leads back, to the end, in reverse.
SourceRouteUsable ==
    \A f \in air : f.type = "DOWN" => <<f.from, f.to>> \in Links
=============================================================================
