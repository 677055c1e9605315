------------------------------ MODULE PeerTable ------------------------------
(***************************************************************************)
(* Who is registered with the ESP-NOW driver of one node.  Four owners put *)
(* addresses into the driver's table of 20 and take them out again: the    *)
(* enrolled peers (PeerRegistry, registerPeerWithKey), the single uplink   *)
(* relay of UplinkRouter, the LRU of downlink next hops of DownlinkRouter, *)
(* and the broadcast address.  esp_now_send to an address that is not      *)
(* registered fails.                                                       *)
(*                                                                         *)
(* findNextHopToMaster runs in the mesh task (relays) and in the           *)
(* housekeeping task (the node's own data) without a lock: it looks at     *)
(* forwardingPeer, deletes that address, adds the new one and copies it    *)
(* into forwardingPeer, and the other task may come in between.  The copy  *)
(* is two stores, of addresses that differ in both parts.                  *)
(*                                                                         *)
(* Which neighbour selectNextHop picks, and which next hop a source route  *)
(* names, are left open; the beacons decide who the current master is.     *)
(* The names are those of the table, so that the module can stand beside   *)
(* Enrollment, which is about another PeerRegistry: the master's.          *)
(***************************************************************************)
EXTENDS Integers, Sequences, FiniteSets, SequencesExt

CONSTANTS
    Macs,         \* other boards
    MasterMacs,   \* the boards whose beacons are accepted (the pin: just one)
    LruMax,       \* LATTICE_DOWNLINK_PEER_MAX, 4 in the code
    RegistryMax,  \* MAX_PEERS, 10 in the code
    Callers,      \* the tasks that call findNextHopToMaster
    MaxOverlaps,  \* bound on the calls that overlap another one
    NoMac         \* the all-zero address

Tasks == {"mesh", "housekeeping"}

ASSUME PeerTableConstants ==
    /\ MasterMacs \subseteq Macs
    /\ LruMax \in Nat \ {0}
    /\ RegistryMax \in Nat
    /\ Callers \subseteq Tasks
    /\ MaxOverlaps \in Nat
    /\ NoMac \notin Macs
    /\ IsFiniteSet(Macs)

VARIABLES
    registry,     \* enrolled peers, PeerRegistry (in NVS as well)
    master,       \* currentMaster.mac, NoMac while distance = 0xFF
    lru,          \* downlinkPeerLru, most recently used first
    forwardingPeer, \* its first and its last bytes
    espNow,       \* the driver's table, without the broadcast address
    call,         \* per caller: where it is in findNextHopToMaster
    masters,      \* history: every current master since boot
    overlaps      \* history: calls since boot during which another one ran

tableVars == <<registry, master, lru, forwardingPeer, espNow, call, masters, overlaps>>

Stages == {"idle", "drop", "add", "head", "tail"}
Calls == [stage: Stages, hop: Macs \cup {NoMac}, raced: BOOLEAN]
NoCall == [stage |-> "idle", hop |-> NoMac, raced |-> FALSE]
Active == {t \in Callers : call[t].stage /= "idle"}
Busy(t) == t \in Active

\* The board that forwardingPeer names: none if the two parts do not match.
Relay == {forwardingPeer.head} \cap {forwardingPeer.tail}

TableTypeOK ==
    /\ registry \subseteq Macs /\ Cardinality(registry) <= RegistryMax
    /\ master \in MasterMacs \cup {NoMac}
    /\ lru \in Seq(Macs) /\ Len(lru) <= LruMax
    /\ \A i, j \in 1..Len(lru) : lru[i] = lru[j] => i = j
    /\ forwardingPeer \in [head: Macs \cup {NoMac}, tail: Macs \cup {NoMac}]
    /\ espNow \subseteq Macs
    /\ call \in [Callers -> Calls]
    /\ masters \subseteq MasterMacs
    /\ overlaps \in 0..MaxOverlaps

TableInit ==
    /\ registry = {}
    /\ master = NoMac
    /\ lru = << >>
    /\ forwardingPeer = [head |-> NoMac, tail |-> NoMac]
    /\ espNow = {}
    /\ call = [t \in Callers |-> NoCall]
    /\ masters = {}
    /\ overlaps = 0

-----------------------------------------------------------------------------
\* Mesh::init after a restart: the registry comes from NVS and
\* setupEspNow registers every peer in it.
TableRestart ==
    /\ master' = NoMac
    /\ lru' = << >>
    /\ forwardingPeer' = [head |-> NoMac, tail |-> NoMac]
    /\ espNow' = registry
    /\ call' = [t \in Callers |-> NoCall]
    /\ masters' = {}
    /\ overlaps' = 0
    /\ UNCHANGED registry

\* MasterBeacon::process accepts a beacon of an allowed master, in the mesh task.
BeaconAccepted(m) ==
    /\ ~Busy("mesh")
    /\ m \in MasterMacs
    /\ master' = m
    /\ masters' = masters \cup {m}
    /\ UNCHANGED <<registry, lru, forwardingPeer, espNow, call, overlaps>>

\* checkTimeout, in the housekeeping task.
MasterTimesOut ==
    /\ ~Busy("housekeeping")
    /\ master /= NoMac
    /\ master' = NoMac
    /\ UNCHANGED <<registry, lru, forwardingPeer, espNow, call, masters, overlaps>>

\* registerPeerWithKey for a new peer, or with a re-key: the registry entry,
\* then Enrollment::enrollPeer deletes and adds the address (mesh task).
PeerEnrolled(m) ==
    /\ ~Busy("mesh")
    /\ m \in registry \/ Cardinality(registry) < RegistryMax
    /\ registry' = registry \cup {m}
    /\ espNow' = espNow \cup {m}
    /\ UNCHANGED <<master, lru, forwardingPeer, call, masters, overlaps>>

-----------------------------------------------------------------------------
\* A call begins.  Calls that run at the same time race; each counts once.
Begins(t, c) ==
    LET others == Active \ {t}
        fresh == {u \in others : ~call[u].raced}
    IN  /\ call' = [u \in Callers |->
                      IF u = t THEN [c EXCEPT !.raced = others /= {}]
                      ELSE IF u \in others THEN [call[u] EXCEPT !.raced = TRUE]
                      ELSE call[u]]
        /\ overlaps' = overlaps + (IF others = {} THEN 0 ELSE 1 + Cardinality(fresh))
        /\ overlaps' <= MaxOverlaps

Moves(t, s) == call' = [call EXCEPT ![t].stage = s]

\* Fault: the relay before is left in the driver's table.
FindNextHopLeaks(t, hop) ==
    /\ call[t].stage = "idle"
    /\ master /= NoMac
    /\ Begins(t, [stage |-> "add", hop |-> hop, raced |-> FALSE])
    /\ UNCHANGED <<registry, master, lru, forwardingPeer, espNow, masters>>

\* findNextHopToMaster through a neighbour; hop is what selectNextHop returned.
\* (The direct way through an enrolled master changes nothing.)  The relay so
\* far is to go if it is another one, not enrolled and not the master; mixed
\* bytes are none of these.
FindNextHop(t, hop) ==
    /\ call[t].stage = "idle"
    /\ master /= NoMac
    /\ LET drop == Relay \cap ({NoMac, hop, master} \cup registry) = {}
       IN  Begins(t, [stage |-> IF drop THEN "drop" ELSE "add", hop |-> hop, raced |-> FALSE])
    /\ UNCHANGED <<registry, master, lru, forwardingPeer, espNow, masters>>

\* esp_now_del_peer of what forwardingPeer names by now.
DropRelay(t) ==
    /\ call[t].stage = "drop"
    /\ espNow' = espNow \ Relay
    /\ Moves(t, "add")
    /\ UNCHANGED <<registry, master, lru, forwardingPeer, masters, overlaps>>

\* registerPeerWithEspNow(hopMac).
AddRelay(t) ==
    /\ call[t].stage = "add"
    /\ espNow' = espNow \cup {call[t].hop}
    /\ Moves(t, "head")
    /\ UNCHANGED <<registry, master, lru, forwardingPeer, masters, overlaps>>

\* memcpy(forwardingPeer, hopMac, 6), and the call returns.
CopyHead(t) ==
    /\ call[t].stage = "head"
    /\ forwardingPeer' = [forwardingPeer EXCEPT !.head = call[t].hop]
    /\ Moves(t, "tail")
    /\ UNCHANGED <<registry, master, lru, espNow, masters, overlaps>>

CopyTail(t) ==
    /\ call[t].stage = "tail"
    /\ forwardingPeer' = [forwardingPeer EXCEPT !.tail = call[t].hop]
    /\ call' = [call EXCEPT ![t] = NoCall]
    /\ UNCHANGED <<registry, master, lru, espNow, masters, overlaps>>

Owned(m) == m \in registry \/ (master /= NoMac /\ m = master)

\* Where downlinkPeerLru has m (at one place at most), and the list without it.
Tracked(m) == {i \in 1..Len(lru) : lru[i] = m}
Untracked(m) == IF Tracked(m) = {} THEN lru ELSE RemoveAt(lru, CHOOSE i \in Tracked(m) : TRUE)

\* registerDownlinkPeer: an enrolled peer or the master leaves the LRU.
RegisterOwned(m) ==
    /\ Owned(m)
    /\ lru' = Untracked(m)
    /\ espNow' = espNow \cup {m}
    /\ UNCHANGED <<registry, master, forwardingPeer, call, masters, overlaps>>

\* ... a tracked next hop moves to the front.
TouchTracked(m) ==
    /\ ~Owned(m)
    /\ Tracked(m) /= {}
    /\ lru' = <<m>> \o Untracked(m)
    /\ espNow' = espNow \cup {m}
    /\ UNCHANGED <<registry, master, forwardingPeer, call, masters, overlaps>>

TrackWithRoom(m) ==
    /\ ~Owned(m)
    /\ Tracked(m) = {}
    /\ Len(lru) < LruMax
    /\ lru' = <<m>> \o lru
    /\ espNow' = espNow \cup {m}
    /\ UNCHANGED <<registry, master, forwardingPeer, call, masters, overlaps>>

\* ... at capacity the oldest is deleted from the driver, whoever it is now.
TrackByEviction(m) ==
    /\ ~Owned(m)
    /\ Tracked(m) = {}
    /\ Len(lru) = LruMax
    /\ lru' = <<m>> \o Front(lru)
    /\ espNow' = (espNow \ {lru[LruMax]}) \cup {m}
    /\ UNCHANGED <<registry, master, forwardingPeer, call, masters, overlaps>>

\* The mesh task, on its way with a downlink frame.
RegisterDownlinkPeer(m) ==
    /\ ~Busy("mesh")
    /\ RegisterOwned(m) \/ TouchTracked(m) \/ TrackWithRoom(m) \/ TrackByEviction(m)

TableNext ==
    \/ TableRestart
    \/ MasterTimesOut
    \/ \E m \in Macs :
         \/ BeaconAccepted(m)
         \/ PeerEnrolled(m)
         \/ \E t \in Callers : FindNextHop(t, m)
         \/ RegisterDownlinkPeer(m)
    \/ \E t \in Callers : DropRelay(t) \/ AddRelay(t) \/ CopyHead(t) \/ CopyTail(t)

TableSpec == TableInit /\ [][TableNext]_tableVars

-----------------------------------------------------------------------------
(***************************************************************************)
(* Properties.                                                             *)
(***************************************************************************)

\* The addresses in the driver's table that are there for an uplink relay only.
Relays == espNow \ (registry \cup ToSet(lru) \cup masters)

\* However many neighbours come and go, the driver's table holds, besides the
\* enrolled peers, the LRU and the masters, one relay, and one more for each call
\* of findNextHopToMaster that overlapped another: only such calls leave anything
\* behind (UplinkRouter.cpp:39-59, DownlinkRouter.cpp:100-104).  The comment there,
\* "Bound the auto-registered forwarding peer to exactly one", is about calls that
\* do not overlap.
TableBounded == Cardinality(Relays) <= 1 + overlaps

\* What the declaration says of the LRU, "Enrolled peers (PeerRegistry) and the
\* current master are NEVER tracked or evicted here" (DownlinkRouter.h:101-102):
\* an enrolled peer keeps its place in the driver's table.
EnrolledKeepEntry == registry \subseteq espNow
=============================================================================
