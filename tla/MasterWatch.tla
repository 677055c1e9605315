---------------------------- MODULE MasterWatch ----------------------------
(***************************************************************************)
(* Which master a node follows, and the relay of its beacons.  Two tasks   *)
(* work on this state without a lock, the housekeeping task on either core *)
(* of the chip: MasterBeacon::process in the mesh task, and in the         *)
(* housekeeping task the deferred relay of Mesh::loop followed by          *)
(* MasterBeacon::checkTimeout.  Each group of accesses that the other task *)
(* can see is a step.                                                      *)
(*                                                                         *)
(* Times are kept as distances from now, in units of which Stale make      *)
(* STALE_MASTER_THRESHOLD_MS, and stop at Stale + MaxLag + 1: the system    *)
(* has no last instant.  Distances to the master are reduced to known and  *)
(* 0xFF.  The node is a leaf.                                              *)
(***************************************************************************)
EXTENDS Integers

CONSTANTS
    Masters,   \* boards that send beacons
    NoMac,     \* the all-zero address
    Stale,     \* STALE_MASTER_THRESHOLD_MS
    MaxLag     \* bound on the time between checkTimeout's two loads

VARIABLES
    pin,        \* pin::MASTER_MAC, NoMac in a DEV_MODE build
    dual,       \* _dualMasterMode
    known,      \* Enrollment::knownMaster, NoMac if there is none
    secondary,  \* Enrollment::knownSecondaryMaster
    mac,        \* currentMaster.mac
    hasRoute,   \* currentMaster.distance /= 0xFF
    lastSeen,   \* lastSeenMasterMac
    age,        \* now - lastMasterBeaconReceivedMs
    uptime,     \* now
    marked,     \* lastRelayedEpoch and lastRelayedSeqNum, as one number
    relay,      \* relayPending and the two ends of relayPendingMsg
    mesh,       \* mesh task: "idle" | "seen" | "route" | "mark" | "write" | "flag" | "done"
    msg,        \* the beacon it processes: [origin, num]
    hk,         \* housekeeping task: the statement it is at
    lag,        \* time since checkTimeout read the clock
    copied,     \* the end of relayPendingMsg that has been copied out
    quiet,      \* history: time since a beacon was accepted, or since boot
    cleared,    \* history: checkTimeout gave up the master since then
    raced,      \* history: checkTimeout was at work when the last beacon was accepted
    owed        \* history: number of a beacon still to be relayed, 0 if none

vars == <<pin, dual, known, secondary, mac, hasRoute, lastSeen, age, uptime, marked,
          relay, mesh, msg, hk, lag, copied, quiet, cleared, raced, owed>>

build == <<pin, dual>>
chosen == <<known, secondary>>
master == <<mac, hasRoute, lastSeen>>
meshLocal == <<mesh, msg>>
hkLocal == <<hk, lag, copied>>

Hosts == Masters \cup {NoMac}
Durations == 0..(Stale + MaxLag + 1)
Older(d) == IF d > Stale + MaxLag THEN d ELSE d + 1

\* Without a message: before the first relay.
NoBeacon == [origin |-> NoMac, num |-> 0]

TypeOK ==
    /\ pin \in Hosts /\ dual \in BOOLEAN
    /\ known \in Hosts /\ secondary \in Hosts
    /\ mac \in Hosts /\ hasRoute \in BOOLEAN /\ lastSeen \in Hosts
    /\ age \in Durations /\ uptime \in Durations /\ quiet \in Durations
    /\ marked \in Nat /\ owed \in Nat
    /\ relay.pending \in BOOLEAN /\ relay.head.origin \in Hosts /\ relay.tail.origin \in Hosts
    /\ mesh \in {"idle", "seen", "route", "mark", "write", "flag", "done"}
    /\ hk \in {"loop", "claim", "copy", "send", "check", "compare", "mac", "distance", "time"}
    /\ lag \in 0..MaxLag
    /\ cleared \in BOOLEAN /\ raced \in BOOLEAN

\* A build's pin and mode, and the masters that Mesh::init loads from NVS.
Init(board) ==
    /\ pin = board.pin /\ dual = board.dual
    /\ known = board.known /\ secondary = board.secondary
    /\ mac = NoMac /\ hasRoute = FALSE /\ lastSeen = NoMac
    /\ age = 0 /\ uptime = 0 /\ quiet = 0
    /\ marked = 0
    /\ relay = [pending |-> FALSE, head |-> NoBeacon, tail |-> NoBeacon]
    /\ mesh = "idle" /\ msg = NoBeacon
    /\ hk = "loop" /\ lag = 0 /\ copied = NoBeacon
    /\ cleared = FALSE /\ raced = FALSE /\ owed = 0

-----------------------------------------------------------------------------
(***************************************************************************)
(* Mesh task: MasterBeacon::process.                                       *)
(***************************************************************************)

Ignore(b) ==
    /\ mesh' = "done"
    /\ msg' = b
    /\ UNCHANGED <<known, secondary>>

Adopt(b, primary, second) ==
    /\ mesh' = "seen"
    /\ msg' = b
    /\ known' = primary
    /\ secondary' = second

\* Fault: a master still heard from is replaced.
JudgeHotswap(b) ==
    /\ mesh = "idle"
    /\ \/ pin \notin {NoMac, b.origin} /\ Ignore(b)
       \/ pin \in {NoMac, b.origin} /\ Adopt(b, b.origin, secondary)
    /\ UNCHANGED <<build, master, age, uptime, marked, relay, hkLocal, quiet, cleared, raced, owed>>

\* The pin, then trust on first use: the first master, a second one in dual
\* mode, and another in place of masters that are all stale.
Judge(b) ==
    LET expected == b.origin = known \/ (dual /\ b.origin = secondary)
    IN  /\ mesh = "idle"
        /\ \/ pin \notin {NoMac, b.origin} /\ Ignore(b)
           \/ /\ pin \in {NoMac, b.origin}
              /\ \/ known = NoMac /\ Adopt(b, b.origin, secondary)
                 \/ known /= NoMac /\ expected /\ Adopt(b, known, secondary)
                 \/ /\ known /= NoMac /\ ~expected
                    /\ \/ dual /\ secondary = NoMac /\ Adopt(b, known, b.origin)
                       \/ (~dual \/ secondary /= NoMac) /\ age < Stale /\ Ignore(b)
                       \/ /\ ~dual \/ secondary /= NoMac
                          /\ age >= Stale
                          /\ Adopt(b, b.origin, secondary)
        /\ UNCHANGED <<build, master, age, uptime, marked, relay, hkLocal,
                       quiet, cleared, raced, owed>>

\* lastSeenMasterMac and lastMasterBeaconReceivedMs.  (Two masters without
\* dual mode are reported as an error, which changes nothing here.)
SetSeen ==
    /\ mesh = "seen"
    /\ lastSeen' = msg.origin
    /\ age' = 0
    /\ quiet' = 0
    /\ cleared' = FALSE
    /\ raced' = (hk \in {"compare", "mac", "distance", "time"})
    /\ mesh' = "route"
    /\ UNCHANGED <<build, chosen, mac, hasRoute, uptime, marked, relay, msg, hkLocal, owed>>

\* currentMaster: the sender of the beacon counts as a fresh neighbour.
SetRoute ==
    /\ mesh = "route"
    /\ mac' = msg.origin
    /\ hasRoute' = TRUE
    /\ mesh' = "mark"
    /\ UNCHANGED <<build, chosen, lastSeen, age, uptime, marked, relay, msg, hkLocal,
                   quiet, cleared, raced, owed>>

\* wasRelayedBefore and markRelayed: one pair for the beacons of all masters.
\* With the pin there is one master and no beacon may be passed over.
Mark ==
    /\ mesh = "mark"
    /\ IF msg.num <= marked THEN mesh' = "done" /\ UNCHANGED marked
                            ELSE mesh' = "write" /\ marked' = msg.num
    /\ owed' = IF pin = NoMac /\ msg.num <= marked THEN owed ELSE msg.num
    /\ UNCHANGED <<build, chosen, master, age, uptime, relay, msg, hkLocal, quiet, cleared, raced>>

\* relayPendingMsgOut = msg, from its first field ...
WriteHead ==
    /\ mesh = "write"
    /\ relay' = [relay EXCEPT !.head = msg]
    /\ mesh' = "flag"
    /\ UNCHANGED <<build, chosen, master, age, uptime, marked, msg, hkLocal,
                   quiet, cleared, raced, owed>>

\* ... to its last, then relayPendingOut.
WriteTailAndFlag ==
    /\ mesh = "flag"
    /\ relay' = [relay EXCEPT !.tail = msg, !.pending = TRUE]
    /\ mesh' = "done"
    /\ UNCHANGED <<build, chosen, master, age, uptime, marked, msg, hkLocal,
                   quiet, cleared, raced, owed>>

Returns ==
    /\ mesh = "done"
    /\ mesh' = "idle"
    /\ msg' = NoBeacon
    /\ UNCHANGED <<build, chosen, master, age, uptime, marked, relay, hkLocal,
                   quiet, cleared, raced, owed>>

Process == SetSeen \/ SetRoute \/ Mark \/ WriteHead \/ WriteTailAndFlag

-----------------------------------------------------------------------------
(***************************************************************************)
(* Housekeeping task: Mesh::loop.                                          *)
(***************************************************************************)

At(s, t) == hk = s /\ hk' = t

\* if (relayPending && now >= relayPendingAt): not pending, or the jitter is
\* not over.
RelayNotDue ==
    /\ At("loop", "check")
    /\ UNCHANGED <<build, chosen, master, age, uptime, marked, relay, meshLocal, lag, copied,
                   quiet, cleared, raced, owed>>

RelayDue ==
    /\ relay.pending
    /\ At("loop", "claim")
    /\ UNCHANGED <<build, chosen, master, age, uptime, marked, relay, meshLocal, lag, copied,
                   quiet, cleared, raced, owed>>

\* relayPending = false.
ClaimRelay ==
    /\ At("claim", "copy")
    /\ relay' = [relay EXCEPT !.pending = FALSE]
    /\ UNCHANGED <<build, chosen, master, age, uptime, marked, meshLocal, lag, copied,
                   quiet, cleared, raced, owed>>

\* esp_now_send copies relayPendingMsg while the mesh task may write it.
CopyHead ==
    /\ At("copy", "send")
    /\ copied' = relay.head
    /\ UNCHANGED <<build, chosen, master, age, uptime, marked, relay, meshLocal, lag,
                   quiet, cleared, raced, owed>>

\* Fault: the flag is cleared when the frame is out.
SendRelayAndClear ==
    /\ At("send", "check")
    /\ relay' = [relay EXCEPT !.pending = FALSE]
    /\ owed' = IF copied = relay.tail /\ copied.num >= owed THEN 0 ELSE owed
    /\ copied' = NoBeacon
    /\ UNCHANGED <<build, chosen, master, age, uptime, marked, meshLocal, lag,
                   quiet, cleared, raced>>

\* What goes out is a beacon if both ends are from the same one.
SendRelay ==
    /\ At("send", "check")
    /\ owed' = IF copied = relay.tail /\ copied.num >= owed THEN 0 ELSE owed
    /\ copied' = NoBeacon
    /\ UNCHANGED <<build, chosen, master, age, uptime, marked, relay, meshLocal, lag,
                   quiet, cleared, raced>>

-----------------------------------------------------------------------------
(***************************************************************************)
(* Housekeeping task: MasterBeacon::checkTimeout.                          *)
(***************************************************************************)

NoMasterKnown ==
    /\ ~hasRoute
    /\ At("check", "loop")
    /\ UNCHANGED <<build, chosen, master, age, uptime, marked, relay, meshLocal, lag, copied,
                   quiet, cleared, raced, owed>>

ReadClock ==
    /\ hasRoute
    /\ At("check", "compare")
    /\ lag' = 0
    /\ UNCHANGED <<build, chosen, master, age, uptime, marked, relay, meshLocal, copied,
                   quiet, cleared, raced, owed>>

\* Fault: the threshold itself counts as over.
TimedOutEarly == age < lag \/ age - lag >= Stale

\* Fault: the difference is compared with twice the threshold.
TimedOutTwice == age < lag \/ age - lag > 2 * (Stale + MaxLag)

\* The clock as read minus lastMasterBeaconReceivedMs as it is now, unsigned:
\* a beacon later than the clock reading gives a huge number.
TimedOut == age < lag \/ age - lag > Stale

Compare ==
    /\ At("compare", IF TimedOut THEN "mac" ELSE "loop")
    /\ lag' = 0
    /\ UNCHANGED <<build, chosen, master, age, uptime, marked, relay, meshLocal, copied,
                   quiet, cleared, raced, owed>>

ClearMac ==
    /\ At("mac", "distance")
    /\ mac' = NoMac
    /\ UNCHANGED <<build, chosen, hasRoute, lastSeen, age, uptime, marked, relay, meshLocal,
                   lag, copied, quiet, cleared, raced, owed>>

ClearDistance ==
    /\ At("distance", "time")
    /\ hasRoute' = FALSE
    /\ lastSeen' = NoMac
    /\ cleared' = TRUE
    /\ UNCHANGED <<build, chosen, mac, age, uptime, marked, relay, meshLocal,
                   lag, copied, quiet, raced, owed>>

\* lastMasterBeaconReceivedMs = 0: as if it had come when the node booted.
ClearTime ==
    /\ At("time", "loop")
    /\ age' = uptime
    /\ cleared' = TRUE
    /\ UNCHANGED <<build, chosen, master, uptime, marked, relay, meshLocal, lag, copied,
                   quiet, raced, owed>>

Housekeeping ==
    \/ RelayNotDue \/ RelayDue \/ ClaimRelay \/ CopyHead \/ SendRelay
    \/ NoMasterKnown \/ ReadClock \/ Compare
    \/ ClearMac \/ ClearDistance \/ ClearTime

Tick ==
    /\ hk = "compare" => lag < MaxLag
    /\ lag' = IF hk = "compare" THEN lag + 1 ELSE lag
    /\ age' = Older(age)
    /\ uptime' = Older(uptime)
    /\ quiet' = IF quiet > Stale THEN quiet ELSE quiet + 1
    /\ UNCHANGED <<build, chosen, master, marked, relay, meshLocal, hk, copied,
                   cleared, raced, owed>>

-----------------------------------------------------------------------------
(***************************************************************************)
(* Properties.                                                             *)
(***************************************************************************)

\* A master is given up only after the threshold, or when its last beacon came
\* while checkTimeout was at work (MasterBeacon.cpp:41-48): then a live one is
\* lost until its next beacon.
DroppedOnlyIfSilentOrRaced ==
    [][hasRoute /\ ~hasRoute' => quiet > Stale \/ raced]_vars

\* Another board takes the primary's place only after silence, or once
\* checkTimeout has given the master up (MasterBeacon.cpp:95-113).
ReplacedOnlyAfterSilence ==
    [][known /= NoMac /\ known' /= known => quiet >= Stale \/ cleared]_vars

\* What the design of the pin says of dual mode, docs/superpowers/specs/
\* 2026-08-04-phaseD-master-pubkey-pinning-design.md:122: "once the node has
\* learned the secondary from the primary's JOIN_ACK, the secondary is trusted
\* by that path".  A beacon of the secondary a node in dual mode knows gets past
\* the checks of process().  (MasterBeacon.cpp:70-77 compares with the pin,
\* which is the primary's, before the secondary is looked at.)
SecondaryTrusted ==
    [][mesh = "idle" /\ mesh' /= "idle" /\ dual /\ secondary /= NoMac
        => (msg'.origin = secondary => mesh' = "seen")]_vars

\* A master that has gone silent is given up.
SilentMasterDropped == (quiet > Stale /\ hasRoute) ~> (~hasRoute \/ quiet <= Stale)

\* The hand-over of a relay from task to task loses no beacon: every beacon
\* that is to be relayed goes out in one piece, or a newer one does, whatever
\* torn or doubled frames go before it (MasterBeacon.cpp:166-172,
\* Mesh.cpp:442-445).
BeaconsRelayed == owed /= 0 ~> owed = 0
=============================================================================
