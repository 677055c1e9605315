------------------------------ MODULE NodeLife ------------------------------
(***************************************************************************)
(* A production node with a motion sensor from reset to reset: Boot, the   *)
(* store that boot reads and the mesh task writes (NodeStore), and the     *)
(* sensor that boot arms and the housekeeping task polls (PirAdapter).     *)
(* The order is that of initSubsystems: default peers, adapter, mesh.      *)
(***************************************************************************)
EXTENDS Boot, Sequences

CONSTANTS
    Cooldown,                                           \* see PirAdapter
    MaxPeers, Defaults, Macs, Keys, Zero, Junk,         \* see NodeStore
    JunkMac, BlankMac, NoRecord, MaxPairs

ASSUME NodeLifeConstants ==
    /\ Cooldown \in Nat /\ MaxPairs \in Nat /\ MaxPeers \in Nat
    /\ Defaults \in Seq(Macs) /\ Len(Defaults) \in 1..MaxPeers
    /\ {Zero, Junk} \cap Keys = {}
    /\ {JunkMac, BlankMac} \cap Macs = {}
    /\ NoRecord \notin [mac : Macs \cup {JunkMac, BlankMac}, key : Keys \cup {Zero, Junk}]

VARIABLES
    attached, enabled, motion, state, trigger, isr, loop, report,
    nvsPair, nvsPeers, pair, peers, step, slot, made, told,
    enrolled,   \* NVS enrolled flag, and Enrollment::_enrolled
    shown       \* history: key pairs with which the node has been in service

Pir == INSTANCE PirAdapter
Store == INSTANCE NodeStore

pirVars == <<attached, enabled, motion, state, trigger, isr, loop, report>>
storeVars == <<nvsPair, nvsPeers, pair, peers, step, slot, made, told>>
own == <<enrolled, shown>>
nodeVars == <<vars, pirVars, storeVars, own>>

NodeTypeOK == TypeOK /\ Pir!TypeOK /\ Store!TypeOK /\ enrolled \in BOOLEAN

NodeInit ==
    /\ Init /\ Pir!Init /\ Store!Init
    /\ enrolled = FALSE /\ shown = {}

LoseRam == Pir!LoseRam /\ Store!LoseRam /\ UNCHANGED own

\* A step of Boot; one that ends in a reset takes the RAM with it.
BootStep ==
    /\ BootOrReset
    /\ \/ phase' = "check" /\ LoseRam
       \/ phase' /= "check" /\ UNCHANGED <<pirVars, storeVars, own>>

\* A failed write of the store, or a handler that cannot be attached.
FailureRestarts ==
    /\ phase \in {"subsystems", "service"}
    /\ Store!Writing \/ (loop = "attach" /\ (phase = "service" \/ step = "load"))
    /\ RestartDevice
    /\ LoseRam

\* initDrivers, before the check.
EraseNvs ==
    /\ phase = "check"
    /\ Store!Erase
    /\ rebootCount' = 0
    /\ enrolled' = FALSE
    /\ shown' = {}
    /\ UNCHANGED <<reason, phase, history, pirVars>>

StoreStep(A) == A /\ UNCHANGED <<vars, pirVars, own>>
PirStep(A) == A /\ UNCHANGED <<vars, storeVars, own>>

\* initSubsystems: the adapter is armed between the default peers and the mesh.
Subsystems ==
    /\ phase = "subsystems"
    /\ \/ StoreStep(Store!HasPeers \/ Store!SaveDefault \/ Store!SaveKeypair)
       \/ step = "load" /\ PirStep(Pir!Arming)
       \/ loop = "top" /\ StoreStep(Store!LoadState)

\* The public key is printed for the server, and sent to the master.
GoesIntoService ==
    /\ SubsystemsUp
    /\ step = "ready"
    /\ shown' = shown \cup {pair}
    /\ UNCHANGED <<pirVars, storeVars, enrolled>>

Registration == phase = "service" /\ StoreStep(Store!Register \/ Store!SaveSlot)

\* A JOIN_ACK, the subject of Enrollment.
JoinAck ==
    /\ phase = "service"
    /\ ~enrolled
    /\ enrolled' = TRUE
    /\ UNCHANGED <<vars, pirVars, storeVars, shown>>

\* housekeeping_task_fn calls the adapter's loop once the node is enrolled.
AdapterLoop == phase = "service" /\ enrolled /\ PirStep(Pir!Polling \/ Pir!Arming)

SensorEdge == PirStep(Pir!Edge)
SensorHandler == PirStep(Pir!Handler)
Tick == phase = "service" /\ PirStep(Pir!Tick)

NodeNext ==
    \/ BootStep \/ FailureRestarts \/ EraseNvs
    \/ Subsystems \/ GoesIntoService
    \/ Registration \/ JoinAck
    \/ AdapterLoop \/ SensorEdge \/ SensorHandler \/ Tick

\* An interrupt handler runs to its end, the housekeeping task comes round
\* every 10 ms, and time passes.  Nothing else is assumed to go on: a node may
\* be reset, or stay stuck, as it likes.
NodeSpec ==
    /\ NodeInit /\ [][NodeNext]_nodeVars
    /\ WF_nodeVars(AdapterLoop)
    /\ WF_nodeVars(SensorHandler)
    /\ WF_nodeVars(Tick)

-----------------------------------------------------------------------------
\* The properties of PirAdapter and NodeStore, stated there.
ReportsSpaced == Pir!ReportsSpaced
RegisteredPeersKept == Store!RegisteredPeersKept

\* The node keeps the public key it has shown to the server until NVS is
\* erased, whatever write fails and wherever a reset comes: boot generates
\* another pair only if none was ever in use (Enrollment.cpp:40-48).  And what
\* it loads is one pair, wherever saveKeypair was cut short
\* (EepromIdentity.cpp:8-45), so that boards that were sent the public key can
\* talk to this one.
OneIdentity ==
    /\ \A k, l \in shown : k = l
    /\ \A k \in shown : k.priv = k.pub /\ k.priv /= 0

Polled == phase = "service" /\ enrolled

\* Motion the handler has signalled is reported, unless the node is reset.
MotionReported == (Polled /\ motion) ~> (~Polled \/ ~motion)

\* After every report the sensor is armed again, unless the node is reset
\* (PirAdapter.cpp:99-109).
SensorRearms == (Polled /\ state = "COOLDOWN") ~> (~Polled \/ (attached /\ enabled))
=============================================================================
