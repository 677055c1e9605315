----------------------------- MODULE MeshTasks -----------------------------
(***************************************************************************)
(* The tasks of a leaf node from the radio on: the receive callback and    *)
(* the draining mesh task (RecvPath), and MasterWatch, whose process() is  *)
(* what the mesh task does with a beacon it has taken out of the queue     *)
(* while the housekeeping task goes about relays and the timeout.          *)
(***************************************************************************)
EXTENDS RecvPath

CONSTANTS
    Masters, NoMac, Stale, MaxLag,   \* see MasterWatch
    Scenarios   \* boards and what they hear: [board, radio]

VARIABLES
    radio,    \* the beacon that each frame carries, NoBeacon for other frames
    pin, dual, known, secondary, mac, hasRoute, lastSeen, age, uptime, marked, relay,
    mesh, msg, hk, lag, copied, quiet, cleared, raced, owed

ASSUME MeshTasksConstants ==
    /\ Stale \in Nat \ {0}
    /\ MaxLag \in Nat
    /\ NoMac \notin Masters
    /\ \A s \in Scenarios :
         /\ s.board \in [pin : Masters \cup {NoMac}, dual : BOOLEAN,
                         known : Masters \cup {NoMac}, secondary : Masters \cup {NoMac}]
         /\ s.board.pin /= NoMac => s.board.known \in {NoMac, s.board.pin}
         /\ s.radio \in [FrameIds -> [origin : Masters \cup {NoMac}, num : Nat]]

W == INSTANCE MasterWatch

watchVars == <<pin, dual, known, secondary, mac, hasRoute, lastSeen, age, uptime, marked,
               relay, mesh, msg, hk, lag, copied, quiet, cleared, raced, owed>>
nodeVars == <<vars, radio, watchVars>>

NodeInit ==
    /\ Init
    /\ \E s \in Scenarios : W!Init(s.board) /\ radio = s.radio

\* Mesh::handleReceivedMessage of a beacon.  The pairs of one origin only grow
\* here: ReplayCache has dropped the others.
StartHandling ==
    /\ task = "handle"
    /\ radio[entry] /= W!NoBeacon
    /\ W!Judge(radio[entry])
    /\ UNCHANGED <<vars, radio>>

\* Any other frame leaves this state alone.
HandleOther == HandleEntry /\ radio[entry] = W!NoBeacon /\ UNCHANGED <<radio, watchVars>>

EndHandling == HandleEntry /\ W!Returns /\ UNCHANGED radio

Alone(A) == A /\ UNCHANGED <<radio, watchVars>>
Watch(A) == A /\ UNCHANGED <<vars, radio>>

MeshSteps ==
    \/ Alone(WaitReturns \/ TakeEntry \/ DrainEnds)
    \/ HandleOther
    \/ StartHandling
    \/ Watch(W!Process)
    \/ EndHandling

\* The housekeeping task is the last that boot creates.
HousekeepingSteps == handleSet /\ Watch(W!Housekeeping)

BootAndCallback == Alone(Notify \/ CreateTask \/ SetHandle)

NodeNext ==
    \/ Alone(Receive)
    \/ BootAndCallback
    \/ MeshSteps
    \/ HousekeepingSteps
    \/ Watch(W!Tick)

\* Beyond RecvPath's: both tasks run, time passes, and a jitter of at most
\* 73 ms does end, the relay's test being made again every 10 ms.
NodeSpec ==
    /\ NodeInit /\ [][NodeNext]_nodeVars
    /\ WF_nodeVars(BootAndCallback)
    /\ WF_nodeVars(MeshSteps)
    /\ WF_nodeVars(HousekeepingSteps)
    /\ SF_nodeVars(Watch(W!RelayDue))
    /\ WF_nodeVars(Watch(W!Tick))

-----------------------------------------------------------------------------
\* The types of both parts; recvQueue never holds more than its capacity.
NodeTypeOK == TypeOK /\ W!TypeOK

\* The properties of MasterWatch, stated there.
DroppedOnlyIfSilentOrRaced == W!DroppedOnlyIfSilentOrRaced
ReplacedOnlyAfterSilence == W!ReplacedOnlyAfterSilence
SecondaryTrusted == W!SecondaryTrusted
SilentMasterDropped == W!SilentMasterDropped
BeaconsRelayed == W!BeaconsRelayed
=============================================================================
