----------------------------- MODULE TxSequence -----------------------------
(***************************************************************************)
(* The outbound (epoch, seq) discipline of one node: the boot epoch kept   *)
(* in NVS, OutboundSequenceState (ReplayCache.h) and the draw / stamp /    *)
(* check / seal path every frame of MeshMessenger takes.                   *)
(*                                                                         *)
(* The pair (epoch, seq) is both the AEAD nonce prefix of a sealed payload *)
(* and what every receiver's ReplayCache compares, so a pair that is used  *)
(* twice, or used out of order, either breaks the encryption or loses the  *)
(* frame.  The model keeps every point at which the chip may reset and     *)
(* every load and store of the shared counters as a step of its own,       *)
(* because Mesh is shared by the mesh task and the housekeeping task       *)
(* without a lock (main.cpp).                                              *)
(***************************************************************************)
EXTENDS Integers

CONSTANTS
    Tasks,        \* the tasks that originate frames
    SeqMod,       \* 2^16 in the code: txSeqNum is a uint16_t
    EpochMax,     \* UINT32_MAX in the code: also the "no seal yet" sentinel
    DevMode,      \* config::DEV_MODE: epoch and key pair live in RAM only
    Echo,         \* own frames may come back and be relayed toward the master
    MaxIdentity   \* bound on the number of key pairs the node ever generates

ASSUME TxConstants ==
    /\ SeqMod \in Nat /\ SeqMod >= 2
    /\ EpochMax \in Nat /\ EpochMax >= 2
    /\ DevMode \in BOOLEAN
    /\ Echo \in BOOLEAN
    /\ MaxIdentity \in Nat

VARIABLES
    storedEpoch,  \* NVS key boot_epoch (devEpoch in DEV_MODE)
    identity,     \* which generation of the device key pair is in NVS
    up,           \* "down" | "saved" (epoch persisted, txState not yet set) | "up"
    bootEpoch, txSeqNum,
    lastSealed,   \* _lastSealedEpoch, _lastSealedSeq
    pc,           \* per task: where it is in the send path
    frame,        \* per task: the frame under construction
    air,          \* own sealed frames that may still be travelling
    used          \* history: pairs sealed or put on the air, with their identity

vars == <<storedEpoch, identity, up, bootEpoch, txSeqNum, lastSealed,
          pc, frame, air, used>>

Epochs == 0..EpochMax
Seqs == 0..(SeqMod - 1)

PCs == {"idle", "write", "wrap", "bump", "reread", "rewrite", "stamp",
        "check", "record", "use"}

Frames == [sealed: BOOLEAN, epoch: Epochs, seq: Seqs]
Pairs == [id: 0..MaxIdentity, epoch: Epochs, seq: Seqs]

NoFrame == [sealed |-> FALSE, epoch |-> 0, seq |-> 0]
NothingSealed == [epoch |-> EpochMax, seq |-> 0]

TypeOK ==
    /\ storedEpoch \in Epochs
    /\ identity \in 0..MaxIdentity
    /\ up \in {"down", "saved", "up"}
    /\ bootEpoch \in Epochs
    /\ txSeqNum \in Seqs
    /\ lastSealed \in [epoch: Epochs, seq: Seqs]
    /\ pc \in [Tasks -> PCs]
    /\ frame \in [Tasks -> Frames]
    /\ air \subseteq Pairs
    /\ used \subseteq Pairs

(***************************************************************************)
(* (e1, s1) comes strictly before (e2, s2): the order of isReplay,         *)
(* wasRelayedBefore and checkEpochRollback.                                *)
(***************************************************************************)
Before(e1, s1, e2, s2) == e1 < e2 \/ (e1 = e2 /\ s1 < s2)

NextSeq(s) == (s + 1) % SeqMod

-----------------------------------------------------------------------------
Init ==
    /\ storedEpoch = 0
    /\ identity = 0
    /\ up = "down"
    /\ bootEpoch = 0
    /\ txSeqNum = 0
    /\ lastSealed = NothingSealed
    /\ pc = [t \in Tasks |-> "idle"]
    /\ frame = [t \in Tasks |-> NoFrame]
    /\ air = {}
    /\ used = {}

\* RAM is lost; the statics come up zeroed, _lastSealedEpoch at its sentinel.
\* A frame lives for at most MAX_HOPS radio hops, far less than a boot takes,
\* so none of this node's frames is still travelling when it is back.
LoseRAM ==
    /\ up' = "down"
    /\ bootEpoch' = 0
    /\ txSeqNum' = 0
    /\ lastSealed' = NothingSealed
    /\ pc' = [t \in Tasks |-> "idle"]
    /\ frame' = [t \in Tasks |-> NoFrame]
    /\ air' = {}
    /\ UNCHANGED used

\* esp_restart, brown-out, watchdog, or persistOrEscalate's restart after a
\* failed NVS write.  In DEV_MODE nothing was persisted: the epoch starts over
\* and Enrollment::init generates a new key pair.
Restart ==
    /\ up /= "down"
    /\ LoseRAM
    /\ IF DevMode
       THEN /\ identity < MaxIdentity
            /\ storedEpoch' = 0
            /\ identity' = identity + 1
       ELSE UNCHANGED <<storedEpoch, identity>>

\* initDrivers erases the partition (or a factory reset clears the namespace):
\* the stored epoch and the key pair go together.
EraseNvs ==
    /\ up = "down"
    /\ identity < MaxIdentity
    /\ storedEpoch' = 0
    /\ identity' = identity + 1
    /\ UNCHANGED <<up, bootEpoch, txSeqNum, lastSealed, pc, frame, air, used>>

\* Mesh::init persists the incremented epoch first ...
BootSave ==
    /\ up = "down"
    /\ storedEpoch + 1 < EpochMax
    /\ storedEpoch' = storedEpoch + 1
    /\ up' = "saved"
    /\ UNCHANGED <<identity, bootEpoch, txSeqNum, lastSealed, pc, frame, air, used>>

\* ... and only then starts numbering frames under it (txState.init).
BootInit ==
    /\ up = "saved"
    /\ up' = "up"
    /\ bootEpoch' = storedEpoch
    /\ txSeqNum' = 0
    /\ UNCHANGED <<storedEpoch, identity, lastSealed, pc, frame, air, used>>

-----------------------------------------------------------------------------
(***************************************************************************)
(* nextSeqGuarded, one load or store of shared state per step.             *)
(***************************************************************************)

\* A call site of nextSeqGuarded begins; sealed says whether the frame will
\* be sealed (uplink data, route report, downlink) or sent in the clear
\* (beacon, enrollment request, JOIN_ACK, broadcast data).
ReadSeq(t, sealed) ==
    /\ up = "up"
    /\ pc[t] = "idle"
    /\ frame' = [frame EXCEPT ![t] =
                   [sealed |-> sealed, epoch |-> 0, seq |-> NextSeq(txSeqNum)]]
    /\ pc' = [pc EXCEPT ![t] = "write"]
    /\ UNCHANGED <<storedEpoch, identity, up, bootEpoch, txSeqNum, lastSealed, air, used>>

\* Fault: the wrap to zero goes unnoticed.
WriteSeqNoWrap(t) ==
    /\ pc[t] = "write"
    /\ txSeqNum' = frame[t].seq
    /\ pc' = [pc EXCEPT ![t] = "stamp"]
    /\ UNCHANGED <<storedEpoch, identity, up, bootEpoch, lastSealed, frame, air, used>>

WriteSeq(t) ==
    /\ pc[t] = "write"
    /\ txSeqNum' = frame[t].seq
    /\ pc' = [pc EXCEPT ![t] = IF frame[t].seq = 0 THEN "wrap" ELSE "stamp"]
    /\ UNCHANGED <<storedEpoch, identity, up, bootEpoch, lastSealed, frame, air, used>>

\* The wrap: persist the next epoch before anything is numbered under it.
WrapSave(t) ==
    /\ pc[t] = "wrap"
    /\ bootEpoch + 1 < EpochMax
    /\ storedEpoch' = bootEpoch + 1
    /\ frame' = [frame EXCEPT ![t].epoch = bootEpoch + 1]
    /\ pc' = [pc EXCEPT ![t] = "bump"]
    /\ UNCHANGED <<identity, up, bootEpoch, txSeqNum, lastSealed, air, used>>

\* Fault: persisted, but the RAM copy is left behind.
WrapBumpForgotten(t) ==
    /\ pc[t] = "bump"
    /\ pc' = [pc EXCEPT ![t] = "reread"]
    /\ UNCHANGED <<storedEpoch, identity, up, bootEpoch, txSeqNum, lastSealed, frame, air, used>>

WrapBump(t) ==
    /\ pc[t] = "bump"
    /\ bootEpoch' = frame[t].epoch
    /\ pc' = [pc EXCEPT ![t] = "reread"]
    /\ UNCHANGED <<storedEpoch, identity, up, txSeqNum, lastSealed, frame, air, used>>

RereadSeq(t) ==
    /\ pc[t] = "reread"
    /\ frame' = [frame EXCEPT ![t].seq = NextSeq(txSeqNum)]
    /\ pc' = [pc EXCEPT ![t] = "rewrite"]
    /\ UNCHANGED <<storedEpoch, identity, up, bootEpoch, txSeqNum, lastSealed, air, used>>

RewriteSeq(t) ==
    /\ pc[t] = "rewrite"
    /\ txSeqNum' = frame[t].seq
    /\ pc' = [pc EXCEPT ![t] = "stamp"]
    /\ UNCHANGED <<storedEpoch, identity, up, bootEpoch, lastSealed, frame, air, used>>

\* The caller stamps epoch_num from bootEpoch after the draw.
StampEpoch(t) ==
    /\ pc[t] = "stamp"
    /\ frame' = [frame EXCEPT ![t].epoch = bootEpoch]
    /\ pc' = [pc EXCEPT ![t] = IF frame[t].sealed THEN "check" ELSE "use"]
    /\ UNCHANGED <<storedEpoch, identity, up, bootEpoch, txSeqNum, lastSealed, air, used>>

-----------------------------------------------------------------------------
(***************************************************************************)
(* The seal-time guard and the seal.                                       *)
(***************************************************************************)

Advances(f) ==
    \/ lastSealed.epoch = EpochMax
    \/ Before(lastSealed.epoch, lastSealed.seq, f.epoch, f.seq)

\* checkEpochRollback: the comparison.  Failing it is err::fail(CRYPTO),
\* which restarts the node.
CheckEpochRollback(t) ==
    /\ pc[t] = "check"
    /\ IF Advances(frame[t])
       THEN /\ pc' = [pc EXCEPT ![t] = "record"]
            /\ UNCHANGED <<storedEpoch, identity, up, bootEpoch, txSeqNum,
                           lastSealed, frame, air, used>>
       ELSE Restart

\* checkEpochRollback: the assignments.
RecordSealed(t) ==
    /\ pc[t] = "record"
    /\ lastSealed' = [epoch |-> frame[t].epoch, seq |-> frame[t].seq]
    /\ pc' = [pc EXCEPT ![t] = "use"]
    /\ UNCHANGED <<storedEpoch, identity, up, bootEpoch, txSeqNum, frame, air, used>>

PairOf(t) == [id |-> identity, epoch |-> frame[t].epoch, seq |-> frame[t].seq]

\* The pair is consumed: sealPayload runs with it, or the clear frame goes out.
UsePair(t) ==
    /\ pc[t] = "use"
    /\ used' = used \cup {PairOf(t)}
    /\ air' = IF frame[t].sealed THEN air \cup {PairOf(t)} ELSE air
    /\ pc' = [pc EXCEPT ![t] = "idle"]
    /\ frame' = [frame EXCEPT ![t] = NoFrame]
    /\ UNCHANGED <<storedEpoch, identity, up, bootEpoch, txSeqNum, lastSealed>>

\* "E2E seal unavailable": the guard has recorded the pair, nothing is sealed.
SealUnavailable(t) ==
    /\ pc[t] = "use"
    /\ frame[t].sealed
    /\ pc' = [pc EXCEPT ![t] = "idle"]
    /\ frame' = [frame EXCEPT ![t] = NoFrame]
    /\ UNCHANGED <<storedEpoch, identity, up, bootEpoch, txSeqNum, lastSealed, air, used>>

\* A neighbour without a route floods this node's own uplink back to it.  The
\* node relays it toward the master, transmitCore sees its own origin address
\* and goes to the guard with the old pair (MeshMessenger.cpp:53-72).
RelayOwnEcho(t) ==
    /\ Echo
    /\ up = "up"
    /\ pc[t] = "idle"
    /\ \E p \in air :
         frame' = [frame EXCEPT ![t] =
                     [sealed |-> TRUE, epoch |-> p.epoch, seq |-> p.seq]]
    /\ pc' = [pc EXCEPT ![t] = "check"]
    /\ UNCHANGED <<storedEpoch, identity, up, bootEpoch, txSeqNum, lastSealed, air, used>>

TaskStep(t) ==
    \/ \E sealed \in BOOLEAN : ReadSeq(t, sealed)
    \/ WriteSeq(t)
    \/ WrapSave(t)
    \/ WrapBump(t)
    \/ RereadSeq(t)
    \/ RewriteSeq(t)
    \/ StampEpoch(t)
    \/ CheckEpochRollback(t)
    \/ RecordSealed(t)
    \/ UsePair(t)
    \/ SealUnavailable(t)
    \/ RelayOwnEcho(t)

Next ==
    \/ Restart
    \/ EraseNvs
    \/ BootSave
    \/ BootInit
    \/ \E t \in Tasks : TaskStep(t)

Spec == Init /\ [][Next]_vars

-----------------------------------------------------------------------------
(***************************************************************************)
(* Properties.                                                             *)
(***************************************************************************)

\* Every pair about to be consumed (the seal, or the send of a clear frame)
\* is strictly after every pair ever consumed under the same key pair: across
\* restarts at any point, across the 0xFFFF wrap, across erased NVS and
\* relayed echoes no nonce is reused and no receiver's high-water mark
\* (ReplayCache.h:49) has already passed the frame.
PairFresh ==
    \A t \in Tasks : pc[t] = "use" =>
        \A p \in used : p.id = identity =>
            Before(p.epoch, p.seq, frame[t].epoch, frame[t].seq)

\* The weaker half of PairFresh: no pair is ever consumed twice under one key
\* pair, which is what "the only place that guards against the 0xFFFF -> 0
\* wrap: a reused (epoch, seq) pair ... would reuse an AEAD nonce" promises.
PairNotReused ==
    \A t \in Tasks : pc[t] = "use" => PairOf(t) \notin used

\* The write-ahead rule that PairFresh rests on: no pair is consumed under an
\* epoch that a reset at this very moment could hand out again, because NVS
\* already holds it (ReplayCache.h:128-130, Mesh.cpp:67-70).
EpochWrittenAhead ==
    \A p \in used : p.id = identity => p.epoch <= storedEpoch

\* The seal-time guard (ReplayCache.h:144) is a tripwire that fires for nothing
\* but a copy of an own frame still travelling: a fresh draw always advances,
\* so the guard never restarts a node over a frame it has just drawn.
GuardNeverTrips ==
    \A t \in Tasks :
        pc[t] = "check" /\ PairOf(t) \notin air => Advances(frame[t])

-----------------------------------------------------------------------------
(***************************************************************************)
(* The inductive invariant, for a node on which one task originates        *)
(* frames.  Where the task stands in nextSeqGuarded decides how far the    *)
(* pairs consumed so far may reach.                                        *)
(***************************************************************************)
UsedUpTo(e, s) ==
    \A p \in used : p.id = identity => ~Before(e, s, p.epoch, p.seq)
UsedBefore(e, s) ==
    \A p \in used : p.id = identity => Before(p.epoch, p.seq, e, s)
UsedEpochsBelow(e) ==
    \A p \in used : p.id = identity => p.epoch < e

SealedUpTo(e, s) ==
    lastSealed.epoch = EpochMax \/ ~Before(e, s, lastSealed.epoch, lastSealed.seq)
SealedBefore(e, s) ==
    lastSealed.epoch = EpochMax \/ Before(lastSealed.epoch, lastSealed.seq, e, s)

\* Task t holds the pair it has just drawn, and nobody has consumed it.
Drawn(t) ==
    /\ frame[t].epoch = bootEpoch
    /\ frame[t].seq = txSeqNum
    /\ UsedBefore(bootEpoch, txSeqNum)

EpochsInv ==
    /\ storedEpoch < EpochMax
    /\ \A p \in used : p.id <= identity
    /\ up = "saved" => UsedEpochsBelow(storedEpoch)

\* While the node is not up, RAM holds nothing of an earlier boot.
DownInv ==
    up /= "up" => /\ \A t \in Tasks : pc[t] = "idle"
                  /\ lastSealed = NothingSealed
                  /\ air = {}

\* What is on the air has been sealed, and the guard remembers it.
AirInv ==
    \A p \in air : /\ p.id = identity
                   /\ lastSealed.epoch /= EpochMax
                   /\ ~Before(lastSealed.epoch, lastSealed.seq, p.epoch, p.seq)

DrawInv(t) ==
    /\ IF pc[t] = "bump"
       THEN storedEpoch = bootEpoch + 1 /\ frame[t].epoch = storedEpoch
       ELSE storedEpoch = bootEpoch
    /\ pc[t] \in {"idle", "write"} =>
         UsedUpTo(bootEpoch, txSeqNum) /\ SealedUpTo(bootEpoch, txSeqNum)
    /\ pc[t] = "write" => frame[t].seq = NextSeq(txSeqNum)
    /\ pc[t] \in {"wrap", "bump"} =>
         /\ txSeqNum = 0
         /\ UsedEpochsBelow(bootEpoch + 1)
         /\ lastSealed.epoch = EpochMax \/ lastSealed.epoch <= bootEpoch
    /\ pc[t] \in {"reread", "rewrite"} =>
         /\ txSeqNum = 0
         /\ UsedEpochsBelow(bootEpoch)
         /\ lastSealed.epoch = EpochMax \/ lastSealed.epoch < bootEpoch
    /\ pc[t] = "rewrite" => frame[t].seq = NextSeq(0)
    /\ pc[t] = "stamp" =>
         /\ frame[t].seq = txSeqNum
         /\ UsedBefore(bootEpoch, txSeqNum)
         /\ SealedBefore(bootEpoch, txSeqNum)
    /\ pc[t] = "check" =>
         /\ frame[t].sealed
         /\ \/ Drawn(t) /\ SealedBefore(bootEpoch, txSeqNum)
            \/ Echo /\ PairOf(t) \in air
    /\ pc[t] = "record" =>
         frame[t].sealed /\ Drawn(t) /\ SealedBefore(bootEpoch, txSeqNum)
    /\ pc[t] = "use" =>
         /\ Drawn(t)
         /\ SealedUpTo(bootEpoch, txSeqNum)
         /\ frame[t].sealed =>
              lastSealed = [epoch |-> frame[t].epoch, seq |-> frame[t].seq]

\* The pairs consumed so far, relative to the persisted epoch and to the place
\* of the drawing task in nextSeqGuarded / checkEpochRollback: inductive when
\* one task draws (ReplayCache.h:125-161).
SeqInv ==
    /\ TypeOK
    /\ EpochsInv
    /\ EpochWrittenAhead
    /\ DownInv
    /\ AirInv
    /\ up = "up" => \A t \in Tasks : DrawInv(t)
=============================================================================
