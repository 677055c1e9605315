----------------------------- MODULE ReplayCache -----------------------------
(***************************************************************************)
(* ReplayCache (ReplayCache.h) as the receive path of a node uses it       *)
(* (Mesh::handleReceivedMessage), among origins that number their frames   *)
(* as TxSequence proves they do, over a radio that delivers any frame      *)
(* late, repeatedly, out of order or never.                                *)
(*                                                                         *)
(* isReplay runs on the mesh task only, so one frame is one step.          *)
(***************************************************************************)
EXTENDS Integers, FiniteSets

CONSTANTS
    Origins,      \* nodes whose frames this node hears
    Slots,        \* LATTICE_REPLAY_MAX_ORIGINS, 12 in the code
    MaxEpoch,     \* bound on the boot epochs of an origin
    MaxSeq,       \* bound on the frames of one epoch
    MaxClock,     \* bound on the receiver's clock
    NoMac         \* the all-zero address of an unused slot

ASSUME ReplayConstants ==
    /\ Slots \in Nat \ {0}
    /\ MaxEpoch \in Nat \ {0}
    /\ MaxSeq \in Nat \ {0}
    /\ MaxClock \in Nat
    /\ NoMac \notin Origins
    /\ IsFiniteSet(Origins)

VARIABLES
    cache,        \* Entry cache[LATTICE_REPLAY_MAX_ORIGINS]
    clock,        \* esp_timer_get_time() / 1000
    origin,       \* environment: each origin's current epoch and last seq
    sent,         \* environment: every frame ever put on the air
    accepted,     \* history: frames that passed, while their origin is remembered
    heardAt       \* history: when a frame of each origin last passed

cacheVars == <<cache, clock, origin, sent, accepted, heardAt>>

SlotIds == 1..Slots
ClockTimes == 0..MaxClock
Unheard == -1

OriginFrames == [mac: Origins, epoch: 0..MaxEpoch, seq: 0..MaxSeq]
Entries == [used: BOOLEAN, mac: Origins \cup {NoMac}, epoch: 0..MaxEpoch,
            seq: 0..MaxSeq, lastSeenMs: ClockTimes]

Unused == [used |-> FALSE, mac |-> NoMac, epoch |-> 0, seq |-> 0, lastSeenMs |-> 0]

CacheTypeOK ==
    /\ cache \in [SlotIds -> Entries]
    /\ clock \in ClockTimes
    /\ origin \in [Origins -> [epoch: 0..MaxEpoch, seq: 0..MaxSeq]]
    /\ sent \subseteq OriginFrames
    /\ accepted \subseteq OriginFrames
    /\ heardAt \in [Origins -> ClockTimes \cup {Unheard}]

-----------------------------------------------------------------------------
(***************************************************************************)
(* isReplay                                                                *)
(***************************************************************************)

\* Fault: tells duplicates apart but not old from new.
Different(f, e) == f.epoch /= e.epoch \/ f.seq /= e.seq

\* Fault: forgets that a reboot starts the sequence over.
NewerSeqOnly(f, e) == f.seq > e.seq

Newer(f, e) == f.epoch > e.epoch \/ (f.epoch = e.epoch /\ f.seq > e.seq)

\* mac_table::find plus the check of the used flag.  Real addresses are never
\* the all-zero one of an unused slot.
Found(i, mac) == cache[i].used /\ cache[i].mac = mac
Known(mac) == \E i \in SlotIds : Found(i, mac)

FirstUnused(i) == ~cache[i].used /\ \A j \in SlotIds : j < i => cache[j].used

\* mac_table::evict_oldest_by_ts: smallest timestamp, lowest index on a tie.
Oldest(i) ==
    /\ \A j \in SlotIds : cache[j].used
    /\ \A j \in SlotIds :
         \/ cache[i].lastSeenMs < cache[j].lastSeenMs
         \/ cache[i].lastSeenMs = cache[j].lastSeenMs /\ i <= j

EntryFor(f) ==
    [used |-> TRUE, mac |-> f.mac, epoch |-> f.epoch, seq |-> f.seq, lastSeenMs |-> clock]

\* Frame f passes and takes slot i, from another origin if need be.
Accept(i, f) ==
    /\ cache' = [cache EXCEPT ![i] = EntryFor(f)]
    /\ accepted' = {g \in accepted : g.mac = f.mac \/ g.mac /= cache[i].mac} \cup {f}
    /\ heardAt' = [heardAt EXCEPT ![f.mac] = clock]
    /\ UNCHANGED <<clock, origin, sent>>

\* Fault: the slot's age is that of the origin's first frame.
AcceptKnownNoTouch(f) ==
    /\ \E i \in SlotIds :
         /\ Found(i, f.mac) /\ Newer(f, cache[i])
         /\ cache' = [cache EXCEPT ![i].epoch = f.epoch, ![i].seq = f.seq]
    /\ accepted' = accepted \cup {f}
    /\ heardAt' = [heardAt EXCEPT ![f.mac] = clock]
    /\ UNCHANGED <<clock, origin, sent>>

AcceptKnown(f) ==
    \E i \in SlotIds : Found(i, f.mac) /\ Newer(f, cache[i]) /\ Accept(i, f)

AcceptInFreeSlot(f) ==
    /\ ~Known(f.mac)
    /\ \E i \in SlotIds : FirstUnused(i) /\ Accept(i, f)

AcceptByEviction(f) ==
    /\ ~Known(f.mac)
    /\ \E i \in SlotIds : Oldest(i) /\ Accept(i, f)

\* Fault: the mark is written before the frame is rejected.
DropReplayMovesMark(f) ==
    /\ \E i \in SlotIds :
         Found(i, f.mac) /\ ~Newer(f, cache[i]) /\ cache' = [cache EXCEPT ![i] = EntryFor(f)]
    /\ UNCHANGED <<clock, origin, sent, accepted, heardAt>>

\* "Replayed message dropped": nothing changes, the slot's age included.
DropReplay(f) ==
    /\ \E i \in SlotIds : Found(i, f.mac) /\ ~Newer(f, cache[i])
    /\ UNCHANGED cacheVars

Receive(f) ==
    \/ AcceptKnown(f)
    \/ AcceptInFreeSlot(f)
    \/ AcceptByEviction(f)
    \/ DropReplay(f)

\* Mesh::init: replay.init() on every boot of this node.
Reboot ==
    /\ cache' = [i \in SlotIds |-> Unused]
    /\ clock' = 0
    /\ accepted' = {}
    /\ heardAt' = [o \in Origins |-> Unheard]
    /\ UNCHANGED <<origin, sent>>

-----------------------------------------------------------------------------
(***************************************************************************)
(* The other nodes and the passing of time.                                *)
(***************************************************************************)

\* A draw of nextSeqGuarded, at once on the air.
OriginSends(o) ==
    /\ origin[o].epoch > 0
    /\ origin[o].seq < MaxSeq
    /\ origin' = [origin EXCEPT ![o].seq = @ + 1]
    /\ sent' = sent \cup {[mac |-> o, epoch |-> origin[o].epoch,
                           seq |-> origin[o].seq + 1]}
    /\ UNCHANGED <<cache, clock, accepted, heardAt>>

OriginBoots(o) ==
    /\ origin[o].epoch < MaxEpoch
    /\ origin' = [origin EXCEPT ![o] = [epoch |-> origin[o].epoch + 1, seq |-> 0]]
    /\ UNCHANGED <<cache, clock, sent, accepted, heardAt>>

ClockTicks ==
    /\ clock < MaxClock
    /\ clock' = clock + 1
    /\ UNCHANGED <<cache, origin, sent, accepted, heardAt>>

CacheInit ==
    /\ cache = [i \in SlotIds |-> Unused]
    /\ clock = 0
    /\ origin = [o \in Origins |-> [epoch |-> 0, seq |-> 0]]
    /\ sent = {}
    /\ accepted = {}
    /\ heardAt = [o \in Origins |-> Unheard]

CacheNext ==
    \/ \E f \in sent : Receive(f)
    \/ Reboot
    \/ \E o \in Origins : OriginSends(o) \/ OriginBoots(o)
    \/ ClockTicks

CacheSpec == CacheInit /\ [][CacheNext]_cacheVars

-----------------------------------------------------------------------------
(***************************************************************************)
(* Properties.                                                             *)
(***************************************************************************)

\* The marks a ReplayFilter would keep.
Marks == {[mac |-> cache[i].mac, epoch |-> cache[i].epoch, seq |-> cache[i].seq] :
            i \in {j \in SlotIds : cache[j].used}}

Filter == INSTANCE ReplayFilter WITH
            marks <- Marks, Epochs <- 0..MaxEpoch, Seqs <- 0..MaxSeq

\* No origin occupies two slots, so "the" mark of an origin makes sense: the
\* linear scan of mac_table::find would only ever see the first.
OneSlotPerOrigin ==
    \A i, j \in SlotIds :
        cache[i].used /\ cache[j].used /\ cache[i].mac = cache[j].mac => i = j

\* The slot table with its LRU eviction is a ReplayFilter: one mark per
\* origin, moved only forward, lost only to a restart or to a new origin that
\* finds the table full (ReplayCache.h:42-79).
ImplementsFilter == Filter!Spec

\* The newest frame an origin has sent is never taken for a replay, whatever
\* of its older frames arrived late, twice or never and however often the
\* origin rebooted: a frame is lost only to the radio or to a newer one.
NewestNeverDropped ==
    \A f \in sent \ accepted :
        /\ f.epoch = origin[f.mac].epoch
        /\ f.seq = origin[f.mac].seq
        => \A i \in SlotIds : Found(i, f.mac) => Newer(f, cache[i])

\* An origin this node has heard is forgotten only while at least Slots other
\* origins were heard no earlier than it: re-delivery of an old frame needs
\* that many origins in between ("Size the knob to expected origins",
\* ReplayCache.h:37-41).
ForgottenOnlyByLRU ==
    \A o \in Origins :
        heardAt[o] /= Unheard /\ ~Known(o) =>
            Cardinality({x \in Origins \ {o} : heardAt[x] >= heardAt[o]}) >= Slots

\* While its origin stays in the table no frame ever passes twice: what passed
\* is never after the mark kept for its origin (ReplayCache.h:35-36).
AtMostOnce ==
    \A f \in accepted :
        \E i \in SlotIds : Found(i, f.mac) /\ ~Newer(f, cache[i])
=============================================================================
