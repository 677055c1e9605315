----------------------------- MODULE NodeStore -----------------------------
(***************************************************************************)
(* What a production node keeps in NVS about itself and its peers, and     *)
(* what boot makes of it: the default peers of an empty store, the peer    *)
(* registry, the device key pair (EepromPeers.cpp, EepromIdentity.cpp,     *)
(* PeerRegistry.cpp, Enrollment::init, registerPeerWithKey).  Every NVS    *)
(* write is a step, and the node may be reset between two of them.         *)
(*                                                                         *)
(* A write is committed whole or not at all and stored values read back;   *)
(* two different key pairs have different check sums.                      *)
(***************************************************************************)
EXTENDS Integers, Sequences, FiniteSets

CONSTANTS
    MaxPeers,   \* MAX_PEERS, 10 in the code
    Defaults,   \* DEFAULT_PEERS, a sequence of addresses
    Macs,       \* boards that enrol
    Keys,       \* their public keys
    Zero, Junk, \* no key, and bytes that are nobody's key
    JunkMac,    \* bytes that are nobody's address
    BlankMac,   \* the address FF:FF:FF:FF:FF:FF
    NoRecord,   \* an NVS key that is not set
    MaxPairs    \* bound on the key pairs the node generates

VARIABLES
    nvsPair,    \* NVS: [priv, pub, crc]; a pair is a number, 0 is not set
    nvsPeers,   \* NVS: peer0, peer1, ...
    pair,       \* devicePrivateKey, devicePublicKey
    peers,      \* PeerRegistry: peerMacs[0..peerCount)
    step,       \* what boot, or a registration, does next
    slot,       \* the record it writes next
    made,       \* key pairs generated
    told        \* history: boards that registerPeerWithKey has reported as registered

vars == <<nvsPair, nvsPeers, pair, peers, step, slot, made, told>>

Slots == 1..MaxPeers
Records == [mac : Macs \cup {JunkMac, BlankMac}, key : Keys \cup {Zero, Junk}]
NoPair == [priv |-> 0, pub |-> 0]
NoCrc == <<0, 0>>
Blank == [priv |-> 0, pub |-> 0, crc |-> NoCrc]

TypeOK ==
    /\ nvsPair \in [priv : 0..MaxPairs, pub : 0..MaxPairs, crc : (0..MaxPairs) \X (0..MaxPairs)]
    /\ nvsPeers \in [Slots -> Records \cup {NoRecord}]
    /\ pair \in [priv : 0..MaxPairs, pub : 0..MaxPairs]
    /\ peers \in Seq(Records) /\ Len(peers) <= MaxPeers
    /\ step \in {"start", "defaults", "load", "priv", "pub", "crc", "ready", "save"}
    /\ slot \in Slots
    /\ made \in 0..MaxPairs
    /\ told \subseteq Macs

Init ==
    /\ nvsPair = Blank
    /\ nvsPeers = [s \in Slots |-> NoRecord]
    /\ pair = NoPair
    /\ peers = << >>
    /\ step = "start" /\ slot = 1
    /\ made = 0
    /\ told = {}

LoseRam ==
    /\ pair' = NoPair
    /\ peers' = << >>
    /\ step' = "start" /\ slot' = 1
    /\ UNCHANGED <<nvsPair, nvsPeers, made, told>>

\* nvs_flash_erase, on a partition that does not fit the firmware.
Erase ==
    /\ nvsPair' = Blank
    /\ nvsPeers' = [s \in Slots |-> NoRecord]
    /\ told' = {}
    /\ UNCHANGED <<pair, peers, step, slot, made>>

-----------------------------------------------------------------------------
(***************************************************************************)
(* Boot.                                                                   *)
(***************************************************************************)

HasPeers ==
    /\ step = "start"
    /\ step' = IF \E s \in Slots : nvsPeers[s] /= NoRecord THEN "load" ELSE "defaults"
    /\ UNCHANGED <<nvsPair, nvsPeers, pair, peers, slot, made, told>>

\* savePeerList takes records of address and key; initSubsystems hands it a
\* list of addresses alone.  The first record gets the first address, with
\* the next one and what follows the list as its key; the others are read
\* from beyond the list.
DefaultRecords(s) ==
    IF s = 1
    THEN [mac : {Defaults[1]}, key : IF Len(Defaults) > 1 THEN {Junk} ELSE {Zero, Junk}]
    ELSE [mac : {JunkMac, BlankMac}, key : {Zero, Junk}]

SaveDefault ==
    /\ step = "defaults"
    /\ \E r \in DefaultRecords(slot) : nvsPeers' = [nvsPeers EXCEPT ![slot] = r]
    /\ IF slot < Len(Defaults) THEN slot' = slot + 1 /\ UNCHANGED step
                               ELSE slot' = 1 /\ step' = "load"
    /\ UNCHANGED <<nvsPair, pair, peers, made, told>>

\* The slots with a record that loadPeerRecord finds and that is not blank, and
\* a slot's place among them.
Occupied == {s \in Slots : nvsPeers[s] /= NoRecord /\ nvsPeers[s].mac /= BlankMac}
Place(s) == Cardinality({t \in Occupied : t <= s})

\* PeerRegistry::loadFromEEPROM: those records, appended in the order of their
\* slots, or the addresses from the configuration if there is none.
LoadFromEEPROM ==
    IF Occupied /= {}
    THEN [i \in 1..Cardinality(Occupied) |-> nvsPeers[CHOOSE s \in Occupied : Place(s) = i]]
    ELSE [i \in 1..Len(Defaults) |-> [mac |-> Defaults[i], key |-> Zero]]

\* loadKeypair: all there, and the check sum is that of these two.
LoadKeypair ==
    /\ nvsPair.priv /= 0 /\ nvsPair.pub /= 0
    /\ nvsPair.crc /= NoCrc
    /\ nvsPair.crc = <<nvsPair.priv, nvsPair.pub>>

\* Mesh::loadPersistentState, up to the first write of a new key pair.
LoadState ==
    /\ step = "load"
    /\ peers' = LoadFromEEPROM
    /\ \/ /\ LoadKeypair
          /\ pair' = [priv |-> nvsPair.priv, pub |-> nvsPair.pub]
          /\ step' = "ready"
          /\ UNCHANGED made
       \/ /\ ~LoadKeypair
          /\ made < MaxPairs
          /\ made' = made + 1
          /\ pair' = [priv |-> made', pub |-> made']
          /\ step' = "priv"
    /\ UNCHANGED <<nvsPair, nvsPeers, slot, told>>

\* saveKeypair: three writes.
SavePriv ==
    /\ step = "priv"
    /\ nvsPair' = [nvsPair EXCEPT !.priv = pair.priv]
    /\ step' = "pub"
    /\ UNCHANGED <<nvsPeers, pair, peers, slot, made, told>>

\* Fault: the check sum is not written.
SavePubLast ==
    /\ step = "pub"
    /\ nvsPair' = [nvsPair EXCEPT !.pub = pair.pub]
    /\ step' = "ready"
    /\ UNCHANGED <<nvsPeers, pair, peers, slot, made, told>>

SavePub ==
    /\ step = "pub"
    /\ nvsPair' = [nvsPair EXCEPT !.pub = pair.pub]
    /\ step' = "crc"
    /\ UNCHANGED <<nvsPeers, pair, peers, slot, made, told>>

SaveCrc ==
    /\ step = "crc"
    /\ nvsPair' = [nvsPair EXCEPT !.crc = <<pair.priv, pair.pub>>]
    /\ step' = "ready"
    /\ UNCHANGED <<nvsPeers, pair, peers, slot, made, told>>

SaveKeypair == SavePriv \/ SavePub \/ SaveCrc

-----------------------------------------------------------------------------
(***************************************************************************)
(* registerPeerWithKey and saveToEEPROM.                                   *)
(***************************************************************************)

At(m) == {i \in 1..Len(peers) : peers[i].mac = m}

\* An established key is kept unless the hub asked (allowRekey).
KeepKey(m, rekey) ==
    /\ step = "ready"
    /\ ~rekey
    /\ \E i \in At(m) : peers[i].key /= Zero
    /\ told' = told \cup {m}
    /\ UNCHANGED <<nvsPair, nvsPeers, pair, peers, step, slot, made>>

SetKey(m, k, rekey) ==
    /\ step = "ready"
    /\ \E i \in At(m) :
         /\ rekey \/ peers[i].key = Zero
         /\ peers' = [peers EXCEPT ![i].key = k]
    /\ step' = "save" /\ slot' = 1
    /\ UNCHANGED <<nvsPair, nvsPeers, pair, made, told>>

\* (A full table turns the peer away.)
AddPeer(m, k) ==
    /\ step = "ready"
    /\ At(m) = {}
    /\ Len(peers) < MaxPeers
    /\ peers' = Append(peers, [mac |-> m, key |-> k])
    /\ step' = "save" /\ slot' = 1
    /\ UNCHANGED <<nvsPair, nvsPeers, pair, made, told>>

Register == \E m \in Macs, k \in Keys, rekey \in BOOLEAN :
    KeepKey(m, rekey) \/ SetKey(m, k, rekey) \/ AddPeer(m, k)

RecordAt(s) == IF s <= Len(peers) THEN peers[s] ELSE NoRecord

Keyed == {m \in Macs : \E i \in At(m) : peers[i].key \in Keys}

NextSlot ==
    IF slot < MaxPeers THEN slot' = slot + 1 /\ UNCHANGED <<step, told>>
                       ELSE slot' = 1 /\ step' = "ready" /\ told' = told \cup Keyed

\* Fault: the old records are cleared first.
SaveSlotAfterClear ==
    /\ step = "save"
    /\ nvsPeers' = [s \in Slots |-> IF s = slot THEN RecordAt(s)
                                    ELSE IF slot = 1 THEN NoRecord ELSE nvsPeers[s]]
    /\ NextSlot
    /\ UNCHANGED <<nvsPair, pair, peers, made>>

\* One savePeerRecord or erasePeerRecord.
SaveSlot ==
    /\ step = "save"
    /\ nvsPeers' = [nvsPeers EXCEPT ![slot] = RecordAt(slot)]
    /\ NextSlot
    /\ UNCHANGED <<nvsPair, pair, peers, made>>

\* A write that persistOrEscalate answers with a restart if it fails.
Writing ==
    \/ step \in {"defaults", "priv", "pub", "crc"}
    \/ step = "save" /\ slot <= Len(peers)

-----------------------------------------------------------------------------
\* A board that was reported as registered is still there after any reset,
\* with an enrolled key.  The exception is the first default peer:
\* the bytes that boot stored as its key count as an established key
\* (main.cpp:433-436, PeerEnrollment.cpp:25-37).
RegisteredPeersKept ==
    step \in {"priv", "pub", "crc", "ready", "save"} =>
        \A m \in told : \E i \in At(m) : peers[i].key \in Keys \/ m = Defaults[1]
=============================================================================
