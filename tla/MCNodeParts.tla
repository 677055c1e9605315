----------------------------- MODULE MCNodeParts -----------------------------
(***************************************************************************)
(* One TLC instance of the parts of a node that keep their state to        *)
(* themselves: outbound sequence numbers (TxSequence), replay cache        *)
(* (ReplayCache), message encoding (MessageCodec) and buttons              *)
(* (ButtonHandler).  They share nothing, so their interleavings show no    *)
(* more than each by itself: in a behaviour one of them moves.             *)
(*                                                                         *)
(* Sequence numbers wrap after two frames.  There is one origin more than  *)
(* the cache has slots, so that it fills and evicts.  The messages are     *)
(* those of each kind with the edges of their fields, and there are fields *)
(* of other versions in every wire type.  Holds take 5 units as in the     *)
(* code; with the code's window of 3 nothing ever wipes (WipeUnreachable), *)
(* and to ask what a wipe needs the window is 8, which covers a second     *)
(* hold.                                                                   *)
(***************************************************************************)
EXTENDS TxSequence, ReplayCache, MessageCodec, ButtonHandler

VARIABLE part   \* the part that moves

partVars == <<part, vars, cacheVars, codecVars, buttonVars>>

PartsInit ==
    /\ part \in {"sequence", "cache", "codec", "buttons"}
    /\ Init /\ CacheInit /\ CodecInit /\ ButtonInit
    /\ part = "buttons" \/ ~masterFlag

PartsNext ==
    /\ UNCHANGED part
    /\ \/ part = "sequence" /\ Next /\ UNCHANGED <<cacheVars, codecVars, buttonVars>>
       \/ part = "cache" /\ CacheNext /\ UNCHANGED <<vars, codecVars, buttonVars>>
       \/ part = "codec" /\ CodecNext /\ UNCHANGED <<vars, cacheVars, buttonVars>>
       \/ part = "buttons" /\ ButtonNext /\ UNCHANGED <<vars, cacheVars, codecVars>>

PartsSpec == PartsInit /\ [][PartsNext]_partVars

-----------------------------------------------------------------------------
MacOf(b) == [i \in 1..6 |-> b]
Top == 2^Width - 1

Msg(type, dataType, sender, lastHop, target, data, hop, epoch, seq, version, key, room) ==
    [type |-> type, dataType |-> dataType, origin |-> sender, lastHop |-> lastHop,
     target |-> target, data |-> data, hop |-> hop, epoch |-> epoch, seq |-> seq,
     version |-> version, key |-> key, room |-> room]

Counting == [i \in 1..64 |-> 4 * i - 1]
Key == [i \in 1..32 |-> 7 * i]
NoKey == Zeros(32)

MCMessages == {
    \* relayEnrollmentToServer: a request as the master passes it on
    Msg(ENROLLMENT, 0, MacOf(7), MacOf(0), MacOf(0), Zeros(64), 0, 0, 0, 5, Key, 128),
    \* adapter data from the mesh, every number as large as it gets
    Msg(0, 2^(Width - 1) - 1, MacOf(7), MacOf(255), MacOf(9), Counting, 255, Top, Top, 255, NoKey, 256),
    Msg(0, -(2^(Width - 1)), MacOf(0), MacOf(0), MacOf(0), Zeros(64), 0, 128, 127, 5, Key, 256),
    \* from the server
    Msg(JOIN_ACK, -1, MacOf(3), MacOf(4), MacOf(9), Counting, 1, 1, 16383, 5, Key, 256),
    Msg(SERIAL_CMD_BROADCAST, 1, MacOf(3), MacOf(4), MacOf(255), Counting, 0, 0, 0, 5, NoKey, 256)}

MCOwnMac == MacOf(1)

Other(tag, wire, value) == [tag |-> tag, wire |-> wire, value |-> value]

MCUnknown == {
    Other(15, STRING_, <<170, 0>>),        \* dropped in v0.6.0
    Other(16, STRING_, << >>),
    Other(17, STRING_, <<8, 8, 8>>),       \* authPath, no callback
    Other(17, VARINT, <<255, 1>>),
    Other(18, VARINT, <<128, 128, 1>>),
    Other(30, BIT32, <<1, 2, 3, 4>>),
    Other(1000, BIT64, <<1, 2, 3, 4, 5, 6, 7, 8>>)}
=============================================================================
