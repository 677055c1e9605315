---------------------------- MODULE MessageCodec ----------------------------
(***************************************************************************)
(* A message on its way through SerialFraming::encode, the serial line and *)
(* SerialFraming::decode.  pb_encode and pb_decode go through the fields   *)
(* one at a time, one action each.  In between the line may lose a byte or *)
(* the end of the frame, and the other side may be of another version:     *)
(* protocol v0.6.0 dropped fields, a later one will add some.              *)
(*                                                                         *)
(* The module describes the decoder that discards origin and last hop for  *)
(* a message that is not addressed by the server (the node's own).         *)
(***************************************************************************)
EXTENDS Nanopb

CONSTANTS
    Messages,     \* mesh_messages handed to encode, each with its buffer's size
    Unknown,      \* fields that this version does not know: [tag, wire, value]
    Garbage,      \* values of a byte that was not read as it was sent
    OwnMac

\* The numbers of the message types that encode and decode tell apart.
ENROLLMENT == 2
SERIAL_CMD_BROADCAST == 3
JOIN_ACK == 4

Mac == [1..6 -> Byte]

\* mesh_message, as SerialFraming::encode reads it, and the size of the encode buffer.
MeshMessage ==
    [type : Byte, dataType : Int32, origin : Mac, lastHop : Mac, target : Mac,
     data : [1..64 -> Byte], hop : Byte, epoch : Uint32,
     seq : {n \in Uint32 : n < 2^16}, version : Byte, key : [1..32 -> Byte], room : Nat]

\* What relayEnrollmentToServer makes of a request: type, version, origin and
\* key, the rest zero.
EnrollmentRelay(m) ==
    /\ m.type = ENROLLMENT
    /\ m.dataType = 0 /\ m.hop = 0 /\ m.epoch = 0 /\ m.seq = 0
    /\ m.version < 128

\* A field of another version: no tag of this one but that of authPath, and a
\* value as its wire type wants it (of a string without the length).
OtherField(u) ==
    /\ u.tag \in 15..(UintMod \div 8 - 1)
    /\ u.value \in Seq(Byte)
    /\ \/ u.wire = VARINT /\ Len(u.value) \in 1..10 /\ VarintLen(u.value) = Len(u.value)
       \/ u.wire = BIT64 /\ Len(u.value) = 8
       \/ u.wire = STRING_ /\ Len(u.value) < UintMod
       \/ u.wire = BIT32 /\ Len(u.value) = 4

\* The buffers of onMeshDataImpl and of relayEnrollmentToServer have 256 and
\* 128 bytes.
ASSUME CodecAssumption ==
    /\ Messages \subseteq MeshMessage
    /\ \A m \in Messages : m.room = 256 \/ (m.room = 128 /\ EnrollmentRelay(m))
    /\ \A u \in Unknown : OtherField(u)
    /\ Garbage \subseteq Byte
    /\ OwnMac \in Mac

VARIABLES
    stage,   \* "idle" | "encode" | "line" | "decode" | "done"
    msg,     \* the message
    iter,    \* position of pb_field_iter_t
    pb,      \* mesh_MeshMessage: pbMsg of encode, then of decode
    out,     \* pb_ostream_t: [ok, bytes]
    starts,  \* history: where in the frame each field starts
    line,    \* history: [kind, at] what happened between the two sides
    input,   \* pb_istream_t: what is left to decode
    result   \* what encode or decode returns: [status, msg]

codecVars == <<stage, msg, iter, pb, out, starts, line, input, result>>

Nothing == [type |-> 0]
Failed == [status |-> "failed", msg |-> Nothing]

CodecInit ==
    /\ stage = "idle"
    /\ msg = Nothing
    /\ iter = 1
    /\ pb = ZeroMessage
    /\ out = [ok |-> TRUE, bytes |-> << >>]
    /\ starts = << >>
    /\ line = [kind |-> "none", at |-> 0]
    /\ input = << >>
    /\ result = [status |-> "none", msg |-> Nothing]

-----------------------------------------------------------------------------
(***************************************************************************)
(* SerialFraming::encode.                                                  *)
(***************************************************************************)

\* The copy into pbMsg: data always, the key for the types that carry one and
\* only if it is not all zeros.
ToPb(m) ==
    LET keyed == m.type \in {ENROLLMENT, JOIN_ACK} /\ m.key /= Zeros(32)
    IN  [has |-> {"data"} \cup (IF keyed THEN {"public_key"} ELSE {}),
         val |-> [n \in FieldNames |->
                    CASE n = "messageType" -> m.type
                      [] n = "dataType" -> m.dataType
                      [] n = "originMacAddress" -> m.origin
                      [] n = "targetMacAddress" -> m.target
                      [] n = "lastHopMacAddress" -> m.lastHop
                      [] n = "data" -> [size |-> 64, bytes |-> m.data]
                      [] n = "hopCount" -> m.hop
                      [] n = "epochNum" -> m.epoch
                      [] n = "seqNum" -> m.seq
                      [] n = "protoVersion" -> m.version
                      [] n = "public_key" /\ keyed -> [size |-> 32, bytes |-> m.key]
                      [] OTHER -> ZeroOf(FieldOf(n))]]

StartEncode(m) ==
    /\ stage = "idle"
    /\ stage' = "encode"
    /\ msg' = m
    /\ pb' = ToPb(m)
    /\ iter' = 1
    /\ UNCHANGED <<out, starts, line, input, result>>

\* One round of pb_encode's loop.  A field that does not fit ends it, and
\* encode returns 0.
EncodeNext ==
    /\ stage = "encode"
    /\ out' = EncodeField(msg.room, out, pb, Descriptor[iter])
    /\ starts' = Append(starts, Len(out.bytes))
    /\ iter' = Advance(iter)
    /\ stage' = CASE ~out'.ok -> "done" [] out'.ok /\ iter' = 1 -> "line" [] OTHER -> "encode"
    /\ result' = IF out'.ok THEN result ELSE Failed
    /\ UNCHANGED <<msg, pb, line, input>>

-----------------------------------------------------------------------------
(***************************************************************************)
(* What arrives.  decode starts with a zeroed struct.                      *)
(***************************************************************************)

Arrives(bytes, kind, at) ==
    /\ stage = "line"
    /\ stage' = "decode"
    /\ input' = bytes
    /\ line' = [kind |-> kind, at |-> at]
    /\ pb' = ZeroMessage
    /\ iter' = 1
    /\ UNCHANGED <<msg, out, starts, result>>

Intact == Arrives(out.bytes, "intact", 0)

\* The frame ends early: its length counted bytes that were lost.
Cut(k) == k < Len(out.bytes) /\ Arrives(SubSeq(out.bytes, 1, k), "cut", k)

\* Byte k is lost and the frame is filled up with a byte of the next one.
LoseByte(k) ==
    /\ k \in 1..Len(out.bytes)
    /\ Arrives(SubSeq(out.bytes, 1, k - 1) \o SubSeq(out.bytes, k + 1, Len(out.bytes)) \o <<24>>,
               "shifted", k)

\* Byte k arrives as b.
Garble(k, b) ==
    /\ k \in 1..Len(out.bytes)
    /\ Arrives([out.bytes EXCEPT ![k] = b], "garbled", k)

\* The field as its sender writes it.
OtherBytes(u) ==
    EncodeTag(u.tag, u.wire)
    \o (IF u.wire = STRING_ THEN EncodeVarint(Len(u.value)) ELSE << >>) \o u.value

\* A sender of another version puts a field of its own before field i.
OtherVersion(i, u) ==
    LET k == starts[i]
    IN  Arrives(SubSeq(out.bytes, 1, k) \o OtherBytes(u) \o SubSeq(out.bytes, k + 1, Len(out.bytes)),
                "other version", k)

\* A sender that begins with field i and goes once around.
Rotated(i) ==
    LET k == starts[i]
    IN  Arrives(SubSeq(out.bytes, k + 1, Len(out.bytes)) \o SubSeq(out.bytes, 1, k),
                "rotated", k)

-----------------------------------------------------------------------------
(***************************************************************************)
(* SerialFraming::decode.                                                  *)
(***************************************************************************)

\* The copy out of pbMsg, narrowing to the members of mesh_message (their
\* widths are those of CompactMessage.h:50-62).
FromPb(p) ==
    LET type == p.val["messageType"] % 2^8
        addressed == type \in {JOIN_ACK, SERIAL_CMD_BROADCAST}
    IN  [type |-> type,
         dataType |-> p.val["dataType"],
         origin |-> IF addressed THEN p.val["originMacAddress"] ELSE OwnMac,
         lastHop |-> IF addressed THEN p.val["lastHopMacAddress"] ELSE OwnMac,
         target |-> p.val["targetMacAddress"],
         data |-> IF "data" \in p.has
                  THEN Overwrite(Zeros(64), SubSeq(p.val["data"].bytes, 1, p.val["data"].size))
                  ELSE Zeros(64),
         hop |-> p.val["hopCount"] % 2^8,
         epoch |-> p.val["epochNum"],
         seq |-> p.val["seqNum"] % 2^16,
         version |-> p.val["protoVersion"] % 2^8,
         key |-> IF "public_key" \in p.has THEN p.val["public_key"].bytes ELSE Zeros(32)]

Refuse ==
    /\ stage' = "done"
    /\ result' = Failed
    /\ UNCHANGED <<msg, iter, pb, out, starts, line, input>>

\* A field of the descriptor: its has_ member is set before it is read.
Take(at, r) ==
    LET f == Descriptor[at]
    IN  /\ pb' = [has |-> IF f.hasFlag THEN pb.has \cup {f.name} ELSE pb.has,
                  val |-> IF f.type = "callback" THEN pb.val
                                                 ELSE [pb.val EXCEPT ![f.name] = r.val]]
        /\ iter' = at
        /\ input' = r.rest
        /\ UNCHANGED <<stage, msg, out, starts, line, result>>

\* An unknown field: the iterator is back where it was.
Pass(r) ==
    /\ input' = r.rest
    /\ UNCHANGED <<stage, msg, iter, pb, out, starts, line, result>>

\* Fault: a tag that cannot be read ends the message.
DecodeNextLenient ==
    /\ stage = "decode"
    /\ input /= << >>
    /\ LET t == DecodeTag(input)
           found == IterFind(iter, t.val[1])
           f == Descriptor[found.at]
           skipped == SkipField(t.rest, t.val[2])
           value == DecodeValue(f, pb.val[f.name], t.rest, t.val[2])
       IN  CASE ~t.ok -> Pass(Good(0, << >>))
             [] t.ok /\ t.val[1] = 0 -> Refuse
             [] t.ok /\ t.val[1] /= 0 /\ ~found.found ->
                   IF skipped.ok THEN Pass(skipped) ELSE Pass(Good(0, << >>))
             [] OTHER -> IF value.ok THEN Take(found.at, value) ELSE Pass(Good(0, << >>))

\* One round of pb_decode_inner's loop: tag, field, value.
DecodeNext ==
    /\ stage = "decode"
    /\ input /= << >>
    /\ LET t == DecodeTag(input)
           found == IterFind(iter, t.val[1])
           f == Descriptor[found.at]
           skipped == SkipField(t.rest, t.val[2])
           value == DecodeValue(f, pb.val[f.name], t.rest, t.val[2])
       IN  CASE ~t.ok -> Refuse
             [] t.ok /\ t.val[1] = 0 -> Refuse
             [] t.ok /\ t.val[1] /= 0 /\ ~found.found ->
                   IF skipped.ok THEN Pass(skipped) ELSE Refuse
             [] OTHER -> IF value.ok THEN Take(found.at, value) ELSE Refuse

DecodeEnds ==
    /\ stage = "decode"
    /\ input = << >>
    /\ stage' = "done"
    /\ result' = [status |-> "ok", msg |-> FromPb(pb)]
    /\ UNCHANGED <<msg, iter, pb, out, starts, line, input>>

CodecNext ==
    \/ \E m \in Messages : StartEncode(m)
    \/ EncodeNext
    \/ Intact
    \/ \E k \in 0..256 : Cut(k) \/ LoseByte(k) \/ \E b \in Garbage : Garble(k, b)
    \/ \E i \in DOMAIN starts : Rotated(i) \/ \E u \in Unknown : OtherVersion(i, u)
    \/ DecodeNext
    \/ DecodeEnds

CodecSpec == CodecInit /\ [][CodecNext]_codecVars

-----------------------------------------------------------------------------
(***************************************************************************)
(* Properties.                                                             *)
(***************************************************************************)

\* No member of the struct is written past, whatever bytes arrive
\* (pb_decode.c:1497-1544): every member holds a value of its own size.
MembersFit ==
    /\ stage \in {"idle", "encode", "line", "decode", "done"}
    /\ msg \in Messages \cup {Nothing}
    /\ iter \in 1..FieldCount
    /\ pb.has \subseteq FieldNames
    /\ \A n \in FieldNames : pb.val[n] \in FieldValues(FieldOf(n))
    /\ out.bytes \in Seq(Byte) /\ input \in Seq(Byte)

\* Every message the adapter encodes fits the buffer it is given: encode never
\* returns 0.  The enrollment request relayed to the server
\* (SerialAdapter.cpp:127) takes 128 bytes of 128.
EncodeFits ==
    /\ stage /= "idle" => Len(out.bytes) <= msg.room
    /\ out.ok

\* What decode makes of m when every field arrives: everything but the key of
\* a message that carries none, and the sender's addresses where the server
\* does not set them.
Delivered(m) ==
    LET addressed == m.type \in {JOIN_ACK, SERIAL_CMD_BROADCAST}
    IN  [type |-> m.type, dataType |-> m.dataType,
         origin |-> IF addressed THEN m.origin ELSE OwnMac,
         lastHop |-> IF addressed THEN m.lastHop ELSE OwnMac,
         target |-> m.target, data |-> m.data, hop |-> m.hop, epoch |-> m.epoch,
         seq |-> m.seq, version |-> m.version,
         key |-> IF m.type \in {ENROLLMENT, JOIN_ACK} THEN m.key ELSE Zeros(32)]

\* decode undoes encode, at the smallest and the largest value of every field
\* and with the zero fields that encode leaves out.  A field this version does
\* not know, of any wire type and at any place, changes nothing, so firmware
\* and server need not be updated together; nor does another order of the
\* fields: the search for a tag goes back to the fields before the one found
\* last (pb_common.c:195-244).
RoundTrip ==
    stage = "done" /\ line.kind \in {"intact", "other version", "rotated"} =>
        result = [status |-> "ok", msg |-> Delivered(msg)]

\* A frame that ends early is noticed unless it ends between two fields.
CutNoticed ==
    stage = "done" /\ line.kind = "cut" /\ (\A i \in DOMAIN starts : line.at /= starts[i]) =>
        result = Failed
=============================================================================
