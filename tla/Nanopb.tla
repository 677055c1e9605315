------------------------------- MODULE Nanopb -------------------------------
(***************************************************************************)
(* The part of nanopb that mesh_MeshMessage uses: streams over a buffer,   *)
(* varints, tags, and the fields of the generated descriptor, which are    *)
(* unsigned and signed varints, byte arrays with a capacity, byte arrays   *)
(* of fixed length and one callback field without a callback.  There are   *)
(* no required, repeated, oneof, pointer, submessage or extension fields   *)
(* and no default values; the branches for them are not translated.        *)
(*                                                                         *)
(* Bytes, tags, wire types and array sizes are the real ones.  Integers    *)
(* have Width bits, 32 in the code and 15 as far as TLC can count, and     *)
(* Wide, twice as many, where the code has 64.                             *)
(*                                                                         *)
(* A reading operator takes what is left of the input stream and returns   *)
(* [ok, val, rest]; after a failure nothing is read from the stream again. *)
(***************************************************************************)
EXTENDS Integers, Sequences

CONSTANTS Width   \* bits of uint32_t

Wide == 2 * Width

ASSUME WidthAssumption == Width \in {15, 32}

UintMod == 2^Width
WideMod == UintMod * UintMod
Byte == 0..255
Uint32 == 0..(UintMod - 1)
Int32 == -(2^(Width - 1))..(2^(Width - 1) - 1)
Zeros(n) == [i \in 1..n |-> 0]

-----------------------------------------------------------------------------
(***************************************************************************)
(* Streams.                                                                *)
(***************************************************************************)

Good(val, rest) == [ok |-> TRUE, val |-> val, rest |-> rest]
Bad == [ok |-> FALSE, val |-> 0, rest |-> << >>]

\* pb_read of a buffer stream.
Read(s, n) ==
    IF Len(s) < n THEN Bad
                  ELSE Good(SubSeq(s, 1, n), SubSeq(s, n + 1, Len(s)))

\* Reads and gives nothing back.
Skip(s, n) == LET r == Read(s, n) IN IF r.ok THEN Good(0, r.rest) ELSE Bad

\* Fault: the buffer counts as full one byte early.
WriteEarlyFull(room, out, chunk) ==
    IF ~out.ok \/ Len(out.bytes) + Len(chunk) >= room
    THEN [ok |-> FALSE, bytes |-> out.bytes]
    ELSE [ok |-> TRUE, bytes |-> out.bytes \o chunk]

\* pb_write: an output stream is [ok, bytes]; after a failed write the caller
\* gives up.
Write(room, out, chunk) ==
    IF ~out.ok \/ Len(out.bytes) + Len(chunk) > room
    THEN [ok |-> FALSE, bytes |-> out.bytes]
    ELSE [ok |-> TRUE, bytes |-> out.bytes \o chunk]

-----------------------------------------------------------------------------
(***************************************************************************)
(* Varints: groups of seven bits, the lowest first, the high bit of a byte *)
(* saying that more follow.                                                *)
(***************************************************************************)

Continues(b) == b >= 128
Low7(b) == b % 128

\* The number of bytes of the varint at the head of s, 0 if s ends inside it.
VarintLen(s) ==
    LET ends == {i \in 1..Len(s) : ~Continues(s[i])}
    IN  IF ends = {} THEN 0 ELSE CHOOSE i \in ends : \A j \in ends : i <= j

\* The value of the first n groups of s, ten at most.
Groups(s, n) ==
    LET d(i) == IF i <= n THEN Low7(s[i]) ELSE 0
    IN  d(1) + 128 * (d(2) + 128 * (d(3) + 128 * (d(4) + 128 * (d(5) +
        128 * (d(6) + 128 * (d(7) + 128 * (d(8) + 128 * (d(9) + 128 * d(10)))))))))

\* pb_decode_varint: Wide bits; the last byte has room for what is left of them.
DecodeVarint(s) ==
    LET n == VarintLen(s)
        last == Wide \div 7 + 1
        tooLong == \/ n > last
                   \/ n = last /\ s[n] >= 2^(Wide - 7 * (last - 1))
    IN  IF n = 0 \/ tooLong THEN Bad ELSE Good(Groups(s, n), SubSeq(s, n + 1, Len(s)))

\* pb_decode_varint32: Width bits.  A value with the top bit set may be
\* sign-extended to Wide bits; any other excess is refused.
DecodeVarint32(s) ==
    LET n == VarintLen(s)
        part == Width \div 7 + 1                \* the group that is cut off
        bits == Width - 7 * (part - 1)          \* how much of it there is
        value == IF n < part THEN Groups(s, n) ELSE Groups(s, part) % UintMod
        partOk == \/ Low7(s[part]) < 2^bits
                  \/ Low7(s[part]) \div 2^(bits - 1) = 2^(8 - bits) - 1
        signByte(i) == IF 7 * i <= Wide THEN 255 ELSE 2^(Wide - 7 * (i - 1)) - 1
        extOk(i) == /\ 7 * (i - 1) < Wide
                    /\ \/ Low7(s[i]) = 0
                       \/ value >= 2^(Width - 1) /\ s[i] = signByte(i)
    IN  IF \/ n = 0
           \/ n >= part /\ ~partOk
           \/ \E i \in (part + 1)..n : ~extOk(i)
        THEN Bad
        ELSE Good(value, SubSeq(s, n + 1, Len(s)))

\* v in n groups.
VarintBytes(v, n) ==
    [i \in 1..n |-> ((v \div 2^(7 * (i - 1))) % 128) + (IF i < n THEN 128 ELSE 0)]

\* No more groups than v needs, which has 32 bits at most.
VarintSize(v) == CHOOSE n \in 1..5 : v < 2^(7 * n) /\ (n > 1 => v >= 2^(7 * (n - 1)))

\* pb_encode_varint, pb_encode_varint_32.
EncodeVarint(v) == VarintBytes(v, VarintSize(v))

\* pb_encode_svarint: zigzag, with the complement taken in Wide bits.
ZigZag(v) ==
    IF v < 0 THEN WideMod - 1 - 2 * ((WideMod + v) % (WideMod \div 2)) ELSE 2 * v

\* pb_decode_svarint.
UnZigZag(z) == IF z % 2 = 1 THEN -(z \div 2) - 1 ELSE z \div 2

-----------------------------------------------------------------------------
(***************************************************************************)
(* Tags and skipped fields.                                                *)
(***************************************************************************)

VARINT == 0
BIT64 == 1
STRING_ == 2
BIT32 == 5

\* pb_encode_tag.
EncodeTag(tag, wire) == EncodeVarint(8 * tag + wire)

\* pb_decode_tag: val is <<tag, wire type>>.
DecodeTag(s) ==
    LET r == DecodeVarint32(s)
    IN  IF r.ok THEN Good(<<r.val \div 8, r.val % 8>>, r.rest) ELSE Bad

SkipString(s) ==
    LET r == DecodeVarint32(s) IN IF r.ok THEN Skip(r.rest, r.val) ELSE Bad

\* pb_skip_field, pb_skip_varint.
SkipField(s, wire) ==
    CASE wire = VARINT -> IF VarintLen(s) = 0 THEN Bad ELSE Skip(s, VarintLen(s))
      [] wire = BIT64 -> Skip(s, 8)
      [] wire = STRING_ -> SkipString(s)
      [] wire = BIT32 -> Skip(s, 4)
      [] OTHER -> Bad

\* read_raw_value: what a callback field reads that is no string.
RawValue(s, wire) ==
    CASE wire = VARINT -> IF VarintLen(s) \in 1..10 THEN Skip(s, VarintLen(s)) ELSE Bad
      [] wire = BIT64 -> Skip(s, 8)
      [] wire = BIT32 -> Skip(s, 4)
      [] OTHER -> Bad

-----------------------------------------------------------------------------
(***************************************************************************)
(* The descriptor and its iterator.                                        *)
(***************************************************************************)

\* type: "uint" | "sint" | "fixed" | "bytes" | "callback"; hasFlag: the struct
\* has a has_ member for the field; size: bytes of the array.
Field(name, tag, type, hasFlag, size) ==
    [name |-> name, tag |-> tag, type |-> type, hasFlag |-> hasFlag, size |-> size]

\* mesh_MeshMessage_FIELDLIST and the arrays of the struct.
Descriptor == <<
    Field("messageType", 1, "uint", FALSE, 0),
    Field("dataType", 2, "sint", FALSE, 0),
    Field("originMacAddress", 3, "fixed", FALSE, 6),
    Field("targetMacAddress", 4, "fixed", FALSE, 6),
    Field("lastHopMacAddress", 5, "fixed", FALSE, 6),
    Field("data", 6, "bytes", TRUE, 64),
    Field("hopCount", 7, "uint", FALSE, 0),
    Field("epochNum", 8, "uint", FALSE, 0),
    Field("seqNum", 9, "uint", FALSE, 0),
    Field("protoVersion", 10, "uint", FALSE, 0),
    Field("public_key", 11, "bytes", TRUE, 32),
    Field("routeLen", 12, "uint", TRUE, 0),
    Field("routePath", 13, "bytes", TRUE, 48),
    Field("authTag", 14, "bytes", TRUE, 16),
    Field("authPath", 17, "callback", FALSE, 0)>>

FieldCount == Len(Descriptor)
LargestTag == Descriptor[FieldCount].tag
FieldNames == {Descriptor[i].name : i \in 1..FieldCount}
FieldOf(n) == Descriptor[CHOOSE i \in 1..FieldCount : Descriptor[i].name = n]

\* advance_iterator: from the last field back to the first.
Advance(i) == IF i >= FieldCount THEN 1 ELSE i + 1

\* Fault: the search does not start again from the first field.
IterFindForward(i, tag) ==
    LET hits == {j \in i..FieldCount : Descriptor[j].tag = tag}
    IN  IF hits = {} THEN [found |-> FALSE, at |-> i]
        ELSE [found |-> TRUE, at |-> CHOOSE j \in hits : TRUE]

\* pb_field_iter_find from field i: for a smaller tag the search restarts at
\* the first field and ends at i, for a larger one it goes once around.
IterFind(i, tag) ==
    LET looked == IF tag < Descriptor[i].tag THEN 1..i ELSE 1..FieldCount
        hits == {j \in looked : Descriptor[j].tag = tag}
    IN  IF tag > LargestTag \/ hits = {}
        THEN [found |-> FALSE, at |-> i]
        ELSE [found |-> TRUE, at |-> CHOOSE j \in hits : TRUE]

-----------------------------------------------------------------------------
(***************************************************************************)
(* Fields.  A message is [has, val]: the has_ members that are true and    *)
(* the values; a byte array is [size, bytes] with bytes as long as the     *)
(* array in the struct.                                                    *)
(***************************************************************************)

\* pb_message_set_to_defaults: memset of every field.
ZeroOf(f) ==
    CASE f.type = "fixed" -> Zeros(f.size)
      [] f.type = "bytes" -> [size |-> 0, bytes |-> Zeros(f.size)]
      [] OTHER -> 0

ZeroMessage == [has |-> {}, val |-> [n \in FieldNames |-> ZeroOf(FieldOf(n))]]

\* The values a field can hold without the code having written past it.
FieldValues(f) ==
    CASE f.type = "uint" -> Uint32
      [] f.type = "sint" -> Int32
      [] f.type = "fixed" -> [1..f.size -> Byte]
      [] f.type = "bytes" -> [size : 0..f.size, bytes : [1..f.size -> Byte]]
      [] f.type = "callback" -> {0}

\* dest with its first bytes replaced.
Overwrite(dest, src) == src \o SubSeq(dest, Len(src) + 1, Len(dest))

\* pb_dec_varint: refused if it does not fit the member.
DecodeUint(s) ==
    LET r == DecodeVarint(s) IN IF r.ok /\ r.val < UintMod THEN r ELSE Bad

DecodeSint(s) ==
    LET r == DecodeVarint(s)
        v == UnZigZag(r.val)
    IN  IF r.ok /\ v \in Int32 THEN Good(v, r.rest) ELSE Bad

\* Fault: the length is not compared with the array.
DecodeBytesUnbounded(f, old, s) ==
    LET n == DecodeVarint32(s)
        r == Read(n.rest, n.val)
    IN  IF n.ok /\ r.ok
        THEN Good([size |-> n.val, bytes |-> Overwrite(old.bytes, r.val)], r.rest)
        ELSE Bad

\* pb_dec_bytes.  What a shorter value leaves of an earlier one stays.
DecodeBytes(f, old, s) ==
    LET n == DecodeVarint32(s)
        r == Read(n.rest, n.val)
    IN  IF n.ok /\ n.val <= f.size /\ r.ok
        THEN Good([size |-> n.val, bytes |-> Overwrite(old.bytes, r.val)], r.rest)
        ELSE Bad

\* pb_dec_fixed_length_bytes: an empty string stands for zeros.
DecodeFixed(f, s) ==
    LET n == DecodeVarint32(s)
    IN  CASE ~n.ok -> Bad
          [] n.ok /\ n.val = 0 -> Good(Zeros(f.size), n.rest)
          [] n.ok /\ n.val = f.size -> Read(n.rest, f.size)
          [] OTHER -> Bad

\* decode_callback_field, with a default callback that reads nothing.
DecodeCallback(s, wire) == IF wire = STRING_ THEN SkipString(s) ELSE RawValue(s, wire)

\* decode_field, decode_static_field, decode_basic_field: the value read for
\* field f from s.
DecodeValue(f, old, s, wire) ==
    CASE f.type = "callback" -> DecodeCallback(s, wire)
      [] f.type = "uint" /\ wire = VARINT -> DecodeUint(s)
      [] f.type = "sint" /\ wire = VARINT -> DecodeSint(s)
      [] f.type = "bytes" /\ wire = STRING_ -> DecodeBytes(f, old, s)
      [] f.type = "fixed" /\ wire = STRING_ -> DecodeFixed(f, s)
      [] OTHER -> Bad

\* pb_encode_tag_for_field.
WireType(f) == IF f.type \in {"uint", "sint"} THEN VARINT ELSE STRING_

\* encode_field, pb_check_proto3_default_value: is there anything to write?
Present(pb, f) ==
    /\ f.type /= "callback"
    /\ f.hasFlag => f.name \in pb.has
    /\ ~f.hasFlag /\ f.type \in {"uint", "sint"} => pb.val[f.name] /= 0

\* pb_encode_string: the length, then the bytes.
WriteString(room, out, bytes) ==
    Write(room, Write(room, out, EncodeVarint(Len(bytes))), bytes)

\* encode_basic_field and the encoders of the types.
EncodeValue(room, out, f, v) ==
    CASE f.type = "uint" -> Write(room, out, EncodeVarint(v))
      [] f.type = "sint" -> Write(room, out, EncodeVarint(ZigZag(v)))
      [] f.type = "bytes" -> WriteString(room, out, SubSeq(v.bytes, 1, v.size))
      [] f.type = "fixed" -> WriteString(room, out, v)

\* encode_field into a buffer of room bytes.
EncodeField(room, out, pb, f) ==
    IF Present(pb, f)
    THEN EncodeValue(room, Write(room, out, EncodeTag(f.tag, WireType(f))), f, pb.val[f.name])
    ELSE out
=============================================================================
