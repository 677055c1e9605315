-------------------------- MODULE SerialLinkProofs --------------------------
(***************************************************************************)
(* The framing stays inside its buffer; what the node handles is what the  *)
(* server sent, until the line loses a byte; and power presets do not      *)
(* circulate.  For every size of buffer, set of commands and number of     *)
(* frames and lost bytes.                                                  *)
(***************************************************************************)
EXTENDS SerialLink, FiniteSetTheorems, SequenceTheorems, TLAPS

\* The parser's states, for the case split of injectByte.
FrameInv == parser.state \in {"Len1", "Len2", "Payload"} /\ FrameInBuffer

LEMMA BufferHasRoom == MaxPayload \in Nat /\ MaxPayload > 0
  BY SerialConstants

LEMMA IdleIsFramed == parser' = Idle => FrameInv'
  BY BufferHasRoom DEF Idle, Parser, FrameInv, FrameInBuffer

\* One byte, whatever its value, keeps the parser inside its buffer
\* (SerialFraming::injectByte).  In particular the overflow branch of the
\* payload state is dead.
LEMMA InjectByteFramed ==
    ASSUME FrameInv, NEW b, parser' = InjectByte(parser, b)
    PROVE  FrameInv'
<1> USE BufferHasRoom
<1>1. CASE parser.state = "Len1"
  <2>1. parser' = Parser("Len2", b, 0, << >>)
    BY <1>1 DEF InjectByte
  <2> QED
    BY <2>1 DEF Parser, FrameInv, FrameInBuffer
<1>2. CASE parser.state = "Len2"
  <2>1. CASE parser.length + Radix * b \in 1..MaxPayload
    <3>1. PICK n \in 1..MaxPayload : n = parser.length + Radix * b
      BY <2>1
    <3>2. parser' = Parser("Payload", n, 0, << >>)
      BY <1>2, <2>1, <3>1 DEF InjectByte
    <3> QED
      BY <3>2 DEF Parser, FrameInv, FrameInBuffer
  <2>2. CASE parser.length + Radix * b \notin 1..MaxPayload
    BY <1>2, <2>2, IdleIsFramed DEF InjectByte
  <2> QED
    BY <2>1, <2>2
<1>3. CASE parser.state = "Payload"
  <2>1. /\ parser.index \in Nat /\ parser.length \in 1..MaxPayload
        /\ parser.index < parser.length /\ parser.index < MaxPayload
    BY <1>3 DEF FrameInv, FrameInBuffer
  <2>2. CASE parser.index + 1 >= parser.length
    <3>1. parser' = Parser("Len1", 0, parser.index + 1, Append(parser.buffer, b))
      BY <1>3, <2>1, <2>2 DEF InjectByte
    <3> QED
      BY <2>1, <3>1 DEF Parser, FrameInv, FrameInBuffer
  <2>3. CASE parser.index + 1 < parser.length
    <3>1. parser' = Parser("Payload", parser.length, parser.index + 1, Append(parser.buffer, b))
      BY <1>3, <2>1, <2>3 DEF InjectByte
    <3> QED
      BY <2>1, <2>3, <3>1 DEF Parser, FrameInv, FrameInBuffer
  <2> QED
    BY <2>1, <2>2, <2>3
<1> QED
  BY <1>1, <1>2, <1>3 DEF FrameInv

\* The framing never stores past the end of payloadBuffer, whatever the line
\* carries (SerialFraming.cpp:125-170).
THEOREM FramingStaysInBuffer == Spec => []FrameInBuffer
<1>1. Init => FrameInv
  BY BufferHasRoom DEF Init, Idle, Parser, FrameInv, FrameInBuffer
<1>2. FrameInv /\ [Next]_vars => FrameInv'
  <2> SUFFICES ASSUME FrameInv, [Next]_vars PROVE FrameInv'
    OBVIOUS
  <2>1. CASE UNCHANGED parser
    BY <2>1 DEF FrameInv, FrameInBuffer
  <2>2. CASE ReadByte
    <3>1. parser' = Idle \/ parser' = InjectByte(parser, Head(wire))
      BY <2>2 DEF ReadByte
    <3> QED
      BY <3>1, IdleIsFramed, InjectByteFramed
  <2>3. ASSUME NEW m \in FromMesh, MeshDelivers(m) PROVE FrameInv'
    <3>1. parser' = Idle \/ parser' = parser
      BY <2>3 DEF MeshDelivers
    <3> QED
      BY <2>1, <3>1, IdleIsFramed
  <2> QED
    BY <2>1, <2>2, <2>3
       DEF Next, vars, ServerSends, LoseByte, HealthTick, RelayEnrollment, WriteLength, WritePayload
<1> QED
  BY <1>1, <1>2, PTL DEF Spec, FrameInv

-----------------------------------------------------------------------------
(***************************************************************************)
(* From the server: what is on the line and in the parser is the rest of   *)
(* what was sent.                                                          *)
(***************************************************************************)

\* Bytes of the frame at hand that the parser has taken.
TakenBy(p) == CASE p.state = "Len1" -> 0
                [] p.state = "Len2" -> 1
                [] p.state = "Payload" -> 2 + p.index

\* Length of a frame on the line.
FrameLen(m) == 2 + Len(Code[m])

\* Of the n commands in s the first k are handled, and the parser has taken
\* the first bytes of the next.  off gives the place on the line w, of length
\* l, at which the frame of each command ends.
OnLine(k, n, s, w, l, taken, off) ==
    /\ off[k] = 0 - taken
    /\ off[n] = l
    /\ \A i \in k..n : off[i] <= l
    /\ \A i \in (k + 1)..n :
         /\ off[i] = off[i - 1] + FrameLen(s[i])
         /\ \A j \in 1..FrameLen(s[i]) :
              off[i - 1] + j >= 1 => w[off[i - 1] + j] = Bytes(s[i])[j]

Placed(k, n, s, w, l, taken) == \E off \in [Nat -> Int] : OnLine(k, n, s, w, l, taken, off)

\* In the middle of a frame the parser holds the beginning of command m.
Holds(p, m) ==
    /\ p.state = "Len2" => p.length = Len(Code[m]) % Radix
    /\ p.state = "Payload" =>
         /\ p.length = Len(Code[m])
         /\ p.buffer \in Seq(Nat) /\ Len(p.buffer) = p.index
         /\ \A j \in 1..p.index : p.buffer[j] = Code[m][j]

\* k commands of the n in s are handled, h being the handled ones.
Intact(k, n, s, h, w, l, p) ==
    /\ k <= n
    /\ \A i \in 1..k : h[i] = s[i]
    /\ \A i \in 1..n : Len(Code[s[i]]) <= MaxPayload
    /\ p.state # "Len1" => k < n /\ Holds(p, s[k + 1])
    /\ Placed(k, n, s, w, l, TakenBy(p))

InboundTypes ==
    /\ wire \in Seq(Nat) /\ sent \in Seq(Commands) /\ handled \in Seq(Commands \cup {Garbage})
    /\ rxIntact \in BOOLEAN
    /\ FrameInv

InboundInv ==
    /\ InboundTypes
    /\ rxIntact => Intact(Len(handled), Len(sent), sent, handled, wire, Len(wire), parser)

\* A frame's bytes, one by one.
LEMMA FrameBytes ==
    ASSUME NEW m \in Commands
    PROVE  /\ Code[m] \in Seq(Nat) /\ Len(Code[m]) \in Nat \ {0}
           /\ Bytes(m) \in Seq(Nat) /\ Len(Bytes(m)) = FrameLen(m) /\ FrameLen(m) \in Nat
           /\ Bytes(m)[1] = Len(Code[m]) % Radix
           /\ Bytes(m)[2] = Len(Code[m]) \div Radix
           /\ \A j \in 1..Len(Code[m]) : Bytes(m)[j + 2] = Code[m][j]
<1>1. /\ Code[m] \in Seq(0..Radix - 1) /\ Len(Code[m]) \in Nat \ {0}
      /\ Radix \in Nat /\ Radix > 1
  BY SerialConstants
<1>2. Code[m] \in Seq(Nat)
  BY <1>1
<1>3. ASSUME NEW n \in Nat PROVE n % Radix \in Nat /\ n \div Radix \in Nat
  BY <1>1
<1>4. PICK a \in Nat, b \in Nat : a = Len(Code[m]) % Radix /\ b = Len(Code[m]) \div Radix
  BY <1>1, <1>3
<1>5. Bytes(m) = <<a, b>> \o Code[m]
  BY <1>4 DEF Bytes
<1>6. /\ Bytes(m) \in Seq(Nat) /\ Len(Bytes(m)) = 2 + Len(Code[m])
      /\ Bytes(m)[1] = a /\ Bytes(m)[2] = b
      /\ \A j \in 1..Len(Code[m]) : Bytes(m)[j + 2] = Code[m][j]
  <2>1. <<a, b>> \in Seq(Nat) /\ Len(<<a, b>>) = 2 /\ <<a, b>>[1] = a /\ <<a, b>>[2] = b
    OBVIOUS
  <2>2. ASSUME NEW x \in Seq(Nat), NEW y \in Seq(Nat), Len(x) = 2
        PROVE  /\ x \o y \in Seq(Nat) /\ Len(x \o y) = 2 + Len(y)
               /\ (x \o y)[1] = x[1] /\ (x \o y)[2] = x[2]
               /\ \A j \in 1..Len(y) : (x \o y)[j + 2] = y[j]
    <3>1. /\ x \o y \in Seq(Nat) /\ Len(x \o y) = Len(x) + Len(y)
          /\ \A i \in 1..Len(x) + Len(y) :
               (x \o y)[i] = IF i <= Len(x) THEN x[i] ELSE y[i - Len(x)]
      BY ConcatProperties, Zenon
    <3>2. /\ Len(x \o y) = 2 + Len(y) /\ Len(y) \in Nat
          /\ \A i \in 1..(2 + Len(y)) : (x \o y)[i] = IF i <= 2 THEN x[i] ELSE y[i - 2]
      BY <2>2, <3>1
    <3> QED
      BY <3>1, <3>2
  <2> QED
    BY <1>2, <1>5, <2>1, <2>2
<1> QED
  BY <1>1, <1>2, <1>4, <1>6, SMTT(30) DEF FrameLen

\* The two length bytes give the length back.
LEMMA LengthFromBytes ==
    ASSUME NEW n \in Nat PROVE (n % Radix) + Radix * (n \div Radix) = n
BY SerialConstants

\* s1 is the n commands of s and m; w1 is the line w, of length l, and m's
\* frame; and w1 is w without its first byte.
OneMore(s1, s, n, m) == s1[n + 1] = m /\ \A i \in 1..n : s1[i] = s[i]
FrameAdded(w1, w, l, m) ==
    /\ \A p \in 1..l : w1[p] = w[p]
    /\ \A j \in 1..FrameLen(m) : w1[l + j] = Bytes(m)[j]
ByteGone(w1, w, l) == \A p \in 1..(l - 1) : w1[p] = w[p + 1]
AllFrames(s, n) == \A i \in 1..n : FrameLen(s[i]) \in Nat

\* A frame at the end of the line.
LEMMA LineGrows ==
    ASSUME NEW k \in Nat, NEW n \in Nat, k <= n, NEW l \in Nat, NEW taken,
           NEW s, NEW w, Placed(k, n, s, w, l, taken),
           NEW m, FrameLen(m) \in Nat, AllFrames(s, n),
           NEW s1, OneMore(s1, s, n, m), NEW w1, FrameAdded(w1, w, l, m)
    PROVE  Placed(k, n + 1, s1, w1, l + FrameLen(m), taken)
<1> USE DEF OneMore, FrameAdded, AllFrames
<1> PICK off \in [Nat -> Int] : OnLine(k, n, s, w, l, taken, off)
  BY DEF Placed
<1> DEFINE off1 == [off EXCEPT ![n + 1] = l + FrameLen(m)]
<1>1. /\ off1 \in [Nat -> Int] /\ off1[n + 1] = l + FrameLen(m)
      /\ \A i \in 0..n : off1[i] = off[i] /\ off[i] \in Int
  OBVIOUS
<1> HIDE DEF off1
<1>2. off1[k] = 0 - taken
  BY <1>1 DEF OnLine
<1>3. ASSUME NEW i \in k..(n + 1) PROVE off1[i] <= l + FrameLen(m)
  <2>1. CASE i = n + 1
    BY <1>1, <2>1
  <2>2. CASE i \in k..n
    <3>1. off[i] <= l /\ off1[i] = off[i] /\ off[i] \in Int
      BY <1>1, <2>2 DEF OnLine
    <3> QED
      BY <3>1
  <2> QED
    BY <2>1, <2>2
<1>4. ASSUME NEW i \in (k + 1)..(n + 1)
      PROVE  /\ off1[i] = off1[i - 1] + FrameLen(s1[i])
             /\ \A j \in 1..FrameLen(s1[i]) :
                  off1[i - 1] + j >= 1 => w1[off1[i - 1] + j] = Bytes(s1[i])[j]
  <2>1. CASE i = n + 1
    <3>1. off1[i - 1] = l /\ s1[i] = m /\ off1[i] = l + FrameLen(m)
      BY <1>1, <2>1 DEF OnLine
    <3> QED
      BY <3>1
  <2>2. CASE i \in (k + 1)..n
    <3>1. /\ s1[i] = s[i] /\ off1[i] = off[i] /\ off1[i - 1] = off[i - 1]
          /\ off[i] = off[i - 1] + FrameLen(s[i]) /\ off[i] <= l
          /\ off[i] \in Int /\ off[i - 1] \in Int /\ FrameLen(s[i]) \in Nat
      BY <1>1, <2>2 DEF OnLine
    <3>2. ASSUME NEW j \in 1..FrameLen(s[i]), off[i - 1] + j >= 1
          PROVE  w1[off[i - 1] + j] = Bytes(s[i])[j]
      <4>1. off[i - 1] + j \in 1..l
        BY <3>1, <3>2
      <4>2. w[off[i - 1] + j] = Bytes(s[i])[j]
        BY <2>2, <3>2 DEF OnLine
      <4> QED
        BY <4>1, <4>2
    <3> QED
      BY <3>1, <3>2
  <2> QED
    BY <2>1, <2>2
<1> QED
  BY <1>1, <1>2, <1>3, <1>4 DEF OnLine, Placed

\* A byte taken from the head of the line: by the frame at hand, or as the
\* last of it.
LEMMA LineShrinks ==
    ASSUME NEW k \in Nat, NEW n \in Nat, k < n, NEW l \in Nat, NEW taken \in Nat,
           NEW s, NEW w, Placed(k, n, s, w, l, taken), AllFrames(s, n),
           NEW w1, ByteGone(w1, w, l)
    PROVE  /\ Placed(k, n, s, w1, l - 1, taken + 1)
           /\ taken + 1 = FrameLen(s[k + 1]) => Placed(k + 1, n, s, w1, l - 1, 0)
<1> USE DEF ByteGone, AllFrames
<1> SUFFICES ASSUME NEW k1 \in Nat, NEW taken1 \in Nat,
                    \/ k1 = k /\ taken1 = taken + 1
                    \/ k1 = k + 1 /\ taken1 = 0 /\ taken + 1 = FrameLen(s[k + 1])
             PROVE  Placed(k1, n, s, w1, l - 1, taken1)
  OBVIOUS
<1> PICK off \in [Nat -> Int] : OnLine(k, n, s, w, l, taken, off)
  BY DEF Placed
<1> DEFINE off1 == [i \in Nat |-> off[i] - 1]
<1>1. off1 \in [Nat -> Int] /\ \A i \in Nat : off1[i] = off[i] - 1 /\ off[i] \in Int
  OBVIOUS
<1> HIDE DEF off1
<1>2. off[k] = 0 - taken /\ off[k + 1] = off[k] + FrameLen(s[k + 1])
  BY DEF OnLine
<1>3. off1[k1] = 0 - taken1
  BY <1>1, <1>2
<1>4. off1[n] = l - 1 /\ \A i \in k1..n : off1[i] <= l - 1
  BY <1>1 DEF OnLine
<1>5. ASSUME NEW i \in (k1 + 1)..n
      PROVE  /\ off1[i] = off1[i - 1] + FrameLen(s[i])
             /\ \A j \in 1..FrameLen(s[i]) :
                  off1[i - 1] + j >= 1 => w1[off1[i - 1] + j] = Bytes(s[i])[j]
  <2>1. /\ i \in (k + 1)..n /\ off1[i] = off[i] - 1 /\ off1[i - 1] = off[i - 1] - 1
        /\ off[i] \in Int /\ off[i - 1] \in Int /\ FrameLen(s[i]) \in Nat /\ off[i] <= l
    BY <1>1 DEF OnLine
  <2>2. off[i] = off[i - 1] + FrameLen(s[i])
    BY <2>1 DEF OnLine
  <2>3. ASSUME NEW j \in 1..FrameLen(s[i]), off1[i - 1] + j >= 1
        PROVE  w1[off1[i - 1] + j] = Bytes(s[i])[j]
    <3>1. PICK q \in 1..(l - 1) : q = off1[i - 1] + j /\ q + 1 = off[i - 1] + j
      BY <2>1, <2>2, <2>3
    <3>2. w[q + 1] = Bytes(s[i])[j]
      BY <2>1, <3>1 DEF OnLine
    <3> QED
      BY <3>1, <3>2
  <2> QED
    BY <2>1, <2>2, <2>3
<1> QED
  BY <1>1, <1>3, <1>4, <1>5 DEF OnLine, Placed

\* The parser takes the next byte of the frame at hand, which keeps it inside
\* the frame or completes it with the frame's payload in the buffer
\* (SerialFraming::injectByte).
LEMMA ParserTakes ==
    ASSUME FrameInv, NEW m \in Commands, Len(Code[m]) <= MaxPayload,
           parser.state # "Len1" => Holds(parser, m),
           NEW next, next = InjectByte(parser, Bytes(m)[TakenBy(parser) + 1])
    PROVE  /\ TakenBy(parser) \in Nat /\ TakenBy(parser) < FrameLen(m)
           /\ \/ /\ ~FrameReady(parser, next) /\ next.state # "Len1" /\ Holds(next, m)
                 /\ TakenBy(next) = TakenBy(parser) + 1
              \/ /\ FrameReady(parser, next) /\ next.state = "Len1" /\ TakenBy(next) = 0
                 /\ TakenBy(parser) + 1 = FrameLen(m) /\ next.buffer = Code[m]
<1>1. /\ Code[m] \in Seq(Nat) /\ Len(Code[m]) \in Nat /\ Len(Code[m]) > 0
      /\ FrameLen(m) = 2 + Len(Code[m])
  BY FrameBytes DEF FrameLen
<1>2. parser.state \in {"Len1", "Len2", "Payload"}
  BY DEF FrameInv
<1>3. CASE parser.state = "Len1"
  <2>1. TakenBy(parser) = 0 /\ next = Parser("Len2", Len(Code[m]) % Radix, 0, << >>)
    <3>1. TakenBy(parser) = 0
      BY <1>3 DEF TakenBy
    <3>2. Bytes(m)[TakenBy(parser) + 1] = Len(Code[m]) % Radix
      BY <3>1, FrameBytes
    <3> QED
      BY <1>3, <3>1, <3>2 DEF InjectByte
  <2>2. /\ next.state = "Len2" /\ next.length = Len(Code[m]) % Radix
        /\ TakenBy(next) = 1 /\ ~FrameReady(parser, next)
    BY <1>3, <2>1 DEF Parser, TakenBy, FrameReady
  <2> QED
    BY <1>1, <2>1, <2>2 DEF Holds
<1>4. CASE parser.state = "Len2"
  <2>1. TakenBy(parser) = 1 /\ parser.length = Len(Code[m]) % Radix
    BY <1>4 DEF TakenBy, Holds
  <2>2. Bytes(m)[TakenBy(parser) + 1] = Len(Code[m]) \div Radix
    BY <2>1, FrameBytes
  <2>3. parser.length + Radix * Bytes(m)[TakenBy(parser) + 1] = Len(Code[m])
    BY <1>1, <2>1, <2>2, LengthFromBytes
  <2>4. next = Parser("Payload", Len(Code[m]), 0, << >>)
    <3>1. Len(Code[m]) \in 1..MaxPayload
      BY <1>1, BufferHasRoom
    <3> QED
      BY <1>4, <2>3, <3>1 DEF InjectByte
  <2>5. /\ next.state = "Payload" /\ next.length = Len(Code[m]) /\ next.index = 0
        /\ next.buffer = << >> /\ ~FrameReady(parser, next) /\ TakenBy(next) = 2
    BY <1>4, <2>4 DEF Parser, FrameReady, TakenBy
  <2>6. Holds(next, m)
    BY <2>5 DEF Holds
  <2> QED
    BY <1>1, <2>1, <2>5, <2>6
<1>5. CASE parser.state = "Payload"
  <2>1. /\ parser.length = Len(Code[m])
        /\ parser.buffer \in Seq(Nat) /\ Len(parser.buffer) = parser.index
        /\ \A j \in 1..parser.index : parser.buffer[j] = Code[m][j]
        /\ parser.index \in Nat /\ parser.index < Len(Code[m]) /\ parser.index < MaxPayload
    BY <1>5, BufferHasRoom DEF Holds, FrameInv, FrameInBuffer
  <2>2. TakenBy(parser) = 2 + parser.index
    BY <1>5 DEF TakenBy
  <2>3. Bytes(m)[TakenBy(parser) + 1] = Code[m][parser.index + 1]
    <3>1. parser.index + 1 \in 1..Len(Code[m]) /\ TakenBy(parser) + 1 = (parser.index + 1) + 2
      BY <1>1, <2>1, <2>2
    <3> QED
      BY <3>1, FrameBytes
  <2>4. PICK b \in Nat : b = Code[m][parser.index + 1]
    BY <1>1, <2>1
  <2>5. PICK buf \in Seq(Nat) :
           /\ buf = Append(parser.buffer, b) /\ Len(buf) = parser.index + 1
           /\ \A j \in 1..(parser.index + 1) : buf[j] = Code[m][j]
    <3>1. /\ Append(parser.buffer, b) \in Seq(Nat)
          /\ Len(Append(parser.buffer, b)) = parser.index + 1
          /\ \A j \in 1..parser.index : Append(parser.buffer, b)[j] = parser.buffer[j]
          /\ Append(parser.buffer, b)[parser.index + 1] = b
      BY <2>1
    <3>2. \A j \in 1..(parser.index + 1) : j \in 1..parser.index \/ j = parser.index + 1
      BY <2>1
    <3>3. \A j \in 1..(parser.index + 1) : Append(parser.buffer, b)[j] = Code[m][j]
      BY <2>1, <2>4, <3>1, <3>2
    <3> QED
      BY <3>1, <3>3
  <2>6. CASE parser.index + 1 >= parser.length
    <3>1. next = Parser("Len1", 0, parser.index + 1, buf)
      BY <1>5, <2>1, <2>3, <2>4, <2>5, <2>6 DEF InjectByte
    <3>2. /\ next.state = "Len1" /\ next.buffer = buf
          /\ FrameReady(parser, next) /\ TakenBy(next) = 0
      BY <1>5, <2>1, <3>1 DEF Parser, FrameReady, TakenBy
    <3>3. buf = Code[m]
      <4>1. Len(buf) = Len(Code[m])
        BY <1>1, <2>1, <2>5, <2>6
      <4> QED
        BY <1>1, <2>1, <2>5, <4>1, SeqEqual
    <3> QED
      BY <1>1, <2>1, <2>2, <2>6, <3>2, <3>3
  <2>7. CASE parser.index + 1 < parser.length
    <3>1. next = Parser("Payload", parser.length, parser.index + 1, buf)
      BY <1>5, <2>1, <2>3, <2>4, <2>5, <2>7 DEF InjectByte
    <3>2. /\ next.state = "Payload" /\ next.buffer = buf /\ next.index = parser.index + 1
          /\ next.length = parser.length
          /\ ~FrameReady(parser, next) /\ TakenBy(next) = 2 + (parser.index + 1)
      BY <2>1, <3>1 DEF Parser, FrameReady, TakenBy
    <3>3. Holds(next, m)
      BY <2>1, <2>5, <3>2 DEF Holds
    <3> QED
      BY <1>1, <2>1, <2>2, <3>2, <3>3, SMTT(30)
  <2> QED
    BY <2>1, <2>6, <2>7
<1> QED
  BY <1>2, <1>3, <1>4, <1>5

\* The payload of a command decodes to that command.
LEMMA DecodeCode ==
    ASSUME NEW m \in Commands PROVE Decode(Code[m]) = m
BY SerialConstants DEF Decode

\* A payload decodes to a command or to none.
LEMMA DecodeType ==
    ASSUME NEW x PROVE Decode(x) \in Commands \cup {Garbage}
BY DEF Decode

\* The lengths and elements of the three sequences.
LEMMA InboundElements ==
    ASSUME InboundTypes
    PROVE  /\ Len(sent) \in Nat /\ Len(handled) \in Nat /\ Len(wire) \in Nat
           /\ \A i \in 1..Len(sent) : sent[i] \in Commands /\ FrameLen(sent[i]) \in Nat
<1>1. \A i \in 1..Len(sent) : sent[i] \in Commands
  BY DEF InboundTypes
<1> QED
  BY <1>1, FrameBytes DEF InboundTypes

\* The server adds a frame at the end of the line.
LEMMA SendKeepsInbound ==
    ASSUME InboundInv, NEW m \in Commands, ServerSends(m)
    PROVE  InboundInv'
<1>1. /\ sent' = Append(sent, m) /\ wire' = wire \o Bytes(m)
      /\ UNCHANGED <<parser, handled>>
      /\ rxIntact' = (rxIntact /\ Len(Code[m]) <= MaxPayload)
  BY DEF ServerSends
<1>2. /\ InboundTypes /\ Bytes(m) \in Seq(Nat) /\ Len(Bytes(m)) = FrameLen(m)
      /\ FrameLen(m) \in Nat
  BY FrameBytes DEF InboundInv
<1>3. PICK k \in Nat, n \in Nat, l \in Nat : k = Len(handled) /\ n = Len(sent) /\ l = Len(wire)
  BY <1>2, InboundElements
<1>4. /\ sent' \in Seq(Commands) /\ Len(sent') = n + 1 /\ sent'[n + 1] = m
      /\ \A i \in 1..n : sent'[i] = sent[i]
  BY <1>1, <1>2, <1>3 DEF InboundTypes
<1>5. /\ wire' \in Seq(Nat) /\ Len(wire') = l + FrameLen(m)
      /\ \A p \in 1..l : wire'[p] = wire[p]
      /\ \A j \in 1..FrameLen(m) : wire'[l + j] = Bytes(m)[j]
  <2>1. /\ wire' \in Seq(Nat) /\ Len(wire') = Len(wire) + Len(Bytes(m))
        /\ \A i \in 1..Len(wire) + Len(Bytes(m)) :
             wire'[i] = IF i <= Len(wire) THEN wire[i] ELSE Bytes(m)[i - Len(wire)]
    BY <1>1, <1>2, ConcatProperties, Zenon DEF InboundTypes
  <2>2. /\ Len(wire') = l + FrameLen(m)
        /\ \A i \in 1..(l + FrameLen(m)) :
             wire'[i] = IF i <= l THEN wire[i] ELSE Bytes(m)[i - l]
    BY <1>2, <1>3, <2>1
  <2> QED
    BY <1>2, <2>1, <2>2, SMTT(30)
<1>6. InboundTypes'
  BY <1>1, <1>2, <1>4, <1>5 DEF InboundTypes, FrameInv, FrameInBuffer
<1>7. ASSUME rxIntact' PROVE Intact(k, n + 1, sent', handled, wire', l + FrameLen(m), parser)
  <2>1. Intact(k, n, sent, handled, wire, l, parser) /\ Len(Code[m]) <= MaxPayload
    BY <1>1, <1>3, <1>7 DEF InboundInv
  <2>2. Placed(k, n, sent, wire, l, TakenBy(parser)) /\ k <= n
    BY <2>1 DEF Intact
  <2>3. AllFrames(sent, n)
    BY <1>2, <1>3, InboundElements DEF AllFrames
  <2>4. OneMore(sent', sent, n, m) /\ FrameAdded(wire', wire, l, m)
    BY <1>4, <1>5 DEF OneMore, FrameAdded
  <2>5. Placed(k, n + 1, sent', wire', l + FrameLen(m), TakenBy(parser))
    BY <1>2, <2>2, <2>3, <2>4, LineGrows, Zenon
  <2>6. \A i \in 1..k : handled[i] = sent'[i]
    <3>1. \A i \in 1..k : i \in 1..n
      BY <2>2
    <3>2. \A i \in 1..k : handled[i] = sent[i]
      BY <2>1 DEF Intact
    <3> QED
      BY <1>4, <3>1, <3>2
  <2>7. \A i \in 1..(n + 1) : Len(Code[sent'[i]]) <= MaxPayload
    <3>1. \A i \in 1..(n + 1) : i = n + 1 \/ i \in 1..n
      OBVIOUS
    <3> QED
      BY <1>4, <2>1, <3>1 DEF Intact
  <2>8. parser.state # "Len1" => k < n + 1 /\ Holds(parser, sent'[k + 1])
    <3>1. parser.state # "Len1" => k < n /\ Holds(parser, sent[k + 1])
      BY <2>1 DEF Intact
    <3>2. k < n => sent'[k + 1] = sent[k + 1]
      <4>1. k < n => k + 1 \in 1..n
        OBVIOUS
      <4> QED
        BY <1>4, <4>1
    <3> QED
      BY <3>1, <3>2
  <2> QED
    BY <2>2, <2>5, <2>6, <2>7, <2>8 DEF Intact
<1>8. rxIntact' => Intact(Len(handled'), Len(sent'), sent', handled', wire', Len(wire'), parser')
  BY <1>1, <1>3, <1>4, <1>5, <1>7
<1> QED
  BY <1>6, <1>8 DEF InboundInv, Intact, Holds, Placed, OnLine, TakenBy, Bytes, FrameLen

\* What both sides of a comparison have in common.
LEMMA TwoMore == \A x, c \in Nat : x < c => 2 + x < 2 + c
  OBVIOUS

\* With nothing on the line the parser is between frames and everything sent
\* is handled.
LEMMA EmptyLine ==
    ASSUME NEW k \in Nat, NEW n \in Nat, NEW s, NEW h, NEW w, NEW p,
           p.state \in {"Len1", "Len2", "Payload"}, p.index \in Nat,
           p.state = "Payload" => p.index < p.length,
           \A i \in 1..n : s[i] \in Commands,
           Intact(k, n, s, h, w, 0, p)
    PROVE  k = n /\ p.state = "Len1" /\ TakenBy(p) = 0
<1>1. PICK off \in [Nat -> Int] : OnLine(k, n, s, w, 0, TakenBy(p), off)
  BY DEF Intact, Placed
<1>2. k <= n /\ (p.state # "Len1" => k < n /\ Holds(p, s[k + 1]))
  BY DEF Intact
<1>3. TakenBy(p) \in Nat
  BY DEF TakenBy
<1>4. ASSUME k < n PROVE FALSE
  <2>1. /\ k + 1 \in (k + 1)..n /\ k + 1 \in k..n /\ k + 1 \in 1..n /\ (k + 1) - 1 = k
    BY <1>4
  <2>2. /\ off[k] = 0 - TakenBy(p) /\ off[k + 1] <= 0
        /\ off[k + 1] = off[k] + FrameLen(s[k + 1])
    BY <1>1, <2>1 DEF OnLine
  <2>3. /\ FrameLen(s[k + 1]) = 2 + Len(Code[s[k + 1]])
        /\ Len(Code[s[k + 1]]) \in Nat /\ Len(Code[s[k + 1]]) > 0
    BY <2>1, FrameBytes DEF FrameLen
  <2>4. TakenBy(p) < FrameLen(s[k + 1])
    <3>1. CASE p.state = "Payload"
      <4>1. p.length = Len(Code[s[k + 1]])
        BY <1>2, <3>1 DEF Holds
      <4>2. TakenBy(p) = 2 + p.index /\ p.index < p.length
        BY <3>1 DEF TakenBy
      <4>3. PICK c \in Nat : c = Len(Code[s[k + 1]])
        BY <2>3
      <4>4. TakenBy(p) = 2 + p.index /\ p.index < c /\ FrameLen(s[k + 1]) = 2 + c
        BY <2>3, <4>1, <4>2, <4>3, Zenon
      <4>5. PICK x \in Nat : x = p.index
        OBVIOUS
      <4> QED
        BY <4>4, <4>5, TwoMore, Zenon
    <3>2. CASE p.state # "Payload"
      <4>1. TakenBy(p) \in {0, 1}
        BY <3>2 DEF TakenBy
      <4>2. PICK c \in Nat : c = Len(Code[s[k + 1]])
        BY <2>3
      <4>3. 0 < 2 + c /\ 1 < 2 + c
        BY <4>2
      <4> QED
        BY <2>3, <4>1, <4>2, <4>3
    <3> QED
      BY <3>1, <3>2
  <2>5. PICK t \in Nat : t = TakenBy(p)
    BY <1>3
  <2>6. PICK fl \in Nat : fl = FrameLen(s[k + 1])
    BY <2>3
  <2>7. (0 - t) + fl <= 0 /\ t < fl
    BY <2>2, <2>4, <2>5, <2>6, Zenon
  <2> QED
    BY <2>5, <2>6, <2>7
<1> QED
  BY <1>2, <1>4 DEF TakenBy

\* What is handled after a byte is read from an intact line.
LEMMA ReadIntact ==
    ASSUME NEW k \in Nat, NEW n \in Nat, NEW l \in Nat, l > 0,
           NEW s, NEW h, NEW w, NEW w1, NEW h1, NEW next,
           FrameInv, \A i \in 1..n : s[i] \in Commands,
           Intact(k, n, s, h, w, l, parser),
           next = InjectByte(parser, w[1]),
           \A q \in 1..(l - 1) : w1[q] = w[q + 1],
           IF FrameReady(parser, next)
           THEN h1[k + 1] = Decode(next.buffer) /\ \A i \in 1..k : h1[i] = h[i]
           ELSE h1 = h,
           NEW p1, p1 = next \/ (FrameReady(parser, next) /\ p1 = Idle)
    PROVE  Intact(IF FrameReady(parser, next) THEN k + 1 ELSE k, n, s, h1, w1, l - 1, p1)
<1>1. PICK off \in [Nat -> Int] : OnLine(k, n, s, w, l, TakenBy(parser), off)
  BY DEF Intact, Placed
<1>2. k <= n /\ (parser.state # "Len1" => k < n /\ Holds(parser, s[k + 1]))
  BY DEF Intact
<1>3. TakenBy(parser) \in Nat /\ off[k] = 0 - TakenBy(parser) /\ off[n] = l
  <2>1. parser.state \in {"Len1", "Len2", "Payload"} /\ parser.index \in Nat
    BY BufferHasRoom DEF FrameInv, FrameInBuffer
  <2> QED
    BY <1>1, <2>1 DEF TakenBy, OnLine
<1>4. k < n
  BY <1>2, <1>3
<1>5. /\ k + 1 \in (k + 1)..n /\ k + 1 \in 1..n /\ (k + 1) - 1 = k
  BY <1>4
<1>6. PICK m \in Commands : m = s[k + 1]
  BY <1>5
<1>7. FrameLen(m) \in Nat /\ Len(Code[m]) <= MaxPayload
  BY <1>5, <1>6, FrameBytes DEF Intact
<1>8. TakenBy(parser) < FrameLen(m)
  BY <1>2, <1>6, <1>7, ParserTakes
<1>9. w[1] = Bytes(m)[TakenBy(parser) + 1]
  <2>1. TakenBy(parser) + 1 \in 1..FrameLen(m) /\ off[k] + (TakenBy(parser) + 1) = 1
    <3>1. PICK t \in Nat, f \in Nat : t = TakenBy(parser) /\ f = FrameLen(m) /\ t < f
      BY <1>3, <1>7, <1>8
    <3> QED
      BY <1>3, <3>1
  <2> QED
    BY <1>1, <1>5, <1>6, <2>1 DEF OnLine
<1>10. \/ /\ ~FrameReady(parser, next) /\ next.state # "Len1" /\ Holds(next, m)
          /\ TakenBy(next) = TakenBy(parser) + 1
       \/ /\ FrameReady(parser, next) /\ next.state = "Len1" /\ TakenBy(next) = 0
          /\ TakenBy(parser) + 1 = FrameLen(m) /\ next.buffer = Code[m]
  BY <1>2, <1>6, <1>7, <1>9, ParserTakes
<1>11. AllFrames(s, n) /\ ByteGone(w1, w, l) /\ Placed(k, n, s, w, l, TakenBy(parser))
  BY FrameBytes DEF AllFrames, ByteGone, Intact
<1>12. \A i \in 1..n : Len(Code[s[i]]) <= MaxPayload
  BY DEF Intact
<1>13. CASE ~FrameReady(parser, next)
  <2>1. p1 = next /\ h1 = h /\ next.state # "Len1" /\ Holds(next, m)
        /\ TakenBy(next) = TakenBy(parser) + 1
    BY <1>10, <1>13
  <2>2. Placed(k, n, s, w1, l - 1, TakenBy(parser) + 1)
    BY <1>3, <1>4, <1>11, LineShrinks, Zenon
  <2>3. \A i \in 1..k : h[i] = s[i]
    BY DEF Intact
  <2>4. Intact(k, n, s, h1, w1, l - 1, p1)
    BY <1>2, <1>4, <1>6, <1>12, <2>1, <2>2, <2>3 DEF Intact
  <2> QED
    BY <1>13, <2>4
<1>14. CASE FrameReady(parser, next)
  <2>1. next.state = "Len1" /\ TakenBy(next) = 0 /\ TakenBy(parser) + 1 = FrameLen(m)
        /\ next.buffer = Code[m]
    BY <1>10, <1>14
  <2>2. h1[k + 1] = m /\ \A i \in 1..k : h1[i] = h[i]
    BY <1>14, <2>1, DecodeCode
  <2>3. p1.state = "Len1" /\ TakenBy(p1) = 0
    BY <2>1 DEF Idle, Parser, TakenBy
  <2>4. Placed(k + 1, n, s, w1, l - 1, 0)
    BY <1>3, <1>4, <1>6, <1>11, <2>1, LineShrinks, Zenon
  <2>5. \A i \in 1..(k + 1) : h1[i] = s[i]
    <3>1. \A i \in 1..(k + 1) : i = k + 1 \/ i \in 1..k
      OBVIOUS
    <3>2. \A i \in 1..k : h[i] = s[i]
      BY DEF Intact
    <3> QED
      BY <1>6, <2>2, <3>1, <3>2
  <2>6. Intact(k + 1, n, s, h1, w1, l - 1, p1)
    BY <1>4, <1>12, <2>3, <2>4, <2>5 DEF Intact
  <2> QED
    BY <1>14, <2>6
<1> QED
  BY <1>13, <1>14

\* A byte is read, and with the last byte of a frame its command is handled
\* (SerialAdapter::loop).
LEMMA ReadKeepsInbound == ASSUME InboundInv, ReadByte PROVE InboundInv'
<1> DEFINE next  == InjectByte(parser, Head(wire))
           ready == FrameReady(parser, next)
           frame == Decode(next.buffer)
           e     == IF ready /\ frame /= Garbage
                    THEN HandleCompleteFrame(Fields[frame]) ELSE NoEffect
<1>1. /\ wire # << >>
      /\ parser' = IF e.restart THEN Idle ELSE next
      /\ handled' = IF ready THEN Append(handled, frame) ELSE handled
      /\ Apply(e, "hk", Tail(wire))
      /\ sent' = sent
  BY DEF ReadByte, Readable
<1>2. ~ready => ~e.restart
  BY DEF NoEffect
<1>3. /\ wire' = Tail(wire) \/ wire' = << >>
      /\ rxIntact' => rxIntact /\ wire' = Tail(wire)
      /\ rxIntact' \in BOOLEAN
  BY <1>1 DEF Apply, InboundInv, InboundTypes
<1>4. parser' = next \/ (ready /\ parser' = Idle)
  BY <1>1, <1>2
<1> HIDE DEF e
<1>5. InboundTypes /\ frame \in Commands \cup {Garbage}
  BY DecodeType DEF InboundInv
<1>6. PICK k \in Nat, n \in Nat, l \in Nat :
         /\ k = Len(handled) /\ n = Len(sent) /\ l = Len(wire)
         /\ \A i \in 1..n : sent[i] \in Commands
  BY <1>5, InboundElements
<1>7. /\ Tail(wire) \in Seq(Nat) /\ Len(Tail(wire)) = l - 1 /\ l > 0 /\ Head(wire) = wire[1]
      /\ \A q \in 1..(l - 1) : Tail(wire)[q] = wire[q + 1]
  BY <1>1, <1>5, <1>6 DEF InboundTypes
<1>8. /\ handled' \in Seq(Commands \cup {Garbage})
      /\ IF ready THEN /\ Len(handled') = k + 1 /\ handled'[k + 1] = frame
                       /\ \A i \in 1..k : handled'[i] = handled[i]
                  ELSE handled' = handled
  <2>1. handled \in Seq(Commands \cup {Garbage})
    BY <1>5 DEF InboundTypes
  <2> HIDE DEF frame, ready
  <2> QED
    BY <1>1, <1>5, <1>6, <2>1
<1>9. InboundTypes'
  <2>1. FrameInv'
    BY <1>4, <1>5, IdleIsFramed, InjectByteFramed DEF InboundTypes
  <2>2. << >> \in Seq(Nat)
    OBVIOUS
  <2>3. wire' \in Seq(Nat)
    BY <1>3, <1>7, <2>2
  <2> QED
    BY <1>1, <1>3, <1>5, <1>8, <2>1, <2>3 DEF InboundTypes
<1>10. ASSUME rxIntact'
       PROVE  Intact(Len(handled'), Len(sent'), sent', handled', wire', Len(wire'), parser')
  <2>1. Intact(k, n, sent, handled, wire, l, parser) /\ wire' = Tail(wire)
    BY <1>3, <1>6, <1>10 DEF InboundInv
  <2>2. FrameInv /\ next = InjectByte(parser, wire[1])
    BY <1>5, <1>7 DEF InboundTypes
  <2>3. IF ready THEN handled'[k + 1] = Decode(next.buffer) /\ \A i \in 1..k : handled'[i] = handled[i]
                 ELSE handled' = handled
    BY <1>8
  <2>4. PICK nx, w1, h1, p1 : nx = next /\ w1 = wire' /\ h1 = handled' /\ p1 = parser'
    OBVIOUS
  <2>5. /\ \A q \in 1..(l - 1) : w1[q] = wire[q + 1]
        /\ IF FrameReady(parser, nx)
           THEN h1[k + 1] = Decode(nx.buffer) /\ \A i \in 1..k : h1[i] = handled[i]
           ELSE h1 = handled
        /\ p1 = nx \/ (FrameReady(parser, nx) /\ p1 = Idle)
        /\ nx = InjectByte(parser, wire[1])
    BY <1>4, <1>7, <2>1, <2>2, <2>3, <2>4
  <2>6. Intact(IF FrameReady(parser, nx) THEN k + 1 ELSE k, n, sent, h1, w1, l - 1, p1)
    BY <1>6, <1>7, <2>1, <2>2, <2>5, ReadIntact, ZenonT(60)
  <2>7. Len(handled') = IF FrameReady(parser, nx) THEN k + 1 ELSE k
    BY <1>6, <1>8, <2>4
  <2> QED
    BY <1>1, <1>6, <1>7, <2>1, <2>4, <2>6, <2>7
<1> QED
  BY <1>9, <1>10 DEF InboundInv, Intact, Holds, Placed, OnLine, TakenBy, Bytes, FrameLen

\* Every effect names its requests to the mesh and whether it restarts.
LEMMA EffectDomain ==
    ASSUME NEW m, NEW rebroadcast
    PROVE  {"restart", "toMesh"} \subseteq DOMAIN DispatchControlOp(m, rebroadcast)
<1>1. {"restart", "toMesh"} \subseteq DOMAIN NoEffect
  BY DEF NoEffect
<1>2. {"restart", "toMesh"} \subseteq DOMAIN SelfHealth
  BY <1>1 DEF SelfHealth
<1>3. {"restart", "toMesh"} \subseteq DOMAIN OpTxPowerSet(m, rebroadcast)
  BY <1>1 DEF OpTxPowerSet
<1> QED
  BY <1>1, <1>2, <1>3 DEF DispatchControlOp

\* A restart on the mesh task's account leaves an empty line intact only if
\* the parser was between two frames.
LEMMA MeshKeepsInbound ==
    ASSUME InboundInv, NEW m \in FromMesh, MeshDelivers(m) PROVE InboundInv'
<1>1. /\ UNCHANGED <<sent, handled>>
      /\ \/ UNCHANGED <<wire, parser, rxIntact>>
         \/ /\ parser' \in {parser, Idle} /\ wire' \in {wire, << >>}
            /\ rxIntact' = (rxIntact /\ wire = << >>)
  <2> DEFINE control == IF Fields[m].serial THEN DispatchControlOp(Fields[m], FALSE)
                        ELSE NoEffect
             forward == IF config.adapter = "SERIAL" THEN <<m>> ELSE << >>
             e == [control EXCEPT !.out = @ \o forward]
  <2>1. "restart" \in DOMAIN control
    BY EffectDomain DEF NoEffect
  <2>2. /\ Apply(e, "mesh", wire) /\ parser' = IF control.restart THEN Idle ELSE parser
        /\ UNCHANGED <<sent, handled>>
    BY DEF MeshDelivers
  <2>3. e.restart = control.restart
    <3> HIDE DEF control
    <3> QED
      BY <2>1
  <2> HIDE DEF control, e
  <2> QED
    BY <2>2, <2>3 DEF Apply
<1>2. CASE UNCHANGED <<wire, parser, rxIntact>>
  BY <1>1, <1>2 DEF InboundInv, InboundTypes, FrameInv, FrameInBuffer, Intact, Holds, Placed,
     OnLine, TakenBy
<1>3. CASE /\ parser' \in {parser, Idle} /\ wire' \in {wire, << >>}
           /\ rxIntact' = (rxIntact /\ wire = << >>)
  <2>1. InboundTypes'
    <3>1. FrameInv'
      BY <1>3, IdleIsFramed DEF InboundInv, InboundTypes, FrameInv, FrameInBuffer
    <3>2. << >> \in Seq(Nat)
      OBVIOUS
    <3>3. wire' \in Seq(Nat)
      BY <1>3, <3>2 DEF InboundInv, InboundTypes
    <3> QED
      BY <1>1, <1>3, <3>1, <3>3 DEF InboundInv, InboundTypes
  <2>2. ASSUME rxIntact'
        PROVE  Intact(Len(handled'), Len(sent'), sent', handled', wire', Len(wire'), parser')
    <3>1. PICK k \in Nat, n \in Nat :
             /\ k = Len(handled) /\ n = Len(sent)
             /\ \A i \in 1..n : sent[i] \in Commands
      BY InboundElements DEF InboundInv
    <3>2. wire = << >> /\ wire' = << >> /\ Len(wire) = 0
          /\ Intact(k, n, sent, handled, wire, 0, parser)
      BY <1>3, <2>2, <3>1 DEF InboundInv
    <3>3. /\ parser.state \in {"Len1", "Len2", "Payload"} /\ parser.index \in Nat
          /\ parser.state = "Payload" => parser.index < parser.length
      BY BufferHasRoom DEF InboundInv, InboundTypes, FrameInv, FrameInBuffer
    <3>4. k = n /\ parser.state = "Len1" /\ TakenBy(parser) = 0
      BY <3>1, <3>2, <3>3, EmptyLine
    <3>5. parser'.state = "Len1" /\ TakenBy(parser') = 0
      BY <1>3, <3>4 DEF Idle, Parser, TakenBy
    <3>6. Intact(k, n, sent, handled, wire, 0, parser')
      BY <3>2, <3>4, <3>5 DEF Intact
    <3> QED
      BY <1>1, <3>1, <3>2, <3>6
  <2> QED
    BY <2>1, <2>2 DEF InboundInv, Intact, Holds, Placed, OnLine, TakenBy, Bytes, FrameLen
<1> QED
  BY <1>1, <1>2, <1>3

\* While no byte is lost or refused, the line, the parser and the handled
\* commands together are what the server sent (SerialFraming::injectByte,
\* SerialAdapter::loop).
THEOREM InboundInvariant == Spec => []InboundInv
<1>1. Init => InboundInv
  <2> SUFFICES ASSUME Init PROVE InboundInv
    OBVIOUS
  <2>1. FrameInv
    BY BufferHasRoom DEF Init, Idle, Parser, FrameInv, FrameInBuffer
  <2>2. /\ wire = << >> /\ sent = << >> /\ handled = << >> /\ rxIntact = TRUE
        /\ parser.state = "Len1" /\ TakenBy(parser) = 0
    BY DEF Init, Idle, Parser, TakenBy
  <2>3. Placed(0, 0, sent, wire, 0, 0)
    <3> DEFINE zero == [i \in Nat |-> 0]
    <3>1. zero \in [Nat -> Int] /\ zero[0] = 0
      OBVIOUS
    <3> HIDE DEF zero
    <3>2. \A i \in 0..0 : i = 0
      OBVIOUS
    <3>3. ASSUME NEW i \in (0 + 1)..0 PROVE FALSE
      BY <3>3
    <3>4. 0 - 0 = 0
      OBVIOUS
    <3>5. OnLine(0, 0, sent, wire, 0, 0, zero)
      BY <3>1, <3>2, <3>3, <3>4 DEF OnLine
    <3> QED
      BY <3>1, <3>5 DEF Placed
  <2>4. Len(wire) = 0 /\ Len(sent) = 0 /\ Len(handled) = 0
    BY <2>2
  <2>5. Intact(0, 0, sent, handled, wire, 0, parser)
    BY <2>2, <2>3 DEF Intact
  <2>6. InboundTypes
    BY <2>1, <2>2 DEF InboundTypes
  <2> QED
    BY <2>4, <2>5, <2>6 DEF InboundInv
<1>2. InboundInv /\ [Next]_vars => InboundInv'
  <2> SUFFICES ASSUME InboundInv, [Next]_vars PROVE InboundInv'
    OBVIOUS
  <2>1. CASE UNCHANGED <<wire, parser, sent, handled, rxIntact>>
    BY <2>1 DEF InboundInv, InboundTypes, FrameInv, FrameInBuffer, Intact, Holds, Placed,
       OnLine, TakenBy
  <2>2. CASE LoseByte
    <3>1. /\ wire # << >> /\ wire' = Tail(wire) /\ rxIntact' = FALSE
          /\ UNCHANGED <<parser, sent, handled>>
      BY <2>2 DEF LoseByte
    <3>2. wire' \in Seq(Nat)
      BY <3>1 DEF InboundInv, InboundTypes
    <3> QED
      BY <3>1, <3>2 DEF InboundInv, InboundTypes, FrameInv, FrameInBuffer
  <2> QED
    BY <2>1, <2>2, SendKeepsInbound, ReadKeepsInbound, MeshKeepsInbound
       DEF Next, vars, HealthTick, RelayEnrollment, WriteLength, WritePayload
<1> QED
  BY <1>1, <1>2, PTL DEF Spec

\* On an intact line the frames handled are the commands sent, in order, none
\* merged, split or skipped, and all of them once the line is read to its end
\* (SerialFraming.cpp:125-170).
THEOREM InboundStaysExact == Spec => []InboundExact
<1>1. InboundInv => InboundExact
  <2> SUFFICES ASSUME InboundInv, rxIntact
               PROVE  /\ Len(handled) <= Len(sent) /\ handled = SubSeq(sent, 1, Len(handled))
                      /\ wire = << >> => handled = sent
    BY DEF InboundExact
  <2>1. InboundTypes /\ Intact(Len(handled), Len(sent), sent, handled, wire, Len(wire), parser)
    BY DEF InboundInv
  <2>2. PICK k \in Nat, n \in Nat :
           /\ k = Len(handled) /\ n = Len(sent)
           /\ \A i \in 1..n : sent[i] \in Commands
    BY <2>1, InboundElements
  <2>3. k <= n /\ \A i \in 1..k : handled[i] = sent[i]
    BY <2>1, <2>2 DEF Intact
  <2>4. handled = SubSeq(sent, 1, k)
    <3>1. /\ SubSeq(sent, 1, k) \in Seq(Commands \cup {Garbage}) /\ Len(SubSeq(sent, 1, k)) = k
          /\ \A i \in 1..k : SubSeq(sent, 1, k)[i] = sent[i]
      BY <2>1, <2>2, <2>3 DEF InboundTypes
    <3>2. handled \in Seq(Commands \cup {Garbage})
      BY <2>1 DEF InboundTypes
    <3> QED
      BY <2>2, <2>3, <3>1, <3>2, SeqEqual
  <2>5. ASSUME wire = << >> PROVE handled = sent
    <3>1. /\ parser.state \in {"Len1", "Len2", "Payload"} /\ parser.index \in Nat
          /\ parser.state = "Payload" => parser.index < parser.length
      BY <2>1, BufferHasRoom DEF InboundTypes, FrameInv, FrameInBuffer
    <3>2. Intact(k, n, sent, handled, wire, 0, parser)
      BY <2>1, <2>2, <2>5
    <3>3. k = n
      BY <2>2, <3>1, <3>2, EmptyLine
    <3>4. sent \in Seq(Commands \cup {Garbage}) /\ handled \in Seq(Commands \cup {Garbage})
      BY <2>1 DEF InboundTypes
    <3> QED
      BY <2>2, <2>3, <3>3, <3>4, SeqEqual
  <2> QED
    BY <2>2, <2>3, <2>4, <2>5
<1> QED
  BY <1>1, InboundInvariant, PTL

-----------------------------------------------------------------------------
(***************************************************************************)
(* Power presets.                                                          *)
(***************************************************************************)

\* What the adapter asks of the mesh.
Requests == {"broadcast health", "uplink health", "broadcast power", "transmit", "broadcast",
             "downlink", "enroll", "enroll with secondary"}

IsPower(m) == m # Garbage /\ Fields[m].op = "TX_POWER_SET"

PowerRequests(r) == {i \in 1..Len(r) : r[i] = "broadcast power"}
PowerCommands(h) == {i \in 1..Len(h) : IsPower(h[i])}

PowerInv ==
    /\ toMesh \in Seq(Requests) /\ handled \in Seq(Commands \cup {Garbage})
    /\ Cardinality(PowerRequests(toMesh)) <= 2 * Cardinality(PowerCommands(handled))

\* Both sets of places are finite.
LEMMA PowerFinite ==
    /\ \A r \in Seq(Requests) : IsFiniteSet(PowerRequests(r)) /\ Cardinality(PowerRequests(r)) \in Nat
    /\ \A h \in Seq(Commands \cup {Garbage}) :
         IsFiniteSet(PowerCommands(h)) /\ Cardinality(PowerCommands(h)) \in Nat
<1>1. ASSUME NEW n \in Nat, NEW S, S \subseteq 1..n PROVE IsFiniteSet(S) /\ Cardinality(S) \in Nat
  <2>1. IsFiniteSet(1..n)
    BY FS_Interval
  <2> QED
    BY <1>1, <2>1, FS_Subset, FS_CardinalityType
<1>2. ASSUME NEW r \in Seq(Requests) PROVE PowerRequests(r) \subseteq 1..Len(r) /\ Len(r) \in Nat
  <2>1. PowerRequests(r) \subseteq 1..Len(r)
    BY Zenon DEF PowerRequests
  <2> QED
    BY <2>1
<1>3. ASSUME NEW h \in Seq(Commands \cup {Garbage})
      PROVE  PowerCommands(h) \subseteq 1..Len(h) /\ Len(h) \in Nat
  BY DEF PowerCommands
<1> QED
  BY <1>1, <1>2, <1>3

\* One or two requests more are at most as many presets more, and none if
\* there is none among them.
LEMMA RequestsGrow ==
    ASSUME NEW r \in Seq(Requests), NEW x \in Seq(Requests), Len(x) <= 2
    PROVE  /\ r \o x \in Seq(Requests)
           /\ Cardinality(PowerRequests(r \o x)) <= Cardinality(PowerRequests(r)) + 2
           /\ (\A i \in 1..Len(x) : x[i] # "broadcast power") =>
                Cardinality(PowerRequests(r \o x)) = Cardinality(PowerRequests(r))
<1>1. PICK n \in Nat, l \in Nat : n = Len(r) /\ l = Len(x) /\ l <= 2
  OBVIOUS
<1>2. /\ r \o x \in Seq(Requests) /\ Len(r \o x) = n + l
      /\ \A i \in 1..(n + l) : (r \o x)[i] = IF i <= n THEN r[i] ELSE x[i - n]
  <2>1. /\ r \o x \in Seq(Requests) /\ Len(r \o x) = Len(r) + Len(x)
        /\ \A i \in 1..Len(r) + Len(x) :
             (r \o x)[i] = IF i <= Len(r) THEN r[i] ELSE x[i - Len(r)]
    BY ConcatProperties, Zenon
  <2> QED
    BY <1>1, <2>1
<1> DEFINE P == PowerRequests(r)
           Q == PowerRequests(r \o x)
<1>3. IsFiniteSet(P) /\ Cardinality(P) \in Nat /\ IsFiniteSet(Q) /\ Cardinality(Q) \in Nat
  BY <1>2, PowerFinite
<1>4. /\ P = {i \in 1..n : r[i] = "broadcast power"}
      /\ Q = {i \in 1..(n + l) : (r \o x)[i] = "broadcast power"}
  BY <1>1, <1>2 DEF PowerRequests
<1> HIDE DEF P, Q
<1>5. Q \subseteq (P \cup {n + 1}) \cup {n + 2}
  <2>1. ASSUME NEW i \in 1..(n + l), i # n + 1, i # n + 2 PROVE i \in 1..n /\ (r \o x)[i] = r[i]
    <3>1. i \in 1..n
      BY <1>1, <2>1
    <3> QED
      BY <1>2, <3>1
  <2> QED
    BY <1>4, <2>1
<1>6. /\ IsFiniteSet((P \cup {n + 1}) \cup {n + 2})
      /\ Cardinality((P \cup {n + 1}) \cup {n + 2}) <= Cardinality(P) + 2
  <2>1. ASSUME NEW S, IsFiniteSet(S), NEW y
        PROVE  IsFiniteSet(S \cup {y}) /\ Cardinality(S \cup {y}) <= Cardinality(S) + 1
    <3>1. IsFiniteSet(S \cup {y}) /\ Cardinality(S) \in Nat
      BY <2>1, FS_AddElement, FS_CardinalityType
    <3>2. Cardinality(S \cup {y}) = Cardinality(S) \/ Cardinality(S \cup {y}) = Cardinality(S) + 1
      BY <2>1, FS_AddElement
    <3> QED
      BY <3>1, <3>2
  <2>2. PICK S : S = P \cup {n + 1}
    OBVIOUS
  <2>3. IsFiniteSet(S) /\ Cardinality(S) <= Cardinality(P) + 1 /\ Cardinality(S) \in Nat
    BY <1>3, <2>1, <2>2, FS_CardinalityType
  <2>4. /\ IsFiniteSet(S \cup {n + 2}) /\ Cardinality(S \cup {n + 2}) <= Cardinality(S) + 1
        /\ Cardinality(S \cup {n + 2}) \in Nat
    BY <2>1, <2>3, FS_CardinalityType
  <2>5. Cardinality(S \cup {n + 2}) <= Cardinality(P) + 2
    BY <1>3, <2>3, <2>4
  <2> QED
    BY <2>2, <2>4, <2>5
<1>7. Cardinality(Q) <= Cardinality(P) + 2
  <2>1. Cardinality(Q) <= Cardinality((P \cup {n + 1}) \cup {n + 2})
    BY <1>5, <1>6, FS_Subset
  <2>2. Cardinality((P \cup {n + 1}) \cup {n + 2}) \in Nat
    BY <1>6, FS_CardinalityType
  <2> QED
    BY <1>3, <1>6, <2>1, <2>2
<1>8. ASSUME \A i \in 1..Len(x) : x[i] # "broadcast power" PROVE Q = P
  <2>1. ASSUME NEW i \in 1..(n + l), (r \o x)[i] = "broadcast power"
        PROVE  i \in 1..n /\ r[i] = "broadcast power"
    <3>1. CASE i <= n
      <4>1. i \in 1..n
        BY <3>1
      <4>2. (r \o x)[i] = r[i]
        BY <1>2, <3>1
      <4> QED
        BY <2>1, <4>1, <4>2
    <3>2. CASE ~(i <= n)
      <4>1. i - n \in 1..l
        BY <3>2
      <4>2. (r \o x)[i] = x[i - n]
        BY <1>2, <3>2
      <4> QED
        BY <1>1, <1>8, <2>1, <4>1, <4>2
    <3> QED
      BY <3>1, <3>2
  <2>2. ASSUME NEW i \in 1..n PROVE i \in 1..(n + l) /\ (r \o x)[i] = r[i]
    <3>1. i \in 1..(n + l) /\ i <= n
      OBVIOUS
    <3> QED
      BY <1>2, <3>1
  <2> QED
    BY <1>4, <2>1, <2>2
<1> QED
  BY <1>2, <1>7, <1>8 DEF P, Q

\* A handled frame counts if it is a preset.
LEMMA CommandsGrow ==
    ASSUME NEW h \in Seq(Commands \cup {Garbage}), NEW m \in Commands \cup {Garbage}
    PROVE  /\ Append(h, m) \in Seq(Commands \cup {Garbage})
           /\ Cardinality(PowerCommands(Append(h, m))) >= Cardinality(PowerCommands(h))
           /\ IsPower(m) =>
                Cardinality(PowerCommands(Append(h, m))) = Cardinality(PowerCommands(h)) + 1
<1>1. PICK n \in Nat : n = Len(h)
  OBVIOUS
<1>2. /\ Append(h, m) \in Seq(Commands \cup {Garbage}) /\ Len(Append(h, m)) = n + 1
      /\ \A i \in 1..n : Append(h, m)[i] = h[i]
      /\ Append(h, m)[n + 1] = m
  BY <1>1
<1> DEFINE P == PowerCommands(h)
           Q == PowerCommands(Append(h, m))
<1>3. IsFiniteSet(P) /\ Cardinality(P) \in Nat /\ IsFiniteSet(Q) /\ Cardinality(Q) \in Nat
  BY <1>2, PowerFinite
<1>4. /\ P = {i \in 1..n : IsPower(h[i])}
      /\ Q = {i \in 1..(n + 1) : IsPower(Append(h, m)[i])}
  BY <1>1, <1>2 DEF PowerCommands
<1> HIDE DEF P, Q
<1>5. P \subseteq Q /\ n + 1 \notin P
  <2>1. ASSUME NEW i \in P PROVE i \in Q /\ i # n + 1
    <3>1. i \in 1..n /\ IsPower(h[i]) /\ i \in 1..(n + 1)
      BY <1>4
    <3> QED
      BY <1>2, <1>4, <3>1
  <2> QED
    BY <2>1
<1>6. IsPower(m) => Q = P \cup {n + 1}
  <2>1. ASSUME NEW i \in 1..(n + 1), i # n + 1 PROVE i \in 1..n /\ Append(h, m)[i] = h[i]
    <3>1. i \in 1..n
      BY <2>1
    <3> QED
      BY <1>2, <3>1
  <2>2. IsPower(m) => n + 1 \in Q
    BY <1>2, <1>4
  <2> QED
    BY <1>4, <1>5, <2>1, <2>2
<1>7. Cardinality(Q) >= Cardinality(P)
  BY <1>3, <1>5, FS_Subset
<1>8. Cardinality(P \cup {n + 1}) = Cardinality(P) + 1
  BY <1>3, <1>5, FS_AddElement
<1> QED
  BY <1>2, <1>6, <1>7, <1>8 DEF P, Q

\* At most k requests, and no preset among them.
Few(t, k) == t \in Seq(Requests) /\ Len(t) <= k
Calm(t) == \A i \in 1..Len(t) : t[i] # "broadcast power"

\* No request, one request, and one after another.
LEMMA SmallRequests ==
    /\ Few(<< >>, 1) /\ Calm(<< >>)
    /\ \A q \in Requests : Few(<<q>>, 1)
    /\ \A q \in Requests : q # "broadcast power" => Calm(<<q>>)
    /\ \A t : Few(t, 1) => Few(t, 2)
<1>1. Few(<< >>, 1)
  BY DEF Few
<1>2. Calm(<< >>)
  <2>1. Len(<< >>) = 0
    OBVIOUS
  <2>2. ASSUME NEW i \in 1..0 PROVE FALSE
    BY <2>2
  <2> QED
    BY <2>1, <2>2 DEF Calm
<1>3. ASSUME NEW q \in Requests PROVE Few(<<q>>, 1)
  <2>1. <<q>> \in Seq(Requests)
    OBVIOUS
  <2>2. Len(<<q>>) <= 1
    OBVIOUS
  <2> QED
    BY <2>1, <2>2 DEF Few
<1>4. ASSUME NEW q \in Requests, q # "broadcast power" PROVE Calm(<<q>>)
  <2>1. ASSUME NEW i \in 1..Len(<<q>>) PROVE <<q>>[i] = q
    BY <2>1
  <2> QED
    BY <1>4, <2>1 DEF Calm
<1>5. ASSUME NEW t, Few(t, 1) PROVE Few(t, 2)
  <2>1. t \in Seq(Requests) /\ Len(t) <= 1
    BY <1>5 DEF Few
  <2>2. Len(t) \in Nat
    BY <2>1
  <2>3. Len(t) <= 2
    BY <2>1, <2>2
  <2> QED
    BY <2>1, <2>3 DEF Few
<1> QED
  BY <1>1, <1>2, <1>3, <1>4, <1>5

LEMMA RequestsJoin ==
    ASSUME NEW x, NEW y, Few(x, 1), Few(y, 1)
    PROVE  Few(x \o y, 2) /\ (Calm(x) /\ Calm(y) => Calm(x \o y))
<1>1. PICK a \in Nat, b \in Nat : a = Len(x) /\ b = Len(y) /\ a <= 1 /\ b <= 1
  <2>1. x \in Seq(Requests) /\ y \in Seq(Requests) /\ Len(x) <= 1 /\ Len(y) <= 1
    BY DEF Few
  <2>2. Len(x) \in Nat /\ Len(y) \in Nat
    BY <2>1, LenProperties
  <2> QED
    BY <2>1, <2>2
<1>2. /\ x \o y \in Seq(Requests) /\ Len(x \o y) = a + b
      /\ \A i \in 1..(a + b) : (x \o y)[i] = IF i <= a THEN x[i] ELSE y[i - a]
  <2>1. x \in Seq(Requests) /\ y \in Seq(Requests)
    BY DEF Few
  <2>2. /\ x \o y \in Seq(Requests) /\ Len(x \o y) = Len(x) + Len(y)
        /\ \A i \in 1..Len(x) + Len(y) :
             (x \o y)[i] = IF i <= Len(x) THEN x[i] ELSE y[i - Len(x)]
    BY <2>1, ConcatProperties, Zenon
  <2> QED
    BY <1>1, <2>2
<1>3. Few(x \o y, 2)
  <2>1. Len(x \o y) <= 2
    BY <1>1, <1>2
  <2> QED
    BY <1>2, <2>1 DEF Few
<1>4. ASSUME Calm(x), Calm(y), NEW i \in 1..(a + b) PROVE (x \o y)[i] # "broadcast power"
  <2>1. CASE i <= a
    <3>1. i \in 1..a
      BY <2>1
    <3>2. (x \o y)[i] = x[i]
      BY <1>2, <2>1
    <3> QED
      BY <1>1, <1>4, <3>1, <3>2 DEF Calm
  <2>2. CASE ~(i <= a)
    <3>1. i - a \in 1..b
      BY <2>2
    <3>2. (x \o y)[i] = y[i - a]
      BY <1>2, <2>2
    <3> QED
      BY <1>1, <1>4, <3>1, <3>2 DEF Calm
  <2> QED
    BY <2>1, <2>2
<1>5. Calm(x) /\ Calm(y) => Calm(x \o y)
  BY <1>2, <1>4 DEF Calm
<1> QED
  BY <1>3, <1>5

\* What a control opcode asks of the mesh: a preset only for a preset that
\* came from the server.
LEMMA ControlRequests ==
    ASSUME NEW m, NEW rebroadcast \in BOOLEAN
    PROVE  /\ Few(DispatchControlOp(m, rebroadcast).toMesh, 1)
           /\ ~rebroadcast \/ m.op # "TX_POWER_SET" =>
                Calm(DispatchControlOp(m, rebroadcast).toMesh)
<1> DEFINE t == DispatchControlOp(m, rebroadcast).toMesh
<1>1. /\ Few(<< >>, 1) /\ Few(<<"broadcast health">>, 1) /\ Few(<<"uplink health">>, 1)
      /\ Few(<<"broadcast power">>, 1)
  BY SmallRequests DEF Requests
<1>2. Calm(<< >>) /\ Calm(<<"broadcast health">>) /\ Calm(<<"uplink health">>)
  BY SmallRequests DEF Requests
<1>3. NoEffect.toMesh = << >>
  BY DEF NoEffect
<1>4. SelfHealth.toMesh = <<"broadcast health">> \/ SelfHealth.toMesh = <<"uplink health">>
  BY DEF SelfHealth, NoEffect
<1>5. \/ OpTxPowerSet(m, rebroadcast).toMesh = << >>
      \/ rebroadcast /\ OpTxPowerSet(m, rebroadcast).toMesh = <<"broadcast power">>
  BY DEF OpTxPowerSet, NoEffect
<1>6. \/ t = << >> \/ t = <<"broadcast health">> \/ t = <<"uplink health">>
      \/ rebroadcast /\ m.op = "TX_POWER_SET" /\ t = <<"broadcast power">>
  <2>1. CASE m.op = "CONFIG_SET" /\ m.aimed
    BY <2>1 DEF DispatchControlOp, NoEffect
  <2>2. CASE m.op = "NODE_ID_SET" /\ m.aimed
    BY <2>2 DEF DispatchControlOp, NoEffect
  <2>3. CASE m.op = "HEALTH_REQ" /\ config.adapter = "SERIAL"
    BY <1>4, <2>3 DEF DispatchControlOp
  <2>4. CASE m.op = "TX_POWER_SET"
    BY <1>5, <2>4 DEF DispatchControlOp
  <2> QED
    BY <1>3, <2>1, <2>2, <2>3, <2>4 DEF DispatchControlOp
<1> HIDE DEF t
<1>7. Few(t, 1) /\ (~rebroadcast \/ m.op # "TX_POWER_SET" => Calm(t))
  BY <1>1, <1>2, <1>6
<1> QED
  BY <1>7 DEF t

\* What a frame from the server asks of the mesh (handleCompleteFrame).
LEMMA FrameRequests ==
    ASSUME NEW m
    PROVE  /\ Few(HandleCompleteFrame(m).toMesh, 2)
           /\ m.op # "TX_POWER_SET" => Calm(HandleCompleteFrame(m).toMesh)
<1> DEFINE t == HandleCompleteFrame(m).toMesh
<1>1. CASE m.type = "JOIN_ACK"
  <2>1. t = << >> \/ t = <<"enroll">> \/ t = <<"enroll with secondary">>
    BY <1>1 DEF HandleCompleteFrame, NoEffect
  <2>2. /\ Few(<< >>, 2) /\ Few(<<"enroll">>, 2) /\ Few(<<"enroll with secondary">>, 2)
        /\ Calm(<< >>) /\ Calm(<<"enroll">>) /\ Calm(<<"enroll with secondary">>)
    BY SmallRequests DEF Requests
  <2> HIDE DEF t
  <2>3. Few(t, 2) /\ Calm(t)
    BY <2>1, <2>2
  <2> QED
    BY <2>3 DEF t
<1>2. CASE m.type # "JOIN_ACK"
  <2> DEFINE control == IF m.serial THEN DispatchControlOp(m, TRUE) ELSE NoEffect
  <2>1. /\ Few(control.toMesh, 1) /\ "toMesh" \in DOMAIN control
        /\ m.op # "TX_POWER_SET" => Calm(control.toMesh)
    <3>1. NoEffect.toMesh = << >> /\ "toMesh" \in DOMAIN NoEffect
      BY DEF NoEffect
    <3>2. Few(<< >>, 1) /\ Calm(<< >>)
      BY SmallRequests
    <3>3. Few(NoEffect.toMesh, 1) /\ Calm(NoEffect.toMesh)
      BY <3>1, <3>2
    <3>4. /\ Few(DispatchControlOp(m, TRUE).toMesh, 1)
          /\ m.op # "TX_POWER_SET" => Calm(DispatchControlOp(m, TRUE).toMesh)
      BY ControlRequests
    <3>5. "toMesh" \in DOMAIN DispatchControlOp(m, TRUE)
      BY EffectDomain
    <3> QED
      BY <3>1, <3>3, <3>4, <3>5
  <2>2. Few(MeshRequest(m), 1) /\ (m.op # "TX_POWER_SET" => Calm(MeshRequest(m)))
    <3>1. PICK r : r = MeshRequest(m)
      OBVIOUS
    <3>2. \/ r = << >> \/ r = <<"transmit">> \/ r = <<"broadcast">> \/ r = <<"downlink">>
          \/ m.op = "TX_POWER_SET" /\ r = <<"broadcast power">>
      BY <3>1 DEF MeshRequest
    <3>3. /\ Few(<< >>, 1) /\ Few(<<"transmit">>, 1) /\ Few(<<"broadcast">>, 1)
          /\ Few(<<"downlink">>, 1) /\ Few(<<"broadcast power">>, 1)
      BY SmallRequests DEF Requests
    <3>4. /\ Calm(<< >>) /\ Calm(<<"transmit">>) /\ Calm(<<"broadcast">>)
          /\ Calm(<<"downlink">>)
      BY SmallRequests DEF Requests
    <3>5. Few(r, 1) /\ (m.op # "TX_POWER_SET" => Calm(r))
      BY <3>2, <3>3, <3>4
    <3> QED
      BY <3>1, <3>5
  <2>3. t = MeshRequest(m) \o control.toMesh
    <3>1. HandleCompleteFrame(m) = [control EXCEPT !.toMesh = MeshRequest(m) \o control.toMesh]
      BY <1>2 DEF HandleCompleteFrame
    <3> HIDE DEF control
    <3> QED
      BY <2>1, <3>1
  <2> HIDE DEF t, control
  <2>4. Few(t, 2) /\ (m.op # "TX_POWER_SET" => Calm(t))
    BY <2>1, <2>2, <2>3, RequestsJoin
  <2> QED
    BY <2>4 DEF t
<1> QED
  BY <1>1, <1>2

\* Requests without a preset among them keep the balance.
LEMMA NoPresetKeeps ==
    ASSUME PowerInv, NEW x, Few(x, 2), Calm(x), toMesh' = toMesh \o x, handled' = handled
    PROVE  PowerInv'
<1>1. /\ toMesh \in Seq(Requests) /\ handled \in Seq(Commands \cup {Garbage})
      /\ Cardinality(PowerRequests(toMesh)) <= 2 * Cardinality(PowerCommands(handled))
  BY DEF PowerInv
<1>2. /\ toMesh' \in Seq(Requests)
      /\ Cardinality(PowerRequests(toMesh')) = Cardinality(PowerRequests(toMesh))
  BY <1>1, RequestsGrow DEF Few, Calm
<1> QED
  BY <1>1, <1>2 DEF PowerInv

\* A frame is handled: it brings at most two presets, and those only if it is
\* one itself.
LEMMA ReadKeepsBalance == ASSUME PowerInv, ReadByte PROVE PowerInv'
<1> DEFINE next  == InjectByte(parser, Head(wire))
           ready == FrameReady(parser, next)
           frame == Decode(next.buffer)
           e     == IF ready /\ frame /= Garbage
                    THEN HandleCompleteFrame(Fields[frame]) ELSE NoEffect
<1>1. /\ toMesh' = toMesh \o e.toMesh
      /\ handled' = IF ready THEN Append(handled, frame) ELSE handled
      /\ frame \in Commands \cup {Garbage}
  BY DecodeType DEF ReadByte, Apply
<1>2. /\ toMesh \in Seq(Requests) /\ handled \in Seq(Commands \cup {Garbage})
      /\ Cardinality(PowerRequests(toMesh)) <= 2 * Cardinality(PowerCommands(handled))
      /\ Cardinality(PowerRequests(toMesh)) \in Nat
      /\ Cardinality(PowerCommands(handled)) \in Nat
  BY PowerFinite DEF PowerInv
<1>3. NoEffect.toMesh = << >> /\ Few(<< >>, 2) /\ Calm(<< >>)
  BY SmallRequests DEF NoEffect
<1>4. CASE ready /\ frame # Garbage /\ IsPower(frame)
  <2>1. PICK t \in Seq(Requests) : Len(t) <= 2 /\ toMesh' = toMesh \o t
    BY <1>1, <1>4, FrameRequests DEF Few
  <2>2. /\ toMesh' \in Seq(Requests)
        /\ Cardinality(PowerRequests(toMesh')) <= Cardinality(PowerRequests(toMesh)) + 2
    BY <1>2, <2>1, RequestsGrow
  <2>3. /\ handled' \in Seq(Commands \cup {Garbage})
        /\ Cardinality(PowerCommands(handled')) = Cardinality(PowerCommands(handled)) + 1
    BY <1>1, <1>2, <1>4, CommandsGrow
  <2>4. Cardinality(PowerRequests(toMesh')) \in Nat
    BY <2>2, PowerFinite
  <2>5. Cardinality(PowerRequests(toMesh')) <= 2 * Cardinality(PowerCommands(handled'))
    BY <1>2, <2>2, <2>3, <2>4
  <2> QED
    BY <2>2, <2>3, <2>5 DEF PowerInv
<1>5. CASE ~(ready /\ frame # Garbage /\ IsPower(frame))
  <2>1. PICK t : Few(t, 2) /\ Calm(t) /\ toMesh' = toMesh \o t
    <3>1. CASE ready /\ frame # Garbage
      <4>1. PICK t : t = HandleCompleteFrame(Fields[frame]).toMesh
        OBVIOUS
      <4>2. Fields[frame].op # "TX_POWER_SET" /\ toMesh' = toMesh \o t
        BY <1>1, <1>5, <3>1, <4>1 DEF IsPower
      <4>3. Few(t, 2) /\ Calm(t)
        BY <4>1, <4>2, FrameRequests
      <4> QED
        BY <4>2, <4>3
    <3>2. CASE ~(ready /\ frame # Garbage)
      <4>1. PICK t : t = << >>
        OBVIOUS
      <4>2. e.toMesh = t
        BY <1>3, <3>2, <4>1
      <4>3. Few(t, 2) /\ Calm(t) /\ toMesh' = toMesh \o t
        BY <1>1, <1>3, <4>1, <4>2
      <4> QED
        BY <4>3
    <3> QED
      BY <3>1, <3>2
  <2>2. /\ toMesh' \in Seq(Requests)
        /\ Cardinality(PowerRequests(toMesh')) = Cardinality(PowerRequests(toMesh))
    BY <1>2, <2>1, RequestsGrow DEF Few, Calm
  <2>3. /\ handled' \in Seq(Commands \cup {Garbage})
        /\ Cardinality(PowerCommands(handled')) >= Cardinality(PowerCommands(handled))
    <3>1. CASE ready
      BY <1>1, <1>2, <3>1, CommandsGrow
    <3>2. CASE ~ready
      BY <1>1, <1>2, <3>2
    <3> QED
      BY <3>1, <3>2
  <2>4. Cardinality(PowerCommands(handled')) \in Nat
    BY <2>3, PowerFinite
  <2>5. Cardinality(PowerRequests(toMesh')) <= 2 * Cardinality(PowerCommands(handled'))
    BY <1>2, <2>2, <2>3, <2>4
  <2> QED
    BY <2>2, <2>3, <2>5 DEF PowerInv
<1> QED
  BY <1>4, <1>5

\* A power preset is broadcast at most twice for every one the server sent and
\* never for one from the mesh, in any run of any length: presets do not
\* circulate between two masters (Adapter.cpp, opTxPowerSet).
THEOREM PresetsDoNotCirculate == Spec => []PowerDoesNotCirculate
<1>1. Init => PowerInv
  <2> SUFFICES ASSUME Init PROVE PowerInv
    OBVIOUS
  <2>1. toMesh = << >> /\ handled = << >>
    BY DEF Init
  <2>2. PowerRequests(toMesh) = {} /\ toMesh \in Seq(Requests)
    BY <2>1 DEF PowerRequests
  <2>3. handled \in Seq(Commands \cup {Garbage})
    BY <2>1
  <2>4. Cardinality(PowerRequests(toMesh)) = 0 /\ Cardinality(PowerCommands(handled)) \in Nat
    BY <2>2, <2>3, FS_EmptySet, PowerFinite
  <2> QED
    BY <2>2, <2>3, <2>4 DEF PowerInv
<1>2. PowerInv /\ [Next]_vars => PowerInv'
  <2> SUFFICES ASSUME PowerInv, [Next]_vars PROVE PowerInv'
    OBVIOUS
  <2>1. CASE UNCHANGED <<toMesh, handled>>
    BY <2>1 DEF PowerInv
  <2>2. CASE HealthTick
    <3>1. SelfHealth.toMesh \in {<<"broadcast health">>, <<"uplink health">>}
      BY DEF SelfHealth, NoEffect
    <3>2. PICK t \in {<<"broadcast health">>, <<"uplink health">>} : toMesh' = toMesh \o t
      BY <2>2, <3>1 DEF HealthTick
    <3>3. Few(t, 2) /\ Calm(t)
      <4>1. /\ Few(<<"broadcast health">>, 2) /\ Few(<<"uplink health">>, 2)
            /\ Calm(<<"broadcast health">>) /\ Calm(<<"uplink health">>)
        BY SmallRequests DEF Requests
      <4>2. t = <<"broadcast health">> \/ t = <<"uplink health">>
        OBVIOUS
      <4> QED
        BY <4>1, <4>2
    <3> QED
      BY <2>2, <3>2, <3>3, NoPresetKeeps DEF HealthTick
  <2>3. ASSUME NEW m \in FromMesh, MeshDelivers(m) PROVE PowerInv'
    <3> DEFINE control == IF Fields[m].serial THEN DispatchControlOp(Fields[m], FALSE)
                          ELSE NoEffect
               forward == IF config.adapter = "SERIAL" THEN <<m>> ELSE << >>
               e == [control EXCEPT !.out = @ \o forward]
    <3>1. "toMesh" \in DOMAIN control
      BY EffectDomain DEF NoEffect
    <3>2. Few(control.toMesh, 2) /\ Calm(control.toMesh)
      <4>1. NoEffect.toMesh = << >>
        BY DEF NoEffect
      <4>2. Few(<< >>, 2) /\ Calm(<< >>)
        BY SmallRequests
      <4>3. Few(NoEffect.toMesh, 2) /\ Calm(NoEffect.toMesh)
        BY <4>1, <4>2
      <4>4. /\ Few(DispatchControlOp(Fields[m], FALSE).toMesh, 2)
            /\ Calm(DispatchControlOp(Fields[m], FALSE).toMesh)
        BY ControlRequests, SmallRequests
      <4> QED
        BY <4>3, <4>4
    <3>3. toMesh' = toMesh \o e.toMesh /\ handled' = handled
      BY <2>3 DEF MeshDelivers, Apply
    <3>4. e.toMesh = control.toMesh
      <4> HIDE DEF control
      <4> QED
        BY <3>1
    <3> HIDE DEF control, e
    <3> QED
      BY <3>2, <3>3, <3>4, NoPresetKeeps
  <2> QED
    BY <2>1, <2>2, <2>3, ReadKeepsBalance
       DEF Next, vars, ServerSends, LoseByte, RelayEnrollment, WriteLength, WritePayload
<1>3. PowerInv => PowerDoesNotCirculate
  BY DEF PowerInv, PowerDoesNotCirculate, PowerRequests, PowerCommands, IsPower
<1> QED
  BY <1>1, <1>2, <1>3, PTL DEF Spec
=============================================================================
