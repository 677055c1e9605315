--------------------------- MODULE OutboundProofs ---------------------------
(***************************************************************************)
(* What a node sends: the numbers on its frames (TxSequence) and the bytes *)
(* of the messages that it exchanges with the server (MessageCodec).       *)
(*                                                                         *)
(* TxSequence, for every width of the counters: with one originating task  *)
(* SeqInv is inductive, and freshness of the pairs follows from it.        *)
(*                                                                         *)
(* MessageCodec, for integers of 32 bits, as in the code, and of 15, as    *)
(* TLC checks them, and for every message, unknown field and byte.  While  *)
(* encode runs the frame is the bytes of the fields so far (Layout); while *)
(* decode runs, what it has read and what is left make up the message      *)
(* (Undone).                                                               *)
(***************************************************************************)
EXTENDS TxSequence, MessageCodec, SequenceTheorems, WellFoundedInduction, TLAPS

-----------------------------------------------------------------------------
(***************************************************************************)
(* TxSequence.                                                             *)
(***************************************************************************)

\* uint16_t increment: NextSeq either adds one or wraps to zero.
LEMMA NextSeqStep ==
    ASSUME NEW s \in Seqs
    PROVE  /\ NextSeq(s) \in Seqs
           /\ NextSeq(s) = s + 1 \/ NextSeq(s) = 0
           /\ NextSeq(s) # 0 => NextSeq(s) = s + 1
           /\ NextSeq(0) = 1
BY TxConstants DEF NextSeq, Seqs

\* Init is well typed.
LEMMA TypeCorrectInit == Init => TypeOK
BY TxConstants DEF Init, TypeOK, Epochs, Seqs, PCs, Frames, NoFrame, NothingSealed

\* Every step keeps the types.
LEMMA TypeStep == TypeOK /\ [Next]_vars => TypeOK'
<1> SUFFICES ASSUME TypeOK, [Next]_vars PROVE TypeOK'
  OBVIOUS
<1> USE TxConstants DEF TypeOK, Epochs, Seqs, PCs, Frames, Pairs, NoFrame,
    NothingSealed
<1>1. CASE Restart
  BY <1>1 DEF Restart, LoseRAM
<1>2. CASE EraseNvs
  BY <1>2 DEF EraseNvs
<1>3. CASE BootSave
  BY <1>3 DEF BootSave
<1>4. CASE BootInit
  BY <1>4 DEF BootInit
<1>5. ASSUME NEW t \in Tasks, TaskStep(t) PROVE TypeOK'
  <2>1. ASSUME NEW sealed \in BOOLEAN, ReadSeq(t, sealed) PROVE TypeOK'
    BY <2>1, NextSeqStep DEF ReadSeq
  <2>2. CASE WriteSeq(t)
    BY <2>2 DEF WriteSeq
  <2>3. CASE WrapSave(t)
    BY <2>3 DEF WrapSave
  <2>4. CASE WrapBump(t)
    BY <2>4 DEF WrapBump
  <2>5. CASE RereadSeq(t)
    BY <2>5, NextSeqStep DEF RereadSeq
  <2>6. CASE RewriteSeq(t)
    BY <2>6 DEF RewriteSeq
  <2>7. CASE StampEpoch(t)
    BY <2>7 DEF StampEpoch
  <2>8. CASE CheckEpochRollback(t)
    BY <2>8, <1>1 DEF CheckEpochRollback
  <2>9. CASE RecordSealed(t)
    BY <2>9 DEF RecordSealed
  <2>10. CASE UsePair(t)
    BY <2>10 DEF UsePair, PairOf
  <2>11. CASE SealUnavailable(t)
    BY <2>11 DEF SealUnavailable
  <2>12. CASE RelayOwnEcho(t)
    BY <2>12 DEF RelayOwnEcho
  <2> QED
    BY <1>5, <2>1, <2>2, <2>3, <2>4, <2>5, <2>6, <2>7, <2>8, <2>9, <2>10,
       <2>11, <2>12 DEF TaskStep
<1>6. CASE UNCHANGED vars
  BY <1>6 DEF vars
<1> QED
  BY <1>1, <1>2, <1>3, <1>4, <1>5, <1>6 DEF Next

\* Every reachable state is well typed, for any set of tasks (the domains of
\* the uint16_t / uint32_t counters and the task program counters).
THEOREM TypeCorrect == Spec => []TypeOK
BY TypeCorrectInit, TypeStep, PTL DEF Spec

\* Init establishes the inductive invariant.
LEMMA SeqInvInit == Init => SeqInv
BY TxConstants, TypeCorrectInit DEF Init, SeqInv, EpochsInv, EpochWrittenAhead, DownInv, AirInv,
   NothingSealed

\* A reset at any moment keeps it: what NVS holds bounds what was consumed.
LEMMA SeqInvRestart ==
    ASSUME SeqInv, Restart
    PROVE  SeqInv'
<1>1. TypeOK'
  BY TypeStep, Restart DEF SeqInv, Next
<1>2. EpochsInv' /\ EpochWrittenAhead'
  BY TxConstants DEF SeqInv, EpochsInv, EpochWrittenAhead, Restart, LoseRAM, TypeOK,
     Pairs, Epochs
<1>3. DownInv' /\ AirInv'
  BY DEF Restart, LoseRAM, DownInv, AirInv
<1> QED
  BY <1>1, <1>2, <1>3 DEF SeqInv, Restart, LoseRAM

\* Booting and erasing keep it: the epoch a boot is about to use is above
\* every epoch consumed under the same key pair.
LEMMA SeqInvBoot ==
    ASSUME SeqInv, EraseNvs \/ BootSave \/ BootInit
    PROVE  SeqInv'
<1>1. TypeOK'
  BY TypeStep DEF SeqInv, Next
<1> USE TxConstants DEF SeqInv, EpochsInv, EpochWrittenAhead, DownInv, AirInv, TypeOK,
    Pairs, Epochs, Seqs, UsedEpochsBelow, NothingSealed
<1>2. CASE EraseNvs
  BY <1>1, <1>2 DEF EraseNvs
<1>3. CASE BootSave
  BY <1>1, <1>3 DEF BootSave
<1>4. CASE BootInit
  <2>1. SeqInv!2' /\ SeqInv!3' /\ SeqInv!4' /\ SeqInv!5'
    BY <1>4 DEF BootInit
  <2>2. ASSUME NEW t \in Tasks PROVE DrawInv(t)'
    BY <1>4, <2>2 DEF BootInit, DrawInv, UsedUpTo, SealedUpTo, Before
  <2> QED
    BY <1>1, <2>1, <2>2
<1> QED
  BY <1>2, <1>3, <1>4

\* One step of the only originating task keeps it: each case moves the task to
\* the next place in nextSeqGuarded / checkEpochRollback / the seal, where
\* DrawInv asks for exactly what the step established.
LEMMA SeqInvTask ==
    ASSUME NEW t, Tasks = {t}, SeqInv, TaskStep(t)
    PROVE  SeqInv'
<1>1. TypeOK'
  BY TypeStep DEF SeqInv, Next
<1>2. up = "up" /\ DrawInv(t)
  BY DEF SeqInv, DownInv, TaskStep, ReadSeq, WriteSeq, WrapSave, WrapBump, RereadSeq,
     RewriteSeq, StampEpoch, CheckEpochRollback, RecordSealed, UsePair, SealUnavailable,
     RelayOwnEcho, TypeOK
<1>3. CASE CheckEpochRollback(t) /\ ~Advances(frame[t])
  BY <1>3, SeqInvRestart DEF CheckEpochRollback
<1>4. CASE ~(CheckEpochRollback(t) /\ ~Advances(frame[t]))
  <2>1. up' = "up"
    BY <1>2, <1>4 DEF TaskStep, ReadSeq, WriteSeq, WrapSave, WrapBump, RereadSeq,
       RewriteSeq, StampEpoch, CheckEpochRollback, RecordSealed, UsePair,
       SealUnavailable, RelayOwnEcho
  <2> SUFFICES EpochsInv' /\ EpochWrittenAhead' /\ AirInv' /\ DrawInv(t)'
    BY <1>1, <2>1 DEF SeqInv, DownInv
  <2> USE <1>1, <1>2, <2>1, TxConstants DEF SeqInv, EpochsInv, EpochWrittenAhead, AirInv,
      DrawInv, TypeOK, Epochs, Seqs, PCs, Frames, Pairs
  <2>2. ASSUME NEW sealed \in BOOLEAN, ReadSeq(t, sealed)
        PROVE  EpochsInv' /\ EpochWrittenAhead' /\ AirInv' /\ DrawInv(t)'
    BY <2>2 DEF ReadSeq, UsedUpTo, SealedUpTo
  <2>3. CASE WriteSeq(t)
    BY <2>3, NextSeqStep DEF WriteSeq, UsedUpTo, UsedBefore, UsedEpochsBelow, SealedUpTo,
       SealedBefore, Before
  <2>4. CASE WrapSave(t)
    BY <2>4 DEF WrapSave, UsedEpochsBelow
  <2>5. CASE WrapBump(t)
    BY <2>5 DEF WrapBump, UsedEpochsBelow
  <2>6. CASE RereadSeq(t)
    BY <2>6 DEF RereadSeq, UsedEpochsBelow
  <2>7. CASE RewriteSeq(t)
    BY <2>7, NextSeqStep DEF RewriteSeq, UsedEpochsBelow, UsedBefore, SealedBefore, Before
  <2>8. CASE StampEpoch(t)
    BY <2>8 DEF StampEpoch, Drawn, UsedBefore, SealedBefore, SealedUpTo, Before
  <2>9. CASE CheckEpochRollback(t)
    <3>1. Advances(frame[t])
      BY <1>4, <2>9
    <3>2. PairOf(t) \notin air
      BY <3>1 DEF Advances, PairOf
    <3> QED
      BY <2>9, <3>1, <3>2 DEF CheckEpochRollback, Drawn, UsedBefore, SealedBefore
  <2>10. CASE RecordSealed(t)
    BY <2>10 DEF RecordSealed, Drawn, UsedBefore, SealedBefore, SealedUpTo, Before
  <2>11. CASE UsePair(t)
    BY <2>11 DEF UsePair, PairOf, Drawn, UsedBefore, UsedUpTo, SealedUpTo, Before
  <2>12. CASE SealUnavailable(t)
    BY <2>12 DEF SealUnavailable, Drawn, UsedBefore, UsedUpTo, SealedUpTo, Before
  <2>13. CASE RelayOwnEcho(t)
    BY <2>13 DEF RelayOwnEcho, PairOf
  <2> QED
    BY <2>2, <2>3, <2>4, <2>5, <2>6, <2>7, <2>8, <2>9, <2>10, <2>11, <2>12, <2>13
       DEF TaskStep
<1> QED
  BY <1>3, <1>4

\* With one originating task the inductive invariant holds in every reachable
\* state, for every counter width, number of restarts and erased partitions.
THEOREM SeqInvariant ==
    ASSUME NEW CONSTANT t, Tasks = {t}
    PROVE  Spec => []SeqInv
<1>1. SeqInv /\ [Next]_vars => SeqInv'
  <2> SUFFICES ASSUME SeqInv, [Next]_vars PROVE SeqInv'
    OBVIOUS
  <2>1. CASE Restart
    BY <2>1, SeqInvRestart
  <2>2. CASE EraseNvs \/ BootSave \/ BootInit
    BY <2>2, SeqInvBoot
  <2>3. CASE TaskStep(t)
    BY <2>3, SeqInvTask
  <2>4. CASE UNCHANGED vars
    BY <2>4 DEF vars, SeqInv, TypeOK, EpochsInv, EpochWrittenAhead, DownInv, AirInv,
       DrawInv, Drawn, PairOf, UsedUpTo, UsedBefore, UsedEpochsBelow, SealedUpTo,
       SealedBefore
  <2> QED
    BY <2>1, <2>2, <2>3, <2>4 DEF Next
<1> QED
  BY <1>1, SeqInvInit, PTL DEF Spec

\* No pair is reused or used out of order, and none is used under an epoch NVS
\* does not hold yet: PairFresh and EpochWrittenAhead for one originating task.
THEOREM PairsFresh ==
    ASSUME NEW CONSTANT t, Tasks = {t}
    PROVE  Spec => [](PairFresh /\ EpochWrittenAhead)
<1>1. SeqInv => PairFresh /\ EpochWrittenAhead
  BY DEF SeqInv, DownInv, DrawInv, Drawn, UsedBefore, PairFresh
<1> QED
  BY <1>1, SeqInvariant, PTL

\* The seal-time guard restarts the node only over a copy of a frame it has
\* sealed itself: GuardNeverTrips for one originating task.
THEOREM GuardSilent ==
    ASSUME NEW CONSTANT t, Tasks = {t}
    PROVE  Spec => []GuardNeverTrips
<1>1. SeqInv => GuardNeverTrips
  BY DEF SeqInv, DownInv, DrawInv, Drawn, SealedBefore, GuardNeverTrips, Advances
<1> QED
  BY <1>1, SeqInvariant, PTL

-----------------------------------------------------------------------------
(***************************************************************************)
(* MessageCodec: numbers.                                                  *)
(***************************************************************************)

\* The powers of two that stand for the widths of the code's integers.
LEMMA Powers ==
    /\ 2^(7 * 1) = 128 /\ 2^(7 * 2) = 16384 /\ 2^(7 * 3) = 2097152
    /\ 2^(7 * 4) = 268435456 /\ 2^(7 * 5) = 34359738368
    /\ 2^(7 * (1 - 1)) = 1 /\ 2^(7 * (2 - 1)) = 128 /\ 2^(7 * (3 - 1)) = 16384
    /\ 2^(7 * (4 - 1)) = 2097152 /\ 2^(7 * (5 - 1)) = 268435456
    /\ 2^8 = 256 /\ 2^16 = 65536
<1>1. /\ 7 * 1 = 7 /\ 7 * 2 = 14 /\ 7 * 3 = 21 /\ 7 * 4 = 28 /\ 7 * 5 = 35
      /\ 7 * (1 - 1) = 0 /\ 7 * (2 - 1) = 7 /\ 7 * (3 - 1) = 14
      /\ 7 * (4 - 1) = 21 /\ 7 * (5 - 1) = 28
  BY SMT
<1>2. /\ 2^0 = 1 /\ 2^7 = 128 /\ 2^14 = 16384 /\ 2^21 = 2097152 /\ 2^28 = 268435456
      /\ 2^35 = 34359738368 /\ 2^8 = 256 /\ 2^16 = 65536
  BY SMT
<1> QED
  BY <1>1, <1>2, SMT

\* The two widths, and the numbers that follow from them.
LEMMA Widths ==
    \/ /\ Width = 15 /\ UintMod = 32768 /\ 2^(Width - 1) = 16384
       /\ Width \div 7 + 1 = 3 /\ Wide \div 7 + 1 = 5
       /\ 2^(Width - 7 * ((Width \div 7 + 1) - 1)) = 2
    \/ /\ Width = 32 /\ UintMod = 4294967296 /\ 2^(Width - 1) = 2147483648
       /\ Width \div 7 + 1 = 5 /\ Wide \div 7 + 1 = 10
       /\ 2^(Width - 7 * ((Width \div 7 + 1) - 1)) = 16
<1>1. /\ 2^14 = 16384 /\ 2^15 = 32768 /\ 2^31 = 2147483648 /\ 2^32 = 4294967296
      /\ 2^1 = 2 /\ 2^4 = 16
  BY SMT
<1>2. CASE Width = 15
  <2>1. /\ Width - 1 = 14 /\ Width \div 7 + 1 = 3 /\ Wide \div 7 + 1 = 5
        /\ Width - 7 * ((Width \div 7 + 1) - 1) = 1
    BY <1>2, SMT DEF Wide
  <2> QED
    BY <1>1, <1>2, <2>1, SMT DEF UintMod
<1>3. CASE Width = 32
  <2>1. /\ Width - 1 = 31 /\ Width \div 7 + 1 = 5 /\ Wide \div 7 + 1 = 10
        /\ Width - 7 * ((Width \div 7 + 1) - 1) = 4
    BY <1>3, SMT DEF Wide
  <2> QED
    BY <1>1, <1>3, <2>1, SMT DEF UintMod
<1> QED
  BY <1>2, <1>3, WidthAssumption, SMT

\* What the widths are needed for, without the numbers.
LEMMA Ranges ==
    /\ UintMod \in Nat /\ UintMod > 256
    /\ UintMod = 2 * 2^(Width - 1) /\ 2^(Width - 1) \in Nat
    /\ Uint32 \subseteq Nat /\ Int32 \subseteq Int /\ Byte \subseteq Uint32
    /\ 0 \in Uint32 /\ 0 \in Int32 /\ Width \div 7 + 1 \in Nat
    /\ Wide \div 7 + 1 \in Nat
    /\ \A v : v \in Uint32 <=> v \in Nat /\ v < UintMod
BY Widths, SMT DEF Uint32, Int32, Byte

\* A set of numbers has a least member.
LEMMA LeastMember ==
    ASSUME NEW S, S \subseteq Nat, S # {}
    PROVE  \E x \in S : \A y \in S : x <= y
<1>1. PICK x \in S : \A y \in S : ~(<<y, x>> \in OpToRel(<, Nat))
  BY NatLessThanWellFounded, WFMin
<1>2. \A y \in S : x <= y
  <2> SUFFICES ASSUME NEW y \in S PROVE x <= y
    OBVIOUS
  <2>1. x \in Nat /\ y \in Nat
    OBVIOUS
  <2>2. ~(y < x)
    BY <1>1, <2>1 DEF OpToRel
  <2> QED
    BY <2>1, <2>2
<1> QED
  BY <1>2

\* The members of a sequence of bytes.
LEMMA ByteSeq ==
    ASSUME NEW s \in Seq(Byte)
    PROVE  /\ Len(s) \in Nat /\ DOMAIN s = 1..Len(s)
           /\ \A i \in 1..Len(s) : s[i] \in Byte /\ s[i] \in Nat /\ s[i] < 256
<1>1. \A b \in Byte : b \in Nat /\ b < 256
  BY DEF Byte
<1>2. Len(s) \in Nat /\ DOMAIN s = 1..Len(s)
  BY LenProperties
<1>3. \A i \in 1..Len(s) : s[i] \in Byte
  BY ElementOfSeq
<1> QED
  BY <1>1, <1>2, <1>3

\* The bytes of a concatenation.
LEMMA BytesConcat ==
    ASSUME NEW e \in Seq(Byte), NEW r \in Seq(Byte)
    PROVE  /\ e \o r \in Seq(Byte) /\ Len(e \o r) = Len(e) + Len(r)
           /\ \A k \in 1..(Len(e) + Len(r)) :
                (e \o r)[k] = IF k <= Len(e) THEN e[k] ELSE r[k - Len(e)]
BY ConcatProperties, Zenon

-----------------------------------------------------------------------------
(***************************************************************************)
(* Varints.                                                                *)
(***************************************************************************)

\* A varint ends at its first byte below 128.
LEMMA VarintLenType ==
    ASSUME NEW s \in Seq(Byte)
    PROVE  /\ VarintLen(s) \in 0..Len(s)
           /\ VarintLen(s) # 0 => s[VarintLen(s)] < 128
           /\ \A i \in 1..Len(s) : i < VarintLen(s) => s[i] >= 128
           /\ VarintLen(s) = 0 => \A i \in 1..Len(s) : s[i] >= 128
<1> DEFINE ends == {i \in 1..Len(s) : ~Continues(s[i])}
<1>1. Len(s) \in Nat /\ \A i \in 1..Len(s) : s[i] \in Nat
  BY ByteSeq
<1>2. CASE ends = {}
  BY <1>1, <1>2 DEF VarintLen, Continues
<1>3. CASE ends # {}
  <2>1. \E i \in ends : \A j \in ends : i <= j
    <3>1. ends \subseteq Nat
      BY <1>1
    <3> HIDE DEF ends
    <3> QED
      BY <1>3, <3>1, LeastMember
  <2>2. VarintLen(s) \in ends /\ \A j \in ends : VarintLen(s) <= j
    BY <1>3, <2>1 DEF VarintLen
  <2> QED
    BY <1>1, <2>2 DEF Continues
<1> QED
  BY <1>2, <1>3

\* The same from the other side.
LEMMA VarintLenIs ==
    ASSUME NEW s \in Seq(Byte), NEW n \in 1..Len(s), s[n] < 128,
           \A i \in 1..(n - 1) : s[i] >= 128
    PROVE  VarintLen(s) = n
<1> DEFINE m == VarintLen(s)
<1>1. Len(s) \in Nat /\ \A i \in 1..Len(s) : s[i] \in Nat
  BY ByteSeq
<1>2. /\ m \in 0..Len(s)
      /\ m # 0 => s[m] < 128
      /\ \A i \in 1..Len(s) : i < m => s[i] >= 128
      /\ m = 0 => \A i \in 1..Len(s) : s[i] >= 128
  BY VarintLenType
<1> HIDE DEF m
<1>3. m = n
  BY <1>1, <1>2
<1> QED
  BY <1>3 DEF m

\* A number written in groups of seven bits.
LEMMA Horner ==
    ASSUME NEW a \in Nat, NEW b \in Nat, NEW c \in Nat, NEW d \in Nat, NEW e \in Nat,
           NEW f \in Nat, NEW g \in Nat, NEW h \in Nat, NEW i \in Nat, NEW j \in Nat
    PROVE  a + 128 * (b + 128 * (c + 128 * (d + 128 * (e + 128 * (f + 128 * (g + 128 *
               (h + 128 * (i + 128 * j)))))))) \in Nat
<1>1. PICK p \in Nat : p = h + 128 * (i + 128 * j)
  BY SMT
<1>2. PICK q \in Nat : q = e + 128 * (f + 128 * (g + 128 * p))
  BY SMT
<1>3. PICK r \in Nat : r = b + 128 * (c + 128 * (d + 128 * q))
  BY SMT
<1> QED
  BY <1>1, <1>2, <1>3, SMT

\* The groups of any bytes make a natural number.
LEMMA GroupsType ==
    ASSUME NEW s \in Seq(Byte), NEW n \in 0..Len(s)
    PROVE  Groups(s, n) \in Nat
<1> DEFINE d(i) == IF i <= n THEN Low7(s[i]) ELSE 0
<1>1. \A i \in 1..10 : d(i) \in Nat
  <2>1. \A b \in Nat : b % 128 \in Nat
    BY SMT
  <2> QED
    BY <2>1, ByteSeq DEF Low7
<1> DEFINE a == d(1)
           b == d(2)
           c == d(3)
           e == d(4)
           f == d(5)
           g == d(6)
           h == d(7)
           i == d(8)
           j == d(9)
           k == d(10)
<1>2. /\ a \in Nat /\ b \in Nat /\ c \in Nat /\ e \in Nat /\ f \in Nat
      /\ g \in Nat /\ h \in Nat /\ i \in Nat /\ j \in Nat /\ k \in Nat
  BY <1>1
<1>3. Groups(s, n) = a + 128 * (b + 128 * (c + 128 * (e + 128 * (f + 128 * (g + 128 *
                        (h + 128 * (i + 128 * (j + 128 * k))))))))
  BY DEF Groups
<1> HIDE DEF a, b, c, e, f, g, h, i, j, k
<1> QED
  BY <1>2, <1>3, Horner

\* pb_read gives as many bytes as asked for and leaves bytes.
LEMMA ReadType ==
    ASSUME NEW s \in Seq(Byte), NEW n \in Nat, Read(s, n).ok
    PROVE  /\ Read(s, n).val \in [1..n -> Byte]
           /\ Read(s, n).val \in Seq(Byte) /\ Len(Read(s, n).val) = n
           /\ Read(s, n).rest \in Seq(Byte)
<1>1. Len(s) \in Nat /\ Len(s) >= n /\ Read(s, n).val = SubSeq(s, 1, n)
      /\ Read(s, n).rest = SubSeq(s, n + 1, Len(s))
  BY LenProperties DEF Read, Good, Bad
<1>2. \A i \in 1..Len(s) : s[i] \in Byte
  BY ElementOfSeq
<1>3. SubSeq(s, 1, n) \in Seq(Byte) /\ Len(SubSeq(s, 1, n)) = n
  BY <1>1, <1>2, SubSeqProperties
<1>4. SubSeq(s, n + 1, Len(s)) \in Seq(Byte)
  BY <1>1, <1>2, SubSeqProperties
<1> QED
  BY <1>1, <1>3, <1>4, LenProperties

\* What is left of a stream after its first n bytes.
LEMMA RestType ==
    ASSUME NEW s \in Seq(Byte), NEW n \in 0..Len(s)
    PROVE  /\ SubSeq(s, n + 1, Len(s)) \in Seq(Byte)
           /\ Len(SubSeq(s, n + 1, Len(s))) = Len(s) - n
           /\ \A i \in 1..(Len(s) - n) : SubSeq(s, n + 1, Len(s))[i] = s[n + i]
<1>1. Len(s) \in Nat /\ \A i \in 1..Len(s) : s[i] \in Byte
  BY ByteSeq
<1>2. n + 1 \in Int /\ Len(s) \in Int /\ \A i \in (n + 1)..Len(s) : s[i] \in Byte
  BY <1>1
<1>3. /\ SubSeq(s, n + 1, Len(s)) \in Seq(Byte)
      /\ Len(SubSeq(s, n + 1, Len(s))) = IF n + 1 <= Len(s) THEN Len(s) - (n + 1) + 1 ELSE 0
      /\ \A i \in 1..(Len(s) - (n + 1) + 1) : SubSeq(s, n + 1, Len(s))[i] = s[n + 1 + i - 1]
  BY <1>2, SubSeqProperties
<1> QED
  BY <1>1, <1>3

\* What the decoders of varints give: a number and the rest of the stream.
LEMMA DecodeVarintType ==
    ASSUME NEW s \in Seq(Byte), DecodeVarint(s).ok
    PROVE  DecodeVarint(s).val \in Nat /\ DecodeVarint(s).rest \in Seq(Byte)
<1>1. DecodeVarint(s) = Good(Groups(s, VarintLen(s)), SubSeq(s, VarintLen(s) + 1, Len(s)))
  BY DEF DecodeVarint, Bad
<1>2. VarintLen(s) \in 0..Len(s)
  BY VarintLenType
<1> QED
  BY <1>1, <1>2, GroupsType, RestType DEF Good

\* What pb_decode_varint32 returns for any bytes is a number, and it leaves bytes.
LEMMA DecodeVarint32Type ==
    ASSUME NEW s \in Seq(Byte), DecodeVarint32(s).ok
    PROVE  DecodeVarint32(s).val \in Nat /\ DecodeVarint32(s).rest \in Seq(Byte)
<1> DEFINE n == VarintLen(s)
           part == Width \div 7 + 1
           value == IF n < part THEN Groups(s, n) ELSE Groups(s, part) % UintMod
<1>1. DecodeVarint32(s) = Good(value, SubSeq(s, n + 1, Len(s)))
  BY DEF DecodeVarint32, Bad
<1>2. n \in 0..Len(s)
  BY VarintLenType
<1>3. value \in Nat
  <2>1. part \in Nat /\ UintMod \in Nat \ {0}
    BY Ranges, SMT
  <2>2. Groups(s, n) \in Nat
    BY <1>2, GroupsType
  <2>3. n >= part => Groups(s, part) \in Nat
    <3>1. n >= part => part \in 0..Len(s)
      BY <1>2, <2>1, ByteSeq
    <3> QED
      BY <3>1, GroupsType
  <2> HIDE DEF n, part
  <2>4. \A g \in Nat : g % UintMod \in Nat
    BY <2>1, SMT
  <2>5. n \in Int /\ part \in Int
    BY <1>2, <2>1, ByteSeq
  <2> QED
    BY <2>1, <2>2, <2>3, <2>4, <2>5
<1> HIDE DEF value, n
<1> QED
  BY <1>1, <1>2, <1>3, RestType DEF Good

-----------------------------------------------------------------------------
(***************************************************************************)
(* What is encoded is decoded.                                             *)
(***************************************************************************)

\* The digits of v in base 128.
LEMMA Digits ==
    ASSUME NEW v \in Nat
    PROVE  \E a \in Nat, b \in Nat, c \in Nat, d \in Nat :
             /\ v \div 2^(7 * (1 - 1)) = v /\ v \div 2^(7 * (2 - 1)) = a
             /\ v \div 2^(7 * (3 - 1)) = b /\ v \div 2^(7 * (4 - 1)) = c
             /\ v \div 2^(7 * (5 - 1)) = d
             /\ v = (v % 128) + 128 * a /\ a = (a % 128) + 128 * b
             /\ b = (b % 128) + 128 * c /\ c = (c % 128) + 128 * d
<1> DEFINE a == v \div 128
           b == v \div 16384
           c == v \div 2097152
           d == v \div 268435456
<1>1. a \in Nat /\ b \in Nat /\ c \in Nat /\ d \in Nat /\ v \div 1 = v
  BY SMT
<1>2. v = (v % 128) + 128 * a
  BY SMT
<1>3. a = (a % 128) + 128 * b
  BY SMT
<1>4. b = (b % 128) + 128 * c
  BY SMT
<1>5. c = (c % 128) + 128 * d
  BY SMT
<1> QED
  BY <1>1, <1>2, <1>3, <1>4, <1>5, Powers, SMT

\* pb_encode_varint writes one to five bytes, and no more than the value needs.
LEMMA SizeIs ==
    ASSUME NEW v \in Uint32
    PROVE  /\ VarintSize(v) \in 1..5
           /\ v < 2^(7 * VarintSize(v))
           /\ VarintSize(v) > 1 => v >= 2^(7 * (VarintSize(v) - 1))
<1>1. v \in Nat /\ v < 4294967296
  BY Ranges, Widths, SMT
<1>2. \E n \in 1..5 : v < 2^(7 * n) /\ (n > 1 => v >= 2^(7 * (n - 1)))
  <2>1. CASE v < 128
    <3>1. v < 2^(7 * 1)
      BY <2>1, Powers, SMT
    <3> QED
      BY <3>1, SMT
  <2>2. CASE v >= 128 /\ v < 16384
    <3>1. v < 2^(7 * 2) /\ v >= 2^(7 * (2 - 1))
      BY <2>2, Powers, SMT
    <3> QED
      BY <3>1, SMT
  <2>3. CASE v >= 16384 /\ v < 2097152
    <3>1. v < 2^(7 * 3) /\ v >= 2^(7 * (3 - 1))
      BY <2>3, Powers, SMT
    <3> QED
      BY <3>1, SMT
  <2>4. CASE v >= 2097152 /\ v < 268435456
    <3>1. v < 2^(7 * 4) /\ v >= 2^(7 * (4 - 1))
      BY <2>4, Powers, SMT
    <3> QED
      BY <3>1, SMT
  <2>5. CASE v >= 268435456
    <3>1. v < 2^(7 * 5) /\ v >= 2^(7 * (5 - 1))
      BY <1>1, <2>5, Powers, SMT
    <3> QED
      BY <3>1, SMT
  <2> QED
    BY <1>1, <2>1, <2>2, <2>3, <2>4, <2>5, SMT
<1> QED
  BY <1>2, Zenon DEF VarintSize

\* How many bytes a number takes.
LEMMA SizeBounds ==
    ASSUME NEW v \in Uint32
    PROVE  /\ v < 128 => VarintSize(v) = 1
           /\ v < 256 => VarintSize(v) <= 2
           /\ v < 65536 => VarintSize(v) <= 3
           /\ VarintSize(v) <= Width \div 7 + 1
           /\ VarintSize(v) < Wide \div 7 + 1
<1> DEFINE n == VarintSize(v)
<1>1. n \in 1..5 /\ v < 2^(7 * n) /\ (n > 1 => v >= 2^(7 * (n - 1)))
  BY SizeIs
<1>2. v \in Nat /\ v < UintMod
  BY Ranges
<1> HIDE DEF n
<1>3. \/ n = 1
      \/ n = 2 /\ v >= 128
      \/ n = 3 /\ v >= 16384
      \/ n = 4 /\ v >= 2097152
      \/ n = 5 /\ v >= 268435456
  <2>1. n = 1 \/ n = 2 \/ n = 3 \/ n = 4 \/ n = 5
    BY <1>1, SMT
  <2>2. CASE n = 2
    BY <1>1, <2>2, Powers, SMT
  <2>3. CASE n = 3
    BY <1>1, <2>3, Powers, SMT
  <2>4. CASE n = 4
    BY <1>1, <2>4, Powers, SMT
  <2>5. CASE n = 5
    BY <1>1, <2>5, Powers, SMT
  <2> QED
    BY <2>1, <2>2, <2>3, <2>4, <2>5, SMT
<1>4. \/ Width \div 7 + 1 = 3 /\ Wide \div 7 + 1 = 5 /\ UintMod = 32768
      \/ Width \div 7 + 1 = 5 /\ Wide \div 7 + 1 = 10
  BY Widths, SMT
<1>5. /\ v < 128 => n = 1
      /\ v < 256 => n <= 2
      /\ v < 65536 => n <= 3
  BY <1>2, <1>3, SMT
<1>6. n <= Width \div 7 + 1 /\ n < Wide \div 7 + 1
  BY <1>2, <1>3, <1>4, SMT
<1> QED
  BY <1>5, <1>6, SMT DEF n

\* A byte without its high bit.
LEMMA LowBits ==
    ASSUME NEW g \in Nat, g < 128
    PROVE  g % 128 = g /\ (g + 128) % 128 = g
BY SMT

\* The group i of v.
Group(v, i) == (v \div 2^(7 * (i - 1))) % 128

\* A group has seven bits.
LEMMA GroupType ==
    ASSUME NEW v \in Nat, NEW i \in 1..5
    PROVE  Group(v, i) \in 0..127
<1>1. PICK q \in Nat : q = v \div 2^(7 * (i - 1))
  <2>1. i = 1 \/ i = 2 \/ i = 3 \/ i = 4 \/ i = 5
    BY SMT
  <2>2. CASE i = 1
    BY <2>2, Digits, SMT
  <2>3. CASE i = 2
    BY <2>3, Digits, SMT
  <2>4. CASE i = 3
    BY <2>4, Digits, SMT
  <2>5. CASE i = 4
    BY <2>5, Digits, SMT
  <2>6. CASE i = 5
    BY <2>6, Digits, SMT
  <2> QED
    BY <2>1, <2>2, <2>3, <2>4, <2>5, <2>6, Zenon
<1>2. q % 128 \in 0..127
  BY SMT
<1> QED
  BY <1>1, <1>2, SMT DEF Group

\* The bytes of an encoded varint: all but the last have the high bit.
LEMMA VarintBytesAre ==
    ASSUME NEW v \in Uint32
    PROVE  /\ EncodeVarint(v) \in Seq(Byte)
           /\ Len(EncodeVarint(v)) = VarintSize(v)
           /\ \A i \in 1..VarintSize(v) :
                EncodeVarint(v)[i] = Group(v, i) + (IF i < VarintSize(v) THEN 128 ELSE 0)
<1> DEFINE n == VarintSize(v)
           e == EncodeVarint(v)
<1>1. n \in 1..5 /\ v \in Nat
  BY SizeIs, Ranges
<1>2. e = [i \in 1..n |-> Group(v, i) + (IF i < n THEN 128 ELSE 0)]
  BY Zenon DEF EncodeVarint, VarintBytes, Group
<1> HIDE DEF n, e
<1>3. \A i \in 1..n : Group(v, i) + (IF i < n THEN 128 ELSE 0) \in Byte
  <2> SUFFICES ASSUME NEW i \in 1..n PROVE Group(v, i) + (IF i < n THEN 128 ELSE 0) \in Byte
    OBVIOUS
  <2>1. Group(v, i) \in 0..127
    BY <1>1, GroupType
  <2> QED
    BY <2>1, <1>1 DEF Byte
<1>4. e \in [1..n -> Byte]
  BY <1>2, <1>3, Zenon
<1>5. e \in Seq(Byte) /\ Len(e) = n
  BY <1>1, <1>4
<1>6. \A i \in 1..n : e[i] = Group(v, i) + (IF i < n THEN 128 ELSE 0)
  BY <1>2, Zenon
<1> QED
  BY <1>5, <1>6 DEF n, e

\* A stream that begins with the bytes of v.
LEMMA VarintAtHead ==
    ASSUME NEW v \in Uint32, NEW s \in Seq(Byte), VarintSize(v) <= Len(s),
           \A i \in 1..VarintSize(v) : s[i] = EncodeVarint(v)[i]
    PROVE  /\ VarintLen(s) = VarintSize(v)
           /\ \A i \in 1..VarintSize(v) : Low7(s[i]) = Group(v, i)
<1> DEFINE n == VarintSize(v)
<1>1. n \in 1..5 /\ v \in Nat /\ Len(s) \in Nat
  BY SizeIs, Ranges, ByteSeq
<1>2. \A i \in 1..n : s[i] = Group(v, i) + (IF i < n THEN 128 ELSE 0)
  BY VarintBytesAre
<1> HIDE DEF n
<1>3. ASSUME NEW i \in 1..n PROVE \E g \in 0..127 : g = Group(v, i)
  <2>1. i \in 1..5
    BY <1>1
  <2> QED
    BY <1>1, <2>1, GroupType
<1>4. s[n] < 128 /\ \A i \in 1..(n - 1) : s[i] >= 128
  <2>1. n \in 1..n /\ \A i \in 1..(n - 1) : i \in 1..n /\ i < n
    BY <1>1
  <2>2. PICK g \in 0..127 : g = Group(v, n)
    BY <1>3, <2>1
  <2>3. s[n] = g + 0
    BY <1>1, <1>2, <2>1, <2>2
  <2>4. ASSUME NEW i \in 1..(n - 1) PROVE s[i] >= 128
    <3>1. PICK h \in 0..127 : h = Group(v, i)
      BY <1>3, <2>1
    <3>2. s[i] = h + 128
      BY <1>2, <2>1, <3>1
    <3> QED
      BY <3>2
  <2>5. s[n] < 128
    BY <2>3
  <2> QED
    BY <2>4, <2>5
<1>5. VarintLen(s) = n
  <2>1. n \in 1..Len(s)
    BY <1>1 DEF n
  <2> QED
    BY <2>1, <1>4, VarintLenIs
<1>7. \A i \in 1..n : Low7(s[i]) = Group(v, i)
  <2> SUFFICES ASSUME NEW i \in 1..n PROVE Low7(s[i]) = Group(v, i)
    OBVIOUS
  <2>1. PICK g \in 0..127 : g = Group(v, i)
    BY <1>3
  <2>2. s[i] = g \/ s[i] = g + 128
    BY <1>1, <1>2, <2>1
  <2>3. g % 128 = g /\ (g + 128) % 128 = g
    BY LowBits
  <2> QED
    BY <2>1, <2>2, <2>3 DEF Low7
<1> QED
  BY <1>5, <1>7 DEF n

\* A number below 128^k has k groups.
LEMMA Quotients ==
    ASSUME NEW v \in Nat, NEW a \in Nat, NEW b \in Nat, NEW c \in Nat, NEW d \in Nat,
           v = (v % 128) + 128 * a, a = (a % 128) + 128 * b,
           b = (b % 128) + 128 * c, c = (c % 128) + 128 * d
    PROVE  /\ v < 16384 => a < 128
           /\ v < 2097152 => b < 128
           /\ v < 268435456 => c < 128
           /\ v < 34359738368 => d < 128
<1>1. v % 128 \in Nat /\ a % 128 \in Nat /\ b % 128 \in Nat /\ c % 128 \in Nat
  BY SMT
<1>2. v >= 128 * a /\ a >= 128 * b /\ b >= 128 * c /\ c >= 128 * d
  BY <1>1, SMT
<1> QED
  BY <1>2, SMT

\* Its groups make v again.
LEMMA GroupsOfVarint ==
    ASSUME NEW v \in Uint32, NEW s \in Seq(Byte),
           \A i \in 1..VarintSize(v) : Low7(s[i]) = Group(v, i)
    PROVE  Groups(s, VarintSize(v)) = v
<1> DEFINE n == VarintSize(v)
<1>1. n \in 1..5 /\ v < 2^(7 * n) /\ v \in Nat
  BY SizeIs, Ranges
<1>2. PICK a \in Nat, b \in Nat, c \in Nat, d \in Nat :
             /\ v \div 2^(7 * (1 - 1)) = v /\ v \div 2^(7 * (2 - 1)) = a
             /\ v \div 2^(7 * (3 - 1)) = b /\ v \div 2^(7 * (4 - 1)) = c
             /\ v \div 2^(7 * (5 - 1)) = d
             /\ v = (v % 128) + 128 * a /\ a = (a % 128) + 128 * b
             /\ b = (b % 128) + 128 * c /\ c = (c % 128) + 128 * d
  BY <1>1, Digits, SMT
<1>3. /\ Group(v, 1) = v % 128 /\ Group(v, 2) = a % 128 /\ Group(v, 3) = b % 128
      /\ Group(v, 4) = c % 128 /\ Group(v, 5) = d % 128
  BY <1>2, SMT DEF Group
<1>4. \A i \in 1..n : Low7(s[i]) = Group(v, i)
  OBVIOUS
<1> HIDE DEF n
<1>5. n = 1 \/ n = 2 \/ n = 3 \/ n = 4 \/ n = 5
  BY <1>1, SMT
<1>6. Groups(s, n) = v
  <2>1. CASE n = 1
    <3>1. v < 128
      BY <1>1, <2>1, Powers, SMT
    <3>2. Low7(s[1]) = v
      BY <3>1, <1>1, <1>3, <1>4, <2>1, SMT
    <3>3. Groups(s, n) = v + 128 * 0
      BY <2>1, <3>2, <1>1, SMT DEF Groups
    <3> QED
      BY <3>3, <1>1, SMT
  <2>2. CASE n = 2
    <3>1. v < 16384
      BY <1>1, <2>2, Powers, SMT
    <3>2. a < 128
      BY <3>1, <1>1, <1>2, Quotients, SMT
    <3>5. a % 128 = a
      BY <3>2, LowBits
    <3>3. Low7(s[1]) = v % 128 /\ Low7(s[2]) = a
      BY <1>3, <1>4, <2>2, <3>5, SMT
    <3>4. Groups(s, n) = (v % 128) + 128 * a
      BY <2>2, <3>3, <1>1, SMT DEF Groups
    <3> QED
      BY <3>4, <1>2, SMT
  <2>3. CASE n = 3
    <3>1. v < 2097152
      BY <1>1, <2>3, Powers, SMT
    <3>2. b < 128
      BY <3>1, <1>1, <1>2, Quotients, SMT
    <3>5. b % 128 = b
      BY <3>2, LowBits
    <3>3. Low7(s[1]) = v % 128 /\ Low7(s[2]) = a % 128 /\ Low7(s[3]) = b
      BY <1>3, <1>4, <2>3, <3>5, SMT
    <3>4. Groups(s, n) = (v % 128) + 128 * ((a % 128) + 128 * b)
      BY <2>3, <3>3, <1>1, SMT DEF Groups
    <3> QED
      BY <3>4, <1>2, SMT
  <2>4. CASE n = 4
    <3>1. v < 268435456
      BY <1>1, <2>4, Powers, SMT
    <3>2. c < 128
      BY <3>1, <1>1, <1>2, Quotients, SMT
    <3>5. c % 128 = c
      BY <3>2, LowBits
    <3>3. /\ Low7(s[1]) = v % 128 /\ Low7(s[2]) = a % 128 /\ Low7(s[3]) = b % 128
          /\ Low7(s[4]) = c
      BY <1>3, <1>4, <2>4, <3>5, SMT
    <3>4. Groups(s, n) = (v % 128) + 128 * ((a % 128) + 128 * ((b % 128) + 128 * c))
      BY <2>4, <3>3, <1>1, SMT DEF Groups
    <3> QED
      BY <3>4, <1>2, SMT
  <2>5. CASE n = 5
    <3>1. v < 34359738368
      BY <1>1, <2>5, Powers, SMT
    <3>2. d < 128
      BY <3>1, <1>1, <1>2, Quotients, SMT
    <3>5. d % 128 = d
      BY <3>2, LowBits
    <3>3. /\ Low7(s[1]) = v % 128 /\ Low7(s[2]) = a % 128 /\ Low7(s[3]) = b % 128
          /\ Low7(s[4]) = c % 128 /\ Low7(s[5]) = d
      BY <1>3, <1>4, <2>5, <3>5, SMT
    <3>4. Groups(s, n)
            = (v % 128) + 128 * ((a % 128) + 128 * ((b % 128) + 128 * ((c % 128) + 128 * d)))
      BY <2>5, <3>3, <1>1, SMT DEF Groups
    <3> QED
      BY <3>4, <1>2, SMT
  <2> QED
    BY <1>5, <2>1, <2>2, <2>3, <2>4, <2>5, SMT
<1> QED
  BY <1>6 DEF n

\* What follows the head of a concatenation.
LEMMA RestOfConcat ==
    ASSUME NEW e \in Seq(Byte), NEW r \in Seq(Byte)
    PROVE  /\ e \o r \in Seq(Byte) /\ Len(e \o r) = Len(e) + Len(r)
           /\ \A i \in 1..Len(e) : (e \o r)[i] = e[i]
           /\ SubSeq(e \o r, Len(e) + 1, Len(e \o r)) = r
<1> DEFINE s == e \o r
           t == SubSeq(s, Len(e) + 1, Len(s))
<1>1. Len(e) \in Nat /\ Len(r) \in Nat
  BY ByteSeq
<1>2. /\ s \in Seq(Byte) /\ Len(s) = Len(e) + Len(r)
      /\ \A i \in 1..(Len(e) + Len(r)) : s[i] = IF i <= Len(e) THEN e[i] ELSE r[i - Len(e)]
  BY ConcatProperties, Zenon
<1> HIDE DEF s
<1>3. Len(e) \in 0..Len(s)
  BY <1>1, <1>2
<1>4. /\ t \in Seq(Byte) /\ Len(t) = Len(s) - Len(e)
      /\ \A i \in 1..(Len(s) - Len(e)) : t[i] = s[Len(e) + i]
  BY <1>2, <1>3, RestType
<1> HIDE DEF t
<1>5. t = r
  <2>1. Len(t) = Len(r)
    BY <1>1, <1>2, <1>4
  <2>2. ASSUME NEW i \in 1..Len(t) PROVE t[i] = r[i]
    <3>1. PICK m \in Nat, k \in Nat : m = Len(e) /\ k = Len(r)
      BY <1>1
    <3>2. i \in 1..k /\ m + i \in 1..(m + k) /\ ~(m + i <= m) /\ (m + i) - m = i
      BY <2>1, <3>1
    <3>3. t[i] = s[m + i]
      BY <1>2, <1>4, <2>1, <3>1, <3>2
    <3>4. s[m + i] = r[(m + i) - m]
      BY <1>2, <3>1, <3>2
    <3> QED
      BY <3>2, <3>3, <3>4
  <2> QED
    BY <1>4, <2>1, <2>2, SeqEqual
<1>6. \A i \in 1..Len(e) : s[i] = e[i]
  BY <1>1, <1>2
<1> QED
  BY <1>2, <1>5, <1>6 DEF s, t

\* Concatenation of bytes.
LEMMA BytesAssociative ==
    ASSUME NEW s \in Seq(Byte), NEW t \in Seq(Byte), NEW u \in Seq(Byte)
    PROVE  (s \o t) \o u = s \o (t \o u)
BY ConcatAssociative

\* The top group of a uint32_t has only the bits that are left for it.
LEMMA TopGroup ==
    ASSUME NEW v \in Uint32
    PROVE  Group(v, Width \div 7 + 1) < 2^(Width - 7 * ((Width \div 7 + 1) - 1))
<1>1. v \in Nat /\ v < UintMod
  BY Ranges
<1>2. PICK b \in Nat, d \in Nat :
             /\ v \div 2^(7 * (3 - 1)) = b /\ v \div 2^(7 * (5 - 1)) = d
             /\ v >= 16384 * b /\ v >= 268435456 * d
  BY <1>1, Powers, SMT
<1>3. CASE Width = 15
  <2>1. UintMod = 32768 /\ Width \div 7 + 1 = 3
        /\ 2^(Width - 7 * ((Width \div 7 + 1) - 1)) = 2
    BY <1>3, Widths, SMT
  <2>2. b < 2
    BY <1>1, <1>2, <2>1, SMT
  <2>3. b % 128 = b
    BY <2>2, LowBits
  <2>4. Group(v, 3) = b
    BY <1>2, <2>3, SMT DEF Group
  <2> QED
    BY <2>1, <2>2, <2>4, SMT
<1>4. CASE Width = 32
  <2>1. UintMod = 4294967296 /\ Width \div 7 + 1 = 5
        /\ 2^(Width - 7 * ((Width \div 7 + 1) - 1)) = 16
    BY <1>4, Widths, SMT
  <2>2. d < 16
    BY <1>1, <1>2, <2>1, SMT
  <2>3. d % 128 = d
    BY <2>2, LowBits
  <2>4. Group(v, 5) = d
    BY <1>2, <2>3, SMT DEF Group
  <2> QED
    BY <2>1, <2>2, <2>4, SMT
<1> QED
  BY <1>3, <1>4, WidthAssumption

\* pb_decode_varint and pb_decode_varint32 read what pb_encode_varint wrote,
\* and nothing of what follows.
LEMMA VarintRoundTrip ==
    ASSUME NEW v \in Uint32, NEW r \in Seq(Byte)
    PROVE  /\ DecodeVarint(EncodeVarint(v) \o r) = Good(v, r)
           /\ DecodeVarint32(EncodeVarint(v) \o r) = Good(v, r)
<1> DEFINE e == EncodeVarint(v)
           n == VarintSize(v)
           s == e \o r
           part == Width \div 7 + 1
           last == Wide \div 7 + 1
           bits == Width - 7 * (part - 1)
<1>1. e \in Seq(Byte) /\ Len(e) = n /\ n \in 1..5 /\ v \in Nat /\ Len(r) \in Nat
  BY VarintBytesAre, SizeIs, Ranges, ByteSeq
<1>2. /\ s \in Seq(Byte) /\ Len(s) = n + Len(r)
      /\ \A i \in 1..n : s[i] = e[i]
      /\ SubSeq(s, n + 1, Len(s)) = r
  BY <1>1, RestOfConcat
<1>3. n <= part /\ n < last /\ part \in Nat /\ last \in Nat
  <2>1. Wide \div 7 + 1 \in Nat /\ Width \div 7 + 1 \in Nat
    BY Ranges
  <2> QED
    BY <2>1, SizeBounds
<1>4. VarintLen(s) = n /\ \A i \in 1..n : Low7(s[i]) = Group(v, i)
  <2>1. n <= Len(s)
    BY <1>1, <1>2
  <2> QED
    BY <1>2, <2>1, VarintAtHead
<1>5. Groups(s, n) = v
  BY <1>2, <1>4, GroupsOfVarint
<1>6. Group(v, part) < 2^bits
  BY TopGroup
<1>7. v % UintMod = v
  <2>1. v < UintMod /\ UintMod \in Nat
    BY Ranges
  <2> QED
    BY <1>1, <2>1, SMT
<1> HIDE DEF e, n, s, bits
<1>8. DecodeVarint(s) = Good(v, r)
  <2> HIDE DEF last
  <2>1. n # 0 /\ ~(n > last) /\ n # last
    BY <1>1, <1>3
  <2> QED
    BY <1>2, <1>4, <1>5, <2>1 DEF DecodeVarint, last
<1>9. DecodeVarint32(s) = Good(v, r)
  <2> HIDE DEF part
  <2>1. n # 0 /\ (part + 1)..n = {}
    BY <1>1, <1>3
  <2>2. (IF n < part THEN Groups(s, n) ELSE Groups(s, part) % UintMod) = v
    <3>1. CASE n < part
      BY <3>1, <1>5
    <3>2. CASE ~(n < part)
      <4>1. n = part
        BY <3>2, <1>1, <1>3
      <4> QED
        BY <3>2, <4>1, <1>5, <1>7
    <3> QED
      BY <3>1, <3>2
  <2>3. n >= part => Low7(s[part]) < 2^bits
    <3>1. n >= part => part \in 1..n /\ part = n
      BY <1>1, <1>3
    <3> QED
      BY <3>1, <1>4, <1>6
  <2> QED
    BY <1>2, <1>4, <2>1, <2>2, <2>3, Zenon DEF DecodeVarint32, part, bits
<1> QED
  BY <1>8, <1>9 DEF s, e

\* A varint that is cut off is refused.
LEMMA CutVarint ==
    ASSUME NEW v \in Uint32, NEW s \in Seq(Byte), Len(s) < VarintSize(v),
           \A i \in 1..Len(s) : s[i] = EncodeVarint(v)[i]
    PROVE  DecodeVarint(s) = Bad /\ DecodeVarint32(s) = Bad
<1> DEFINE n == VarintSize(v)
           m == VarintLen(s)
<1>1. n \in 1..5 /\ v \in Nat /\ Len(s) \in Nat
  BY SizeIs, Ranges, ByteSeq
<1>2. ASSUME NEW i \in 1..Len(s) PROVE s[i] >= 128
  <2>1. i \in 1..n /\ i < n /\ i \in 1..5
    BY <1>1
  <2>2. s[i] = Group(v, i) + 128
    BY <2>1, VarintBytesAre
  <2>3. PICK g \in 0..127 : g = Group(v, i)
    BY <1>1, <2>1, GroupType
  <2>4. s[i] = g + 128
    BY <2>2, <2>3
  <2> QED
    BY <2>4
<1>3. m \in 0..Len(s) /\ (m # 0 => s[m] < 128)
  BY VarintLenType
<1>4. \A i \in 1..Len(s) : s[i] \in Nat
  BY ByteSeq
<1> HIDE DEF m
<1>5. m = 0
  <2> SUFFICES ASSUME m # 0 PROVE FALSE
    OBVIOUS
  <2>1. m \in 1..Len(s)
    BY <1>1, <1>3
  <2>2. s[m] >= 128 /\ s[m] < 128 /\ s[m] \in Nat
    BY <1>2, <1>3, <1>4, <2>1
  <2> QED
    BY <2>2
<1> QED
  BY <1>5 DEF m, DecodeVarint, DecodeVarint32
\* Zigzag in Wide bits: the complement never borrows from the sign.
LEMMA WideComplement ==
    ASSUME NEW h \in Nat, NEW M \in Nat, M = 2 * h, h > 0,
           NEW v \in Int, v < 0, 0 - v <= h
    PROVE  M * M - 1 - 2 * ((M * M + v) % ((M * M) \div 2)) = 0 - (2 * v) - 1
<1>1. PICK H \in Nat : H = h * M /\ M * M = 2 * H /\ H >= h
  BY SMT
<1>2. PICK W \in Nat : W = M * M
  BY <1>1
<1>3. W \div 2 = H /\ W + v \in Nat /\ H <= W + v /\ W + v < 2 * H
  BY <1>1, <1>2, SMT
<1>4. (W + v) % H = (W + v) - H
  BY <1>3, SMT
<1>5. W - 1 - 2 * ((W + v) % (W \div 2)) = 0 - (2 * v) - 1
  BY <1>1, <1>2, <1>3, <1>4, SMT
<1> QED
  BY <1>2, <1>5

\* pb_decode_svarint undoes pb_encode_svarint, which fits 32 bits.
LEMMA ZigZagRoundTrip ==
    ASSUME NEW v \in Int32
    PROVE  ZigZag(v) \in Uint32 /\ UnZigZag(ZigZag(v)) = v
<1>1. PICK h \in Nat : h = 2^(Width - 1)
  BY Ranges
<1>2. PICK M \in Nat : M = UintMod
  BY Ranges
<1>3. M = 2 * h /\ h > 0 /\ v \in Int /\ 0 - h <= v /\ v < h
  BY <1>1, <1>2, Ranges DEF Int32
<1>4. CASE v < 0
  <2>1. ZigZag(v) = 0 - (2 * v) - 1
    BY <1>2, <1>3, <1>4, WideComplement DEF ZigZag, WideMod
  <2>2. ZigZag(v) \in Nat /\ ZigZag(v) < UintMod
    BY <1>2, <1>3, <1>4, <2>1
  <2>3. ZigZag(v) % 2 = 1 /\ ZigZag(v) \div 2 = 0 - v - 1
    BY <1>3, <1>4, <2>1
  <2> QED
    BY <1>3, <2>2, <2>3, Ranges DEF UnZigZag
<1>5. CASE v >= 0
  <2>1. ZigZag(v) = 2 * v
    BY <1>3, <1>5 DEF ZigZag
  <2>2. ZigZag(v) \in Nat /\ ZigZag(v) < UintMod
    BY <1>2, <1>3, <1>5, <2>1
  <2>3. ZigZag(v) % 2 = 0 /\ ZigZag(v) \div 2 = v
    BY <1>3, <1>5, <2>1
  <2> QED
    BY <1>3, <2>2, <2>3, Ranges DEF UnZigZag
<1> QED
  BY <1>3, <1>4, <1>5

\* The descriptor has 15 fields, and 17 is its largest tag.
LEMMA DescriptorLen == FieldCount = 15 /\ LargestTag = 17 /\ Len(Descriptor) = 15
BY DEF FieldCount, LargestTag, Descriptor, Field

\* mesh_MeshMessage_FIELDLIST, as a table.
LEMMA DescriptorTable ==
    \A i \in 1..15 :
      /\ Descriptor[i].tag = IF i = 15 THEN 17 ELSE i
      /\ Descriptor[i].type = CASE i \in {1, 7, 8, 9, 10, 12} -> "uint"
                                [] i = 2 -> "sint"
                                [] i \in {3, 4, 5} -> "fixed"
                                [] i \in {6, 11, 13, 14} -> "bytes"
                                [] i = 15 -> "callback"
      /\ Descriptor[i].size = CASE i \in {3, 4, 5} -> 6
                                [] i = 6 -> 64 [] i = 11 -> 32 [] i = 13 -> 48 [] i = 14 -> 16
                                [] OTHER -> 0
      /\ Descriptor[i].hasFlag <=> i \in {6, 11, 12, 13, 14}
<1> SUFFICES ASSUME NEW i \in 1..15 PROVE
      /\ Descriptor[i].tag = IF i = 15 THEN 17 ELSE i
      /\ Descriptor[i].type = CASE i \in {1, 7, 8, 9, 10, 12} -> "uint"
                                [] i = 2 -> "sint"
                                [] i \in {3, 4, 5} -> "fixed"
                                [] i \in {6, 11, 13, 14} -> "bytes"
                                [] i = 15 -> "callback"
      /\ Descriptor[i].size = CASE i \in {3, 4, 5} -> 6
                                [] i = 6 -> 64 [] i = 11 -> 32 [] i = 13 -> 48 [] i = 14 -> 16
                                [] OTHER -> 0
      /\ Descriptor[i].hasFlag <=> i \in {6, 11, 12, 13, 14}
  OBVIOUS
<1>1. \/ i = 1 \/ i = 2 \/ i = 3 \/ i = 4 \/ i = 5 \/ i = 6 \/ i = 7 \/ i = 8
      \/ i = 9 \/ i = 10 \/ i = 11 \/ i = 12 \/ i = 13 \/ i = 14 \/ i = 15
  OBVIOUS
<1> QED
  BY <1>1 DEF Descriptor, Field

\* No two members of the struct have one name.
LEMMA NamesDistinct ==
    \A i, j \in 1..15 : Descriptor[i].name = Descriptor[j].name => i = j
BY DEF Descriptor, Field

\* A field is found by its name.
LEMMA FieldOfName ==
    ASSUME NEW i \in 1..15
    PROVE  FieldOf(Descriptor[i].name) = Descriptor[i]
BY NamesDistinct, DescriptorLen DEF FieldOf

\* The names of the fields, in their order.
LEMMA NamesAre ==
    /\ Descriptor[1].name = "messageType" /\ Descriptor[2].name = "dataType"
    /\ Descriptor[3].name = "originMacAddress" /\ Descriptor[4].name = "targetMacAddress"
    /\ Descriptor[5].name = "lastHopMacAddress" /\ Descriptor[6].name = "data"
    /\ Descriptor[7].name = "hopCount" /\ Descriptor[8].name = "epochNum"
    /\ Descriptor[9].name = "seqNum" /\ Descriptor[10].name = "protoVersion"
    /\ Descriptor[11].name = "public_key" /\ Descriptor[12].name = "routeLen"
    /\ Descriptor[13].name = "routePath" /\ Descriptor[14].name = "authTag"
    /\ Descriptor[15].name = "authPath"
BY DEF Descriptor, Field

\* An index is one of fifteen.
LEMMA FifteenFields ==
    ASSUME NEW i \in 1..15
    PROVE  \/ i = 1 \/ i = 2 \/ i = 3 \/ i = 4 \/ i = 5 \/ i = 6 \/ i = 7 \/ i = 8
           \/ i = 9 \/ i = 10 \/ i = 11 \/ i = 12 \/ i = 13 \/ i = 14 \/ i = 15
OBVIOUS

\* The last one is authPath.
LEMMA LastField ==
    \A i \in 1..15 : i \in 1..14 \/ i = 15
OBVIOUS

\* The types of the fields.
LEMMA FieldTypes ==
    ASSUME NEW i
    PROVE  /\ i \in {1, 7, 8, 9, 10, 12} => Descriptor[i].type = "uint"
           /\ i = 2 => Descriptor[i].type = "sint"
           /\ i \in {3, 4, 5} => Descriptor[i].type = "fixed"
           /\ i \in {6, 11, 13, 14} => Descriptor[i].type = "bytes"
BY DEF Descriptor, Field

\* Zeroed members.
LEMMA ZeroesFit ==
    ASSUME NEW f, f.size \in Nat,
           f.type \in {"uint", "sint", "fixed", "bytes", "callback"}
    PROVE  ZeroOf(f) \in FieldValues(f)
<1>1. Zeros(f.size) \in [1..f.size -> Byte]
  BY DEF Zeros, Byte
<1>2. 0 \in Uint32 /\ 0 \in Int32 /\ 0 \in 0..f.size
  BY Ranges
<1>3. CASE f.type = "fixed"
  BY <1>1, <1>3 DEF ZeroOf, FieldValues
<1>4. CASE f.type = "bytes"
  BY <1>1, <1>2, <1>4 DEF ZeroOf, FieldValues
<1>5. CASE f.type = "uint"
  BY <1>2, <1>5 DEF ZeroOf, FieldValues
<1>6. CASE f.type = "sint"
  BY <1>2, <1>6 DEF ZeroOf, FieldValues
<1>7. CASE f.type = "callback"
  BY <1>7 DEF ZeroOf, FieldValues
<1> QED
  BY <1>3, <1>4, <1>5, <1>6, <1>7

\* The value of field i in a message, and the field's zero.
PbVal(m, i) == ToPb(m).val[Descriptor[i].name]
ZeroVal(i) == ZeroOf(Descriptor[i])
Keyed(m) == m.type \in {ENROLLMENT, JOIN_ACK} /\ m.key /= Zeros(32)

\* The memset zeroes every field.
LEMMA ZeroVals ==
    ASSUME NEW i \in 1..15
    PROVE  ZeroMessage.val[Descriptor[i].name] = ZeroVal(i)
<1>1. Descriptor[i].name \in FieldNames
  BY DescriptorLen DEF FieldNames
<1> QED
  BY <1>1, FieldOfName DEF ZeroMessage, ZeroVal

\* Both structs have the members of the descriptor.
LEMMA PbShape ==
    /\ ZeroMessage = [has |-> {}, val |-> [n \in FieldNames |-> ZeroMessage.val[n]]]
    /\ \A m : ToPb(m) = [has |-> ToPb(m).has, val |-> [n \in FieldNames |-> ToPb(m).val[n]]]
<1>1. ZeroMessage = [has |-> {}, val |-> [n \in FieldNames |-> ZeroMessage.val[n]]]
  BY DEF ZeroMessage
<1>2. ASSUME NEW m
      PROVE  ToPb(m) = [has |-> ToPb(m).has, val |-> [n \in FieldNames |-> ToPb(m).val[n]]]
  BY SMTT(30) DEF ToPb
<1> QED
  BY <1>1, <1>2, Zenon

\* What encode copies into each member of pbMsg.
LEMMA PbVals ==
    ASSUME NEW m \in MeshMessage
    PROVE  /\ PbVal(m, 1) = m.type /\ PbVal(m, 2) = m.dataType
           /\ PbVal(m, 3) = m.origin /\ PbVal(m, 4) = m.target /\ PbVal(m, 5) = m.lastHop
           /\ PbVal(m, 6) = [size |-> 64, bytes |-> m.data]
           /\ PbVal(m, 7) = m.hop /\ PbVal(m, 8) = m.epoch /\ PbVal(m, 9) = m.seq
           /\ PbVal(m, 10) = m.version
           /\ PbVal(m, 11) = IF Keyed(m) THEN [size |-> 32, bytes |-> m.key] ELSE ZeroVal(11)
           /\ \A i \in 12..15 : PbVal(m, i) = ZeroVal(i)
<1>1. \A i \in 1..15 : Descriptor[i].name \in FieldNames
  BY DescriptorLen DEF FieldNames
<1>2. \A i \in 1..15 : ZeroOf(FieldOf(Descriptor[i].name)) = ZeroVal(i)
  BY FieldOfName DEF ZeroVal
<1>3. \A i \in 12..15 : i = 12 \/ i = 13 \/ i = 14 \/ i = 15
  OBVIOUS
<1>4. /\ PbVal(m, 1) = m.type /\ PbVal(m, 2) = m.dataType
      /\ PbVal(m, 3) = m.origin /\ PbVal(m, 4) = m.target /\ PbVal(m, 5) = m.lastHop
  BY <1>1, NamesAre DEF PbVal, ToPb
<1>5. /\ PbVal(m, 6) = [size |-> 64, bytes |-> m.data]
      /\ PbVal(m, 7) = m.hop /\ PbVal(m, 8) = m.epoch /\ PbVal(m, 9) = m.seq
      /\ PbVal(m, 10) = m.version
  BY <1>1, NamesAre DEF PbVal, ToPb
<1>6. PbVal(m, 11) = IF Keyed(m) THEN [size |-> 32, bytes |-> m.key] ELSE ZeroVal(11)
  BY <1>1, <1>2, NamesAre DEF PbVal, ToPb, Keyed
<1>7. PbVal(m, 12) = ZeroVal(12) /\ PbVal(m, 13) = ZeroVal(13)
      /\ PbVal(m, 14) = ZeroVal(14) /\ PbVal(m, 15) = ZeroVal(15)
  BY <1>1, <1>2, NamesAre DEF PbVal, ToPb
<1> QED
  BY <1>3, <1>4, <1>5, <1>6, <1>7

\* encode sets has_data always and has_public_key for a key that is not zero.
LEMMA PbHas ==
    ASSUME NEW m, NEW i \in 1..15
    PROVE  Descriptor[i].name \in ToPb(m).has <=> i = 6 \/ (i = 11 /\ Keyed(m))
<1>1. ToPb(m).has = {"data"} \cup (IF Keyed(m) THEN {"public_key"} ELSE {})
  BY DEF ToPb, Keyed
<1>2. Descriptor[i].name = "data" <=> i = 6
  BY NamesAre, NamesDistinct
<1>3. Descriptor[i].name = "public_key" <=> i = 11
  BY NamesAre, NamesDistinct
<1> QED
  BY <1>1, <1>2, <1>3

-----------------------------------------------------------------------------
(***************************************************************************)
(* The bytes of a field.                                                   *)
(***************************************************************************)

\* A number below 128 takes one byte.
LEMMA OneByte ==
    ASSUME NEW v \in Nat, v < 128
    PROVE  EncodeVarint(v) = <<v>> /\ v \in Uint32 /\ <<v>> \in Seq(Byte) /\ Len(<<v>>) = 1
<1>1. v \in Uint32 /\ VarintSize(v) = 1
  BY Ranges, SizeBounds
<1>2. Len(EncodeVarint(v)) = 1 /\ EncodeVarint(v) \in Seq(Byte)
      /\ \A i \in 1..1 : EncodeVarint(v)[i] = Group(v, i) + (IF i < 1 THEN 128 ELSE 0)
  <2>1. /\ EncodeVarint(v) \in Seq(Byte)
        /\ Len(EncodeVarint(v)) = VarintSize(v)
        /\ \A i \in 1..VarintSize(v) :
             EncodeVarint(v)[i] = Group(v, i) + (IF i < VarintSize(v) THEN 128 ELSE 0)
    BY <1>1, VarintBytesAre
  <2> QED
    BY <1>1, <2>1, Zenon
<1>3. Group(v, 1) = v
  <2>1. v \div 2^(7 * (1 - 1)) = v
    BY Powers, SMT
  <2>2. v % 128 = v
    BY LowBits
  <2> QED
    BY <2>1, <2>2 DEF Group
<1>4. <<v>> \in Seq(Byte) /\ Len(<<v>>) = 1
  BY DEF Byte
<1>5. EncodeVarint(v)[1] = v
  BY <1>2, <1>3
<1> DEFINE e == EncodeVarint(v)
<1> HIDE DEF e
<1>6. e = <<v>>
  <2>1. Len(e) = 1 /\ e \in Seq(Byte) /\ e[1] = v
    BY <1>2, <1>5 DEF e
  <2>2. \A i \in 1..Len(e) : e[i] = <<v>>[i]
    BY <2>1
  <2> QED
    BY <1>4, <2>1, <2>2, SeqEqual
<1> QED
  BY <1>1, <1>4, <1>6 DEF e

\* An array of bytes is a sequence.
LEMMA ArrayIsSeq ==
    ASSUME NEW n \in Nat, NEW a \in [1..n -> Byte]
    PROVE  a \in Seq(Byte) /\ Len(a) = n /\ SubSeq(a, 1, n) = a
<1>1. a \in Seq(Byte) /\ Len(a) = n
  OBVIOUS
<1> QED
  BY <1>1, SubSeqFull

\* The fields that are numbers and the ones that are strings, what they hold,
\* and their bytes in the frame.
Number(m, i) == IF i = 2 THEN ZigZag(m.dataType) ELSE PbVal(m, i)
Text(m, i) == IF i \in {3, 4, 5} THEN PbVal(m, i) ELSE PbVal(m, i).bytes
HasNumber(m, i) == i \in {1, 2, 7, 8, 9, 10} /\ Number(m, i) # 0
HasText(m, i) == i \in {3, 4, 5, 6} \/ (i = 11 /\ Keyed(m))
TextSize(i) == IF i = 6 THEN 64 ELSE IF i = 11 THEN 32 ELSE 6
FieldBytes(m, i) ==
    IF HasNumber(m, i) THEN <<8 * i>> \o EncodeVarint(Number(m, i))
    ELSE IF HasText(m, i) THEN <<(8 * i) + 2>> \o (<<TextSize(i)>> \o Text(m, i))
    ELSE << >>

\* The members of a mesh_message.
LEMMA MessageTypes ==
    ASSUME NEW m \in MeshMessage
    PROVE  /\ m.type \in Byte /\ m.dataType \in Int32
           /\ m.origin \in [1..6 -> Byte] /\ m.lastHop \in [1..6 -> Byte]
           /\ m.target \in [1..6 -> Byte] /\ m.data \in [1..64 -> Byte]
           /\ m.hop \in Byte /\ m.epoch \in Uint32 /\ m.seq \in Uint32 /\ m.seq < 65536
           /\ m.version \in Byte /\ m.key \in [1..32 -> Byte] /\ m.room \in Nat
<1>1. 2^16 = 65536
  BY Powers, SMT
<1> QED
  BY <1>1, SMT DEF MeshMessage, Mac

\* A number that encode writes fits 32 bits and is zero only with its member.
LEMMA NumberType ==
    ASSUME NEW m \in MeshMessage, NEW i \in {1, 2, 7, 8, 9, 10}
    PROVE  /\ Number(m, i) \in Uint32
           /\ i = 2 => UnZigZag(Number(m, i)) = m.dataType
           /\ i = 2 => (Number(m, i) = 0 <=> m.dataType = 0)
           /\ i # 2 => Number(m, i) = PbVal(m, i)
<1>0. m.dataType \in Int32 /\ m.type \in Byte /\ m.hop \in Byte /\ m.version \in Byte
      /\ m.epoch \in Uint32 /\ m.seq \in Uint32
  BY MessageTypes
<1>1. m.dataType \in Int32 /\ m.type \in Uint32 /\ m.hop \in Uint32 /\ m.version \in Uint32
      /\ m.epoch \in Uint32 /\ m.seq \in Uint32
  BY <1>0, Ranges
<1>2. ZigZag(m.dataType) \in Uint32 /\ UnZigZag(ZigZag(m.dataType)) = m.dataType
  BY <1>1, ZigZagRoundTrip
<1>3. ZigZag(0) = 0 /\ UnZigZag(0) = 0
  BY DEF ZigZag, UnZigZag
<1> QED
  BY <1>1, <1>2, <1>3, PbVals DEF Number

\* A string that encode writes is as long as the array of its field.
LEMMA TextType ==
    ASSUME NEW m \in MeshMessage, NEW i \in {3, 4, 5, 6, 11}, HasText(m, i)
    PROVE  /\ Text(m, i) \in [1..TextSize(i) -> Byte]
           /\ Text(m, i) \in Seq(Byte) /\ Len(Text(m, i)) = TextSize(i)
           /\ TextSize(i) \in 1..64 /\ TextSize(i) = Descriptor[i].size
<1>1. Text(m, i) \in [1..TextSize(i) -> Byte]
  <2>1. CASE i \in {3, 4, 5}
    <3>1. m.origin \in [1..6 -> Byte] /\ m.lastHop \in [1..6 -> Byte]
          /\ m.target \in [1..6 -> Byte]
      BY MessageTypes
    <3>2. PbVal(m, 3) = m.origin /\ PbVal(m, 4) = m.target /\ PbVal(m, 5) = m.lastHop
      BY PbVals
    <3>3. Text(m, i) = PbVal(m, i) /\ TextSize(i) = 6
      BY <2>1 DEF Text, TextSize
    <3> QED
      BY <2>1, <3>1, <3>2, <3>3
  <2>2. CASE i = 6
    BY <2>2, MessageTypes, PbVals DEF Text, TextSize
  <2>3. CASE i = 11
    <3>1. Keyed(m)
      BY <2>3 DEF HasText
    <3> QED
      BY <2>3, <3>1, MessageTypes, PbVals DEF Text, TextSize
  <2> QED
    BY <2>1, <2>2, <2>3
<1>2. TextSize(i) \in 1..64 /\ TextSize(i) = Descriptor[i].size
  BY DescriptorTable DEF TextSize
<1>3. TextSize(i) \in Nat
  BY <1>2
<1> QED
  BY <1>1, <1>2, <1>3, ArrayIsSeq

\* The kinds of field bytes, apart.
LEMMA FieldKinds ==
    ASSUME NEW m \in MeshMessage, NEW i \in 1..15
    PROVE  /\ HasNumber(m, i) =>
                /\ i \in {1, 2, 7, 8, 9, 10} /\ ~HasText(m, i)
                /\ FieldBytes(m, i) = <<8 * i>> \o EncodeVarint(Number(m, i))
           /\ HasText(m, i) =>
                /\ i \in {3, 4, 5, 6, 11} /\ ~HasNumber(m, i)
                /\ FieldBytes(m, i) = <<(8 * i) + 2>> \o (<<TextSize(i)>> \o Text(m, i))
           /\ ~HasNumber(m, i) /\ ~HasText(m, i) => FieldBytes(m, i) = << >>
<1>1. ~(HasNumber(m, i) /\ HasText(m, i))
  BY DEF HasNumber, HasText
<1>2. HasNumber(m, i) => i \in {1, 2, 7, 8, 9, 10}
  BY DEF HasNumber
<1>3. HasText(m, i) => i \in {3, 4, 5, 6, 11}
  BY DEF HasText
<1> QED
  BY <1>1, <1>2, <1>3, Zenon DEF FieldBytes

\* The length of a field in the frame: tag and varint, or tag, length and bytes.
LEMMA FieldBytesType ==
    ASSUME NEW m \in MeshMessage, NEW i \in 1..15
    PROVE  /\ FieldBytes(m, i) \in Seq(Byte) /\ Len(FieldBytes(m, i)) \in Nat
           /\ Len(FieldBytes(m, i)) = IF HasNumber(m, i) THEN 1 + VarintSize(Number(m, i))
                                      ELSE IF HasText(m, i) THEN 2 + TextSize(i)
                                      ELSE 0
<1>1. CASE HasNumber(m, i)
  <2>1. i \in {1, 2, 7, 8, 9, 10} /\ FieldBytes(m, i) = <<8 * i>> \o EncodeVarint(Number(m, i))
    BY <1>1, FieldKinds
  <2>2. Number(m, i) \in Uint32
    BY <2>1, NumberType
  <2>3. <<8 * i>> \in Seq(Byte) /\ Len(<<8 * i>>) = 1
    BY <2>1, OneByte
  <2>4. EncodeVarint(Number(m, i)) \in Seq(Byte)
        /\ Len(EncodeVarint(Number(m, i))) = VarintSize(Number(m, i))
    BY <2>2, VarintBytesAre
  <2>5. FieldBytes(m, i) \in Seq(Byte)
        /\ Len(FieldBytes(m, i)) = 1 + VarintSize(Number(m, i))
    BY <2>1, <2>3, <2>4, RestOfConcat
  <2> QED
    BY <1>1, <2>5, ByteSeq
<1>2. CASE HasText(m, i)
  <2>1. /\ i \in {3, 4, 5, 6, 11} /\ ~HasNumber(m, i)
        /\ FieldBytes(m, i) = <<(8 * i) + 2>> \o (<<TextSize(i)>> \o Text(m, i))
    BY <1>2, FieldKinds
  <2>2. Text(m, i) \in Seq(Byte) /\ Len(Text(m, i)) = TextSize(i) /\ TextSize(i) \in 1..64
    BY <1>2, <2>1, TextType
  <2>3. <<(8 * i) + 2>> \in Seq(Byte) /\ Len(<<(8 * i) + 2>>) = 1
    BY <2>1, OneByte
  <2>4. <<TextSize(i)>> \in Seq(Byte) /\ Len(<<TextSize(i)>>) = 1
    <3>1. PICK t \in 1..64 : t = TextSize(i)
      BY <2>2
    <3>2. <<t>> \in Seq(Byte) /\ Len(<<t>>) = 1
      BY OneByte
    <3> QED
      BY <3>1, <3>2
  <2>5. <<TextSize(i)>> \o Text(m, i) \in Seq(Byte)
        /\ Len(<<TextSize(i)>> \o Text(m, i)) = 1 + TextSize(i)
    BY <2>2, <2>4, RestOfConcat
  <2>6. FieldBytes(m, i) \in Seq(Byte) /\ Len(FieldBytes(m, i)) = 1 + (1 + TextSize(i))
    BY <2>1, <2>3, <2>5, RestOfConcat
  <2> QED
    BY <2>1, <1>2, <2>2, <2>6, ByteSeq
<1>3. CASE ~HasNumber(m, i) /\ ~HasText(m, i)
  <2>1. FieldBytes(m, i) = << >>
    BY <1>3, FieldKinds
  <2> QED
    BY <1>3, <2>1
<1> QED
  BY <1>1, <1>2, <1>3

\* Where a field can start at most: in any message, and in an enrollment
\* request that is passed on.
MostAny(i) ==
    CASE i = 1 -> 0 [] i = 2 -> 3 [] i = 3 -> 9 [] i = 4 -> 17 [] i = 5 -> 25
      [] i = 6 -> 33 [] i = 7 -> 99 [] i = 8 -> 102 [] i = 9 -> 108 [] i = 10 -> 112
      [] i = 11 -> 115 [] OTHER -> 149
MostRelay(i) ==
    CASE i = 1 -> 0 [] i = 2 -> 2 [] i = 3 -> 2 [] i = 4 -> 10 [] i = 5 -> 18
      [] i = 6 -> 26 [] i \in 7..10 -> 92 [] i = 11 -> 94 [] OTHER -> 128
Most(m, i) == IF m.room = 256 THEN MostAny(i) ELSE MostRelay(i)

\* How many bytes field i can take.
RoomAny(i) ==
    CASE i \in {1, 7, 10} -> 3 [] i \in {2, 8} -> 6 [] i \in {3, 4, 5} -> 8 [] i = 6 -> 66
      [] i = 9 -> 4 [] i = 11 -> 34 [] OTHER -> 0
RoomRelay(i) ==
    CASE i \in {1, 10} -> 2 [] i \in {3, 4, 5} -> 8 [] i = 6 -> 66 [] i = 11 -> 34
      [] OTHER -> 0

\* The starts add up to 149 bytes for any message, to 128 for a relayed request.
LEMMA MostTable ==
    ASSUME NEW i \in 1..15
    PROVE  /\ MostAny(i) \in Nat /\ MostAny(i + 1) \in 0..149
           /\ MostRelay(i) \in Nat /\ MostRelay(i + 1) \in 0..128
           /\ MostAny(i) + RoomAny(i) = MostAny(i + 1) /\ RoomAny(i) \in Nat
           /\ MostRelay(i) + RoomRelay(i) = MostRelay(i + 1) /\ RoomRelay(i) \in Nat
<1>1. MostAny(i) \in Nat /\ MostAny(i + 1) \in 0..149
  BY DEF MostAny
<1>2. MostRelay(i) \in Nat /\ MostRelay(i + 1) \in 0..128
  BY DEF MostRelay
<1>3. MostAny(i) + RoomAny(i) = MostAny(i + 1) /\ RoomAny(i) \in Nat
  BY DEF MostAny, RoomAny
<1>4. MostRelay(i) + RoomRelay(i) = MostRelay(i + 1) /\ RoomRelay(i) \in Nat
  BY DEF MostRelay, RoomRelay
<1> QED
  BY <1>1, <1>2, <1>3, <1>4

\* No field ends later than the buffer of its caller.
LEMMA FieldFits ==
    ASSUME NEW m \in Messages, NEW i \in 1..15
    PROVE  /\ Most(m, i) \in Nat /\ Most(m, i + 1) \in Nat /\ Most(m, i + 1) <= m.room
           /\ m.room \in Nat
           /\ Most(m, i) + Len(FieldBytes(m, i)) <= Most(m, i + 1)
<1>1. m \in MeshMessage /\ (m.room = 256 \/ (m.room = 128 /\ EnrollmentRelay(m)))
  BY CodecAssumption
<1>2. /\ m.type \in Byte /\ m.dataType \in Int32
      /\ m.hop \in Byte /\ m.epoch \in Uint32 /\ m.seq \in Uint32 /\ m.seq < 65536
      /\ m.version \in Byte /\ m.room \in Nat
  BY <1>1, MessageTypes
<1>3. \A b \in Byte : b \in Nat /\ b < 256 /\ b \in Uint32
  BY Ranges DEF Byte
<1>4. \A v \in Uint32 : /\ VarintSize(v) \in 1..5
                        /\ v < 128 => VarintSize(v) = 1
                        /\ v < 256 => VarintSize(v) <= 2
                        /\ v < 65536 => VarintSize(v) <= 3
  BY SizeIs, SizeBounds
<1>5. PICK L \in Nat : L = Len(FieldBytes(m, i))
  BY <1>1, FieldBytesType
<1>6. /\ HasNumber(m, i) => L = 1 + VarintSize(Number(m, i))
      /\ HasText(m, i) => L = 2 + TextSize(i)
      /\ ~HasNumber(m, i) /\ ~HasText(m, i) => L = 0
  BY <1>1, <1>5, FieldBytesType, FieldKinds, ZenonT(40)
<1>7. /\ Number(m, 1) = m.type /\ Number(m, 7) = m.hop /\ Number(m, 8) = m.epoch
      /\ Number(m, 9) = m.seq /\ Number(m, 10) = m.version
  BY <1>1, PbVals DEF Number
<1>8. HasNumber(m, 2) => Number(m, 2) \in Uint32 /\ m.dataType # 0
  BY <1>1, NumberType DEF HasNumber
<1>9. /\ i = 1 => L <= 3 /\ (m.type = 2 => L <= 2)
      /\ i = 2 => L <= 6 /\ (m.dataType = 0 => L = 0)
      /\ i \in {3, 4, 5} => L = 8
      /\ i = 6 => L = 66
      /\ i = 7 => L <= 3 /\ (m.hop = 0 => L = 0)
      /\ i = 8 => L <= 6 /\ (m.epoch = 0 => L = 0)
      /\ i = 9 => L <= 4 /\ (m.seq = 0 => L = 0)
      /\ i = 10 => L <= 3 /\ (m.version < 128 => L <= 2)
      /\ i = 11 => L <= 34
      /\ i \in 12..15 => L = 0
  <2>1. CASE i = 1
    BY <1>2, <1>3, <1>4, <1>6, <1>7, <2>1 DEF HasNumber, HasText
  <2>2. CASE i = 2
    BY <1>2, <1>4, <1>6, <1>8, <2>2 DEF HasText
  <2>3. CASE i \in {3, 4, 5, 6}
    BY <1>6, <2>3 DEF HasNumber, HasText, TextSize
  <2>4. CASE i = 7
    BY <1>2, <1>3, <1>4, <1>6, <1>7, <2>4 DEF HasNumber, HasText
  <2>5. CASE i = 8
    BY <1>2, <1>3, <1>4, <1>6, <1>7, <2>5 DEF HasNumber, HasText
  <2>6. CASE i = 9
    BY <1>2, <1>3, <1>4, <1>6, <1>7, <2>6 DEF HasNumber, HasText
  <2>7. CASE i = 10
    BY <1>2, <1>3, <1>4, <1>6, <1>7, <2>7 DEF HasNumber, HasText
  <2>8. CASE i \in 11..15
    BY <1>6, <2>8 DEF HasNumber, HasText, TextSize
  <2> QED
    BY <2>1, <2>2, <2>3, <2>4, <2>5, <2>6, <2>7, <2>8
<1>10. m.room = 128 => /\ m.type = 2 /\ m.dataType = 0 /\ m.hop = 0 /\ m.epoch = 0
                       /\ m.seq = 0 /\ m.version < 128
  BY <1>1 DEF EnrollmentRelay, ENROLLMENT
<1>11. L <= RoomAny(i)
  <2>1. /\ i = 1 => L <= 3
        /\ i = 2 => L <= 6
        /\ i \in {3, 4, 5} => L = 8
        /\ i = 6 => L = 66
        /\ i = 7 => L <= 3
        /\ i = 8 => L <= 6
        /\ i = 9 => L <= 4
        /\ i = 10 => L <= 3
        /\ i = 11 => L <= 34
        /\ i \in 12..15 => L = 0
    BY <1>9
  <2> QED
    BY <2>1 DEF RoomAny
<1>12. m.room = 128 => L <= RoomRelay(i)
  <2> SUFFICES ASSUME m.room = 128 PROVE L <= RoomRelay(i)
    OBVIOUS
  <2>1. /\ i = 1 => L <= 2
        /\ i = 2 => L = 0
        /\ i \in {3, 4, 5} => L = 8
        /\ i = 6 => L = 66
        /\ i \in 7..9 => L = 0
        /\ i = 10 => L <= 2
        /\ i = 11 => L <= 34
        /\ i \in 12..15 => L = 0
    BY <1>9, <1>10
  <2> QED
    BY <2>1 DEF RoomRelay
<1> DEFINE a == MostAny(i)
           b == MostAny(i + 1)
           c == MostRelay(i)
           d == MostRelay(i + 1)
           r == RoomAny(i)
           q == RoomRelay(i)
<1>13. a \in Nat /\ b \in 0..149 /\ r \in Nat /\ a + r = b /\ L <= r
  BY <1>11, MostTable
<1>14. c \in Nat /\ d \in 0..128 /\ q \in Nat /\ c + q = d /\ (m.room = 128 => L <= q)
  BY <1>12, MostTable
<1>15. CASE m.room = 256
  <2>1. Most(m, i) = a /\ Most(m, i + 1) = b
    BY <1>15 DEF Most
  <2> HIDE DEF a, b, r
  <2>2. a + L <= b /\ b <= 256
    BY <1>13
  <2> QED
    BY <1>5, <1>13, <1>15, <2>1, <2>2
<1>16. CASE m.room = 128
  <2>1. Most(m, i) = c /\ Most(m, i + 1) = d
    BY <1>16 DEF Most
  <2> HIDE DEF c, d, q
  <2>2. c + L <= d /\ d <= 128
    BY <1>14, <1>16
  <2> QED
    BY <1>5, <1>14, <1>16, <2>1, <2>2
<1> QED
  BY <1>1, <1>15, <1>16

\* encode_field writes the fields that are numbers other than zero, and the
\* strings that are there.
LEMMA PresentIs ==
    ASSUME NEW m \in MeshMessage, NEW i \in 1..15
    PROVE  Present(ToPb(m), Descriptor[i]) <=> HasNumber(m, i) \/ HasText(m, i)
<1> DEFINE f == Descriptor[i]
<1>1. /\ f.type = CASE i \in {1, 7, 8, 9, 10, 12} -> "uint"
                    [] i = 2 -> "sint"
                    [] i \in {3, 4, 5} -> "fixed"
                    [] i \in {6, 11, 13, 14} -> "bytes"
                    [] i = 15 -> "callback"
      /\ f.hasFlag <=> i \in {6, 11, 12, 13, 14}
  BY DescriptorTable
<1>2. f.name \in ToPb(m).has <=> i = 6 \/ (i = 11 /\ Keyed(m))
  BY PbHas
<1>3. ToPb(m).val[f.name] = PbVal(m, i)
  BY DEF PbVal
<1> HIDE DEF f
<1>4. CASE i \in {6, 11, 12, 13, 14}
  <2>1. f.hasFlag /\ f.type # "callback"
    BY <1>1, <1>4
  <2>2. Present(ToPb(m), f) <=> f.name \in ToPb(m).has
    BY <2>1 DEF Present
  <2> QED
    BY <1>2, <1>4, <2>2 DEF HasNumber, HasText, f
<1>5. CASE i \in {1, 7, 8, 9, 10}
  <2>1. ~f.hasFlag /\ f.type = "uint"
    BY <1>1, <1>5
  <2>2. Present(ToPb(m), f) <=> PbVal(m, i) # 0
    BY <1>3, <2>1 DEF Present
  <2>3. Number(m, i) = PbVal(m, i)
    BY <1>5 DEF Number
  <2> QED
    BY <1>5, <2>2, <2>3 DEF HasNumber, HasText, f
<1>6. CASE i = 2
  <2>1. ~f.hasFlag /\ f.type = "sint"
    BY <1>1, <1>6
  <2>2. Present(ToPb(m), f) <=> PbVal(m, 2) # 0
    BY <1>3, <1>6, <2>1 DEF Present
  <2>3. PbVal(m, 2) = m.dataType
    BY PbVals
  <2>4. Number(m, 2) = 0 <=> m.dataType = 0
    BY NumberType
  <2> QED
    BY <1>6, <2>2, <2>3, <2>4 DEF HasNumber, HasText, f
<1>7. CASE i \in {3, 4, 5}
  <2>1. ~f.hasFlag /\ f.type = "fixed"
    BY <1>1, <1>7
  <2>2. Present(ToPb(m), f)
    BY <2>1 DEF Present
  <2> QED
    BY <1>7, <2>2 DEF HasText, f
<1>8. CASE i = 15
  <2>1. f.type = "callback"
    BY <1>1, <1>8
  <2>2. ~Present(ToPb(m), f)
    BY <2>1, Zenon DEF Present
  <2> QED
    BY <1>8, <2>2 DEF HasNumber, HasText, f
<1> QED
  BY <1>4, <1>5, <1>6, <1>7, <1>8, FifteenFields

\* pb_write with room for the chunk.
LEMMA WriteFits ==
    ASSUME NEW b \in Seq(Byte), NEW c \in Seq(Byte), NEW room \in Nat,
           Len(b) + Len(c) <= room
    PROVE  /\ Write(room, [ok |-> TRUE, bytes |-> b], c) = [ok |-> TRUE, bytes |-> b \o c]
           /\ b \o c \in Seq(Byte) /\ Len(b \o c) = Len(b) + Len(c)
<1>1. Len(b) \in Nat /\ Len(c) \in Nat /\ b \o c \in Seq(Byte) /\ Len(b \o c) = Len(b) + Len(c)
  BY ByteSeq, RestOfConcat
<1>2. ~(Len(b) + Len(c) > room)
  BY <1>1
<1> DEFINE o == [ok |-> TRUE, bytes |-> b]
<1>3. o.ok
  OBVIOUS
<1>5. o.bytes = b
  OBVIOUS
<1> HIDE DEF o
<1>4. Write(room, o, c) = [ok |-> TRUE, bytes |-> b \o c]
  BY <1>2, <1>3, <1>5, Zenon DEF Write
<1> QED
  BY <1>1, <1>4 DEF o

\* The tag of a field of the descriptor is one byte.
LEMMA TagByte ==
    ASSUME NEW i \in 1..14
    PROVE  /\ WireType(Descriptor[i]) = IF i \in {1, 2, 7, 8, 9, 10, 12} THEN VARINT ELSE STRING_
           /\ EncodeTag(Descriptor[i].tag, VARINT) = <<8 * i>>
           /\ EncodeTag(Descriptor[i].tag, STRING_) = <<(8 * i) + 2>>
<1>1. Descriptor[i].tag = i
  BY DescriptorTable
<1>2. Descriptor[i].type = CASE i \in {1, 7, 8, 9, 10, 12} -> "uint"
                             [] i = 2 -> "sint"
                             [] i \in {3, 4, 5} -> "fixed"
                             [] i \in {6, 11, 13, 14} -> "bytes"
                             [] i = 15 -> "callback"
  BY DescriptorTable
<1>3. WireType(Descriptor[i]) = IF i \in {1, 2, 7, 8, 9, 10, 12} THEN VARINT ELSE STRING_
  BY <1>2 DEF WireType
<1>4. (8 * i) + 0 = 8 * i /\ 8 * i \in Nat /\ 8 * i < 128 /\ (8 * i) + 2 \in Nat /\ (8 * i) + 2 < 128
  OBVIOUS
<1>5. EncodeVarint(8 * i) = <<8 * i>> /\ EncodeVarint((8 * i) + 2) = <<(8 * i) + 2>>
  BY <1>4, OneByte
<1> QED
  BY <1>1, <1>3, <1>4, <1>5 DEF EncodeTag, VARINT, STRING_

\* encode_field appends the bytes of the field.
LEMMA EncodeFieldIs ==
    ASSUME NEW m \in MeshMessage, NEW i \in 1..15, NEW b \in Seq(Byte), NEW room \in Nat,
           Len(b) + Len(FieldBytes(m, i)) <= room
    PROVE  EncodeField(room, [ok |-> TRUE, bytes |-> b], ToPb(m), Descriptor[i])
             = [ok |-> TRUE, bytes |-> b \o FieldBytes(m, i)]
<1> DEFINE f == Descriptor[i]
           o(x) == [ok |-> TRUE, bytes |-> x]
<1>1. Present(ToPb(m), f) <=> HasNumber(m, i) \/ HasText(m, i)
  BY PresentIs
<1>2. ToPb(m).val[f.name] = PbVal(m, i)
  BY DEF PbVal
<1>3. Len(b) \in Nat
  BY ByteSeq
<1>4. CASE HasNumber(m, i)
  <2> DEFINE t == <<8 * i>>
             e == EncodeVarint(Number(m, i))
  <2>1. i \in {1, 2, 7, 8, 9, 10} /\ FieldBytes(m, i) = t \o e
    BY <1>4, FieldKinds
  <2>2. t \in Seq(Byte) /\ Len(t) = 1
    BY <2>1, OneByte
  <2>3. Number(m, i) \in Uint32
    BY <2>1, NumberType
  <2>4. e \in Seq(Byte) /\ Len(e) \in Nat /\ Len(FieldBytes(m, i)) = 1 + Len(e)
    BY <2>1, <2>2, <2>3, VarintBytesAre, ByteSeq, RestOfConcat
  <2>5. EncodeTag(f.tag, WireType(f)) = t
    <3>1. i \in 1..14
      BY <2>1
    <3>2. EncodeTag(f.tag, VARINT) = t /\ WireType(f) = VARINT
      BY <2>1, <3>1, TagByte
    <3> QED
      BY <3>2
  <2>6. EncodeValue(room, o(b \o t), f, PbVal(m, i)) = Write(room, o(b \o t), e)
    <3>1. CASE i = 2
      <4>1. f.type = "sint" /\ PbVal(m, i) = m.dataType
        BY <3>1, FieldTypes, PbVals, Zenon
      <4> QED
        BY <3>1, <4>1 DEF EncodeValue, Number
    <3>2. CASE i \in {1, 7, 8, 9, 10}
      <4>1. f.type = "uint"
        BY <3>2, FieldTypes
      <4> QED
        BY <3>2, <4>1 DEF EncodeValue, Number
    <3> QED
      BY <2>1, <3>1, <3>2
  <2> HIDE DEF t, e, f
  <2>7. Write(room, o(b), t) = o(b \o t) /\ b \o t \in Seq(Byte) /\ Len(b \o t) = Len(b) + 1
    <3>1. Len(b) + Len(t) <= room
      BY <1>3, <2>2, <2>4
    <3> QED
      BY <2>2, <3>1, WriteFits
  <2>8. Write(room, o(b \o t), e) = o((b \o t) \o e)
    <3>1. Len(b \o t) + Len(e) <= room
      BY <1>3, <2>4, <2>7
    <3> QED
      BY <2>4, <2>7, <3>1, WriteFits
  <2>9. (b \o t) \o e = b \o (t \o e)
    BY <2>2, <2>4, BytesAssociative, Zenon
  <2> QED
    BY <1>1, <1>2, <1>4, <2>1, <2>5, <2>6, <2>7, <2>8, <2>9, Zenon DEF EncodeField, f
<1>5. CASE HasText(m, i)
  <2> DEFINE t == <<(8 * i) + 2>>
             n == TextSize(i)
             x == Text(m, i)
  <2>1. i \in {3, 4, 5, 6, 11} /\ FieldBytes(m, i) = t \o (<<n>> \o x)
    BY <1>5, FieldKinds
  <2>2. t \in Seq(Byte) /\ Len(t) = 1
    BY <2>1, OneByte
  <2>3. x \in [1..n -> Byte] /\ x \in Seq(Byte) /\ Len(x) = n /\ n \in 1..64
    BY <1>5, <2>1, TextType
  <2>4. EncodeTag(f.tag, WireType(f)) = t
    <3>1. i \in 1..14
      BY <2>1
    <3>2. EncodeTag(f.tag, STRING_) = t
      BY <3>1, TagByte
    <3>3. i \notin {1, 2, 7, 8, 9, 10, 12}
      BY <2>1
    <3>4. WireType(f) = STRING_
      BY <3>1, <3>3, TagByte
    <3> QED
      BY <3>2, <3>4
  <2>5. EncodeValue(room, o(b \o t), f, PbVal(m, i)) = WriteString(room, o(b \o t), x)
    <3>1. CASE i \in {3, 4, 5}
      <4>1. f.type = "fixed" /\ x = PbVal(m, i)
        BY <3>1, FieldTypes, Zenon DEF Text
      <4> QED
        BY <4>1 DEF EncodeValue
    <3>2. CASE i \in {6, 11}
      <4>1. f.type = "bytes"
        BY <3>2, FieldTypes
      <4>2. PbVal(m, i).size = n /\ PbVal(m, i).bytes = x
        <5>1. CASE i = 6
          BY <5>1, PbVals DEF Text, TextSize
        <5>2. CASE i = 11
          <6>1. Keyed(m)
            BY <1>5, <5>2 DEF HasText
          <6> QED
            BY <5>2, <6>1, PbVals DEF Text, TextSize
        <5> QED
          BY <3>2, <5>1, <5>2
      <4>3. SubSeq(x, 1, n) = x
        <5> HIDE DEF x, n
        <5>1. n \in Nat
          BY <2>3
        <5> QED
          BY <2>3, <5>1, ArrayIsSeq
      <4> QED
        BY <4>1, <4>2, <4>3 DEF EncodeValue
    <3> QED
      BY <2>1, <3>1, <3>2
  <2> HIDE DEF t, n, x, f
  <2>6. EncodeVarint(n) = <<n>> /\ <<n>> \in Seq(Byte) /\ Len(<<n>>) = 1
    BY <2>3, OneByte
  <2>7. /\ <<n>> \o x \in Seq(Byte) /\ Len(<<n>> \o x) = 1 + n
        /\ Len(FieldBytes(m, i)) = 1 + (1 + n)
    <3>1. <<n>> \o x \in Seq(Byte) /\ Len(<<n>> \o x) = Len(<<n>>) + Len(x)
      BY <2>3, <2>6, RestOfConcat
    <3>2. Len(t \o (<<n>> \o x)) = Len(t) + Len(<<n>> \o x)
      BY <2>2, <3>1, RestOfConcat
    <3> QED
      BY <2>1, <2>2, <2>3, <2>6, <3>1, <3>2
  <2>8. Len(b) + 1 + 1 + n <= room
    BY <1>3, <2>3, <2>7
  <2>9. Write(room, o(b), t) = o(b \o t) /\ b \o t \in Seq(Byte) /\ Len(b \o t) = Len(b) + 1
    <3>1. Len(b) + Len(t) <= room
      BY <1>3, <2>2, <2>3, <2>8
    <3> QED
      BY <2>2, <3>1, WriteFits
  <2>10. /\ Write(room, o(b \o t), <<n>>) = o((b \o t) \o <<n>>)
         /\ (b \o t) \o <<n>> \in Seq(Byte) /\ Len((b \o t) \o <<n>>) = Len(b) + 1 + 1
    <3>1. Len(b \o t) + Len(<<n>>) <= room
      BY <1>3, <2>3, <2>6, <2>8, <2>9
    <3> QED
      BY <2>6, <2>9, <3>1, WriteFits
  <2>11. Write(room, o((b \o t) \o <<n>>), x) = o(((b \o t) \o <<n>>) \o x)
    <3>1. Len((b \o t) \o <<n>>) + Len(x) <= room
      BY <1>3, <2>3, <2>8, <2>10
    <3> QED
      BY <2>3, <2>10, <3>1, WriteFits
  <2>12. ((b \o t) \o <<n>>) \o x = b \o (t \o (<<n>> \o x))
    <3>1. ((b \o t) \o <<n>>) \o x = (b \o t) \o (<<n>> \o x)
      BY <2>3, <2>6, <2>9, BytesAssociative, Zenon
    <3>2. (b \o t) \o (<<n>> \o x) = b \o (t \o (<<n>> \o x))
      BY <2>2, <2>7, BytesAssociative, Zenon
    <3> QED
      BY <3>1, <3>2
  <2>13. WriteString(room, o(b \o t), x) = o(b \o FieldBytes(m, i))
    BY <2>1, <2>3, <2>6, <2>10, <2>11, <2>12, Zenon DEF WriteString
  <2> QED
    BY <1>1, <1>2, <1>5, <2>4, <2>5, <2>9, <2>13, Zenon DEF EncodeField, f
<1>6. CASE ~HasNumber(m, i) /\ ~HasText(m, i)
  <2>1. FieldBytes(m, i) = << >>
    BY <1>6, FieldKinds
  <2>2. b \o << >> = b
    BY ConcatEmptySeq
  <2> QED
    BY <1>1, <1>6, <2>1, <2>2 DEF EncodeField
<1> QED
  BY <1>4, <1>5, <1>6

-----------------------------------------------------------------------------
(***************************************************************************)
(* What the decoders give for any bytes.                                   *)
(***************************************************************************)

\* What is left behind skipped bytes is bytes.
LEMMA SkipType ==
    ASSUME NEW s \in Seq(Byte), NEW n \in Nat, Skip(s, n).ok
    PROVE  Skip(s, n).rest \in Seq(Byte)
<1>1. Read(s, n).ok /\ Skip(s, n) = Good(0, Read(s, n).rest)
  BY DEF Skip, Bad
<1> QED
  BY <1>1, ReadType DEF Good

\* pb_skip_field and a callback field leave bytes.
LEMMA SkipFieldType ==
    ASSUME NEW s \in Seq(Byte), NEW wire
    PROVE  /\ SkipString(s).ok => SkipString(s).rest \in Seq(Byte)
           /\ SkipField(s, wire).ok => SkipField(s, wire).rest \in Seq(Byte)
           /\ DecodeCallback(s, wire).ok => DecodeCallback(s, wire).rest \in Seq(Byte)
<1>1. VarintLen(s) \in Nat
  BY VarintLenType, ByteSeq
<1>2. SkipString(s).ok => SkipString(s).rest \in Seq(Byte)
  BY DecodeVarint32Type, SkipType DEF SkipString, Bad
<1>3. /\ Skip(s, VarintLen(s)).ok => Skip(s, VarintLen(s)).rest \in Seq(Byte)
      /\ Skip(s, 8).ok => Skip(s, 8).rest \in Seq(Byte)
      /\ Skip(s, 4).ok => Skip(s, 4).rest \in Seq(Byte)
  BY <1>1, SkipType
<1>4. SkipField(s, wire).ok => SkipField(s, wire).rest \in Seq(Byte)
  BY <1>2, <1>3 DEF SkipField, Bad, VARINT, BIT64, STRING_, BIT32
<1>5. RawValue(s, wire).ok => RawValue(s, wire).rest \in Seq(Byte)
  BY <1>3 DEF RawValue, Bad, VARINT, BIT64, STRING_, BIT32
<1> QED
  BY <1>2, <1>4, <1>5 DEF DecodeCallback

\* The first bytes of an array replaced.
LEMMA OverwriteType ==
    ASSUME NEW n \in Nat, NEW old \in [1..n -> Byte], NEW k \in 0..n, NEW src \in Seq(Byte),
           Len(src) = k
    PROVE  Overwrite(old, src) \in [1..n -> Byte]
<1>1. old \in Seq(Byte) /\ Len(old) = n
  BY ArrayIsSeq
<1>2. /\ SubSeq(old, k + 1, n) \in Seq(Byte) /\ Len(SubSeq(old, k + 1, n)) = n - k
  BY <1>1, RestType
<1>3. Overwrite(old, src) \in Seq(Byte) /\ Len(Overwrite(old, src)) = k + (n - k)
  <2>1. Overwrite(old, src) = src \o SubSeq(old, k + 1, n)
    BY <1>1, Zenon DEF Overwrite
  <2>2. src \o SubSeq(old, k + 1, n) \in Seq(Byte)
        /\ Len(src \o SubSeq(old, k + 1, n)) = Len(src) + Len(SubSeq(old, k + 1, n))
    BY <1>2, RestOfConcat
  <2> QED
    BY <1>2, <2>1, <2>2, Zenon
<1>4. k + (n - k) = n
  OBVIOUS
<1> QED
  BY <1>3, <1>4, LenProperties

\* A value that is accepted fits its member, and what is left is bytes.
LEMMA DecodeValueType ==
    ASSUME NEW f, f.size \in Nat, NEW old \in FieldValues(f), NEW s \in Seq(Byte), NEW wire,
           f.type \in {"uint", "sint", "fixed", "bytes", "callback"},
           DecodeValue(f, old, s, wire).ok
    PROVE  /\ DecodeValue(f, old, s, wire).rest \in Seq(Byte)
           /\ f.type # "callback" => DecodeValue(f, old, s, wire).val \in FieldValues(f)
<1> DEFINE r == DecodeValue(f, old, s, wire)
<1>1. CASE f.type = "callback"
  <2>1. r = DecodeCallback(s, wire)
    BY <1>1 DEF DecodeValue
  <2> QED
    BY <1>1, <2>1, SkipFieldType
<1>2. CASE f.type = "uint"
  <2>1. r = DecodeUint(s)
    BY <1>2 DEF DecodeValue, Bad
  <2>2. DecodeVarint(s).ok /\ DecodeVarint(s).val < UintMod /\ r = DecodeVarint(s)
    BY <2>1 DEF DecodeUint, Bad
  <2>3. DecodeVarint(s).val \in Nat /\ DecodeVarint(s).rest \in Seq(Byte)
    BY <2>2, DecodeVarintType
  <2>4. r.val \in Uint32
    BY <2>2, <2>3, Ranges
  <2> QED
    BY <1>2, <2>2, <2>3, <2>4 DEF FieldValues
<1>3. CASE f.type = "sint"
  <2>1. r = DecodeSint(s)
    BY <1>3 DEF DecodeValue, Bad
  <2>2. /\ DecodeVarint(s).ok /\ UnZigZag(DecodeVarint(s).val) \in Int32
        /\ r = Good(UnZigZag(DecodeVarint(s).val), DecodeVarint(s).rest)
    BY <2>1 DEF DecodeSint, Bad
  <2>3. DecodeVarint(s).rest \in Seq(Byte)
    BY <2>2, DecodeVarintType
  <2> QED
    BY <1>3, <2>2, <2>3 DEF FieldValues, Good
<1>4. CASE f.type = "fixed"
  <2> DEFINE n == DecodeVarint32(s)
  <2>1. r = DecodeFixed(f, s)
    BY <1>4 DEF DecodeValue, Bad
  <2>2. n.ok /\ (r = Good(Zeros(f.size), n.rest) \/ r = Read(n.rest, f.size))
    BY <2>1 DEF DecodeFixed, Bad
  <2>3. n.rest \in Seq(Byte)
    BY <2>2, DecodeVarint32Type
  <2>4. Zeros(f.size) \in [1..f.size -> Byte]
    BY DEF Zeros, Byte
  <2>5. r.val \in [1..f.size -> Byte] /\ r.rest \in Seq(Byte)
    BY <2>2, <2>3, <2>4, ReadType DEF Good
  <2> QED
    BY <1>4, <2>5 DEF FieldValues
<1>5. CASE f.type = "bytes"
  <2> DEFINE n == DecodeVarint32(s)
             q == Read(n.rest, n.val)
  <2>1. r = DecodeBytes(f, old, s)
    BY <1>5 DEF DecodeValue, Bad
  <2>2. /\ n.ok /\ n.val <= f.size /\ q.ok
        /\ r = Good([size |-> n.val, bytes |-> Overwrite(old.bytes, q.val)], q.rest)
    BY <2>1 DEF DecodeBytes, Bad
  <2>3. n.rest \in Seq(Byte) /\ n.val \in Nat
    BY <2>2, DecodeVarint32Type
  <2>4. q.val \in Seq(Byte) /\ Len(q.val) = n.val /\ q.rest \in Seq(Byte)
    BY <2>2, <2>3, ReadType
  <2>5. old.bytes \in [1..f.size -> Byte]
    BY <1>5 DEF FieldValues
  <2>6. PICK k \in 0..f.size : k = n.val
    BY <2>2, <2>3
  <2>7. Overwrite(old.bytes, q.val) \in [1..f.size -> Byte]
    BY <2>4, <2>5, <2>6, OverwriteType
  <2>8. r.val = [size |-> k, bytes |-> Overwrite(old.bytes, q.val)] /\ r.rest = q.rest
    BY <2>2, <2>6 DEF Good
  <2> QED
    BY <1>5, <2>4, <2>7, <2>8 DEF FieldValues
<1> QED
  BY <1>1, <1>2, <1>3, <1>4, <1>5

\* pb_decode_tag returns a number for a tag and leaves bytes.
LEMMA DecodeTagType ==
    ASSUME NEW s \in Seq(Byte), DecodeTag(s).ok
    PROVE  DecodeTag(s).rest \in Seq(Byte) /\ DecodeTag(s).val[1] \in Nat
<1>1. DecodeVarint32(s).ok
      /\ DecodeTag(s) = Good(<<DecodeVarint32(s).val \div 8, DecodeVarint32(s).val % 8>>, DecodeVarint32(s).rest)
  BY DEF DecodeTag, Bad
<1>2. PICK v \in Nat : v = DecodeVarint32(s).val
  BY <1>1, DecodeVarint32Type
<1>3. v \div 8 \in Nat
  BY SMT
<1> QED
  BY <1>1, <1>2, <1>3, DecodeVarint32Type DEF Good

\* The search for a tag, from wherever the iterator is.
LEMMA IterFindIs ==
    ASSUME NEW it \in 1..15, NEW tag \in Nat
    PROVE  /\ IterFind(it, tag).at \in 1..15
           /\ tag \in 1..14 => IterFind(it, tag) = [found |-> TRUE, at |-> tag]
           /\ tag = 17 => IterFind(it, tag) = [found |-> TRUE, at |-> 15]
           /\ tag \notin 1..14 /\ tag # 17 => IterFind(it, tag) = [found |-> FALSE, at |-> it]
<1> DEFINE looked == IF tag < Descriptor[it].tag THEN 1..it ELSE 1..FieldCount
           hits == {j \in looked : Descriptor[j].tag = tag}
<1>1. \A j \in 1..15 : Descriptor[j].tag = IF j = 15 THEN 17 ELSE j
  BY DescriptorTable
<1>2. FieldCount = 15 /\ LargestTag = 17
  BY DescriptorLen
<1>3. looked \subseteq 1..15
  BY <1>2
<1>4. CASE tag \in 1..14
  <2>1. tag \in looked
    BY <1>1, <1>2, <1>4
  <2>2. hits = {tag}
    BY <1>1, <1>3, <1>4, <2>1
  <2> HIDE DEF hits
  <2>3. (CHOOSE j \in hits : TRUE) = tag /\ hits # {}
    BY <2>2
  <2>4. ~(tag > LargestTag)
    BY <1>2, <1>4
  <2>5. IterFind(it, tag) = [found |-> TRUE, at |-> tag]
    BY <2>3, <2>4, Zenon DEF IterFind, hits
  <2> QED
    BY <1>4, <2>5
<1>5. CASE tag = 17
  <2>1. 15 \in looked
    BY <1>1, <1>2, <1>5
  <2>2. hits = {15}
    BY <1>1, <1>3, <1>5, <2>1
  <2> HIDE DEF hits
  <2>3. (CHOOSE j \in hits : TRUE) = 15 /\ hits # {}
    BY <2>2
  <2>4. ~(tag > LargestTag)
    BY <1>2, <1>5
  <2>5. IterFind(it, tag) = [found |-> TRUE, at |-> 15]
    BY <2>3, <2>4, Zenon DEF IterFind, hits
  <2> QED
    BY <1>5, <2>5
<1>6. CASE tag \notin 1..14 /\ tag # 17
  <2>1. hits = {}
    BY <1>1, <1>3, <1>6
  <2> HIDE DEF hits
  <2>2. IterFind(it, tag) = [found |-> FALSE, at |-> it]
    BY <2>1 DEF IterFind, hits
  <2> QED
    BY <1>6, <2>2
<1> QED
  BY <1>4, <1>5, <1>6

-----------------------------------------------------------------------------
(***************************************************************************)
(* The frame while it is written.                                          *)
(***************************************************************************)

\* st holds where the first fields of m start in b, which is their bytes.
Layout(m, st, b) ==
    /\ st \in Seq(Nat) /\ b \in Seq(Byte) /\ Len(st) <= 15
    /\ Len(st) = 0 => Len(b) = 0
    /\ Len(st) > 0 => st[1] = 0 /\ Len(b) = st[Len(st)] + Len(FieldBytes(m, Len(st)))
    /\ \A i \in 1..Len(st) : st[i] + Len(FieldBytes(m, i)) <= Len(b)
    /\ \A i, j \in 1..Len(st) : i < j => st[i] + Len(FieldBytes(m, i)) <= st[j]
    /\ \A i, j \in 1..Len(st) : j = i + 1 => st[i] + Len(FieldBytes(m, i)) = st[j]
    /\ \A i \in 1..Len(st) : \A k \in 1..Len(FieldBytes(m, i)) :
         b[st[i] + k] = FieldBytes(m, i)[k]

\* Before the first field.
LEMMA LayoutEmpty ==
    ASSUME NEW m
    PROVE  Layout(m, << >>, << >>)
<1>1. << >> \in Seq(Nat) /\ << >> \in Seq(Byte) /\ Len(<< >>) = 0
  BY EmptySeq
<1> QED
  BY <1>1 DEF Layout

\* One more field.
LEMMA LayoutExtend ==
    ASSUME NEW m \in MeshMessage, NEW st \in Seq(Nat), NEW b \in Seq(Byte), Layout(m, st, b),
           Len(st) < 15
    PROVE  Layout(m, Append(st, Len(b)), b \o FieldBytes(m, Len(st) + 1))
<1> DEFINE n == Len(st)
           F(i) == FieldBytes(m, i)
           L(i) == Len(F(i))
           x == F(n + 1)
           a == Append(st, Len(b))
           c == b \o x
<1>1. st \in Seq(Nat) /\ b \in Seq(Byte) /\ n \in 0..14 /\ Len(b) \in Nat
  <2>1. n \in Nat /\ n < 15 /\ Len(b) \in Nat
    BY LenProperties
  <2> HIDE DEF n
  <2> QED
    BY <2>1
<1>2. \A i \in 1..15 : F(i) \in Seq(Byte) /\ L(i) \in Nat
  BY FieldBytesType
<1>3. n + 1 \in 1..15 /\ x \in Seq(Byte) /\ Len(x) \in Nat
  <2>1. n + 1 \in 1..15
    <3> HIDE DEF n
    <3> QED
      BY <1>1
  <2> QED
    BY <2>1, FieldBytesType
<1>4. a \in Seq(Nat) /\ Len(a) = n + 1 /\ a[n + 1] = Len(b) /\ \A i \in 1..n : a[i] = st[i]
  BY <1>1, AppendProperties
<1>5. c \in Seq(Byte) /\ Len(c) = Len(b) + Len(x)
      /\ \A i \in 1..Len(b) + Len(x) : c[i] = IF i <= Len(b) THEN b[i] ELSE x[i - Len(b)]
  BY <1>1, <1>3, ConcatProperties, Zenon
<1>6. /\ n = 0 => Len(b) = 0
      /\ n > 0 => st[1] = 0 /\ Len(b) = st[n] + L(n)
      /\ \A i \in 1..n : st[i] + L(i) <= Len(b)
      /\ \A i, j \in 1..n : i < j => st[i] + L(i) <= st[j]
      /\ \A i, j \in 1..n : j = i + 1 => st[i] + L(i) = st[j]
      /\ \A i \in 1..n : \A k \in 1..L(i) : b[st[i] + k] = F(i)[k]
  BY DEF Layout
<1>7. \A i \in 1..n : st[i] \in Nat
  BY <1>1, ElementOfSeq
<1> HIDE DEF n, F, L, a, c
<1>8. \A i \in 1..(n + 1) : i \in 1..n \/ i = n + 1
  BY <1>1
<1> DEFINE B == Len(b)
           X == Len(x)
           ok1 == L(n + 1) = X
<1>9. ok1 /\ B \in Nat /\ X \in Nat /\ Len(c) = B + X /\ a[n + 1] = B
  BY <1>1, <1>3, <1>4, <1>5 DEF L
<1>10. a[1] = 0
  <2>1. CASE n = 0
    BY <2>1, <1>6, <1>9
  <2>2. CASE n > 0
    <3>1. 1 \in 1..n
      BY <2>2, <1>1
    <3> QED
      BY <2>2, <3>1, <1>4, <1>6
  <2> QED
    BY <2>1, <2>2, <1>1
<1>11. \A i \in 1..(n + 1) : a[i] + L(i) <= Len(c)
  <2> SUFFICES ASSUME NEW i \in 1..(n + 1) PROVE a[i] + L(i) <= Len(c)
    OBVIOUS
  <2>1. CASE i = n + 1
    BY <2>1, <1>9
  <2>2. CASE i \in 1..n
    <3>1. PICK p \in Nat, q \in Nat : p = st[i] /\ q = L(i)
      <4>1. i \in 1..15
        BY <2>2, <1>1
      <4>2. L(i) \in Nat
        BY <4>1, <1>2 DEF L, F
      <4> QED
        BY <2>2, <4>2, <1>7
    <3>2. p + q <= B /\ a[i] = p
      BY <2>2, <3>1, <1>4, <1>6
    <3> QED
      BY <3>1, <3>2, <1>9
  <2> QED
    BY <2>1, <2>2, <1>8
<1>12. \A i, j \in 1..(n + 1) : i < j => a[i] + L(i) <= a[j]
  <2> SUFFICES ASSUME NEW i \in 1..(n + 1), NEW j \in 1..(n + 1), i < j PROVE a[i] + L(i) <= a[j]
    OBVIOUS
  <2>1. i \in 1..n /\ a[i] = st[i]
    <3>1. i \in 1..n
      BY <1>1
    <3> QED
      BY <1>4, <3>1, Zenon
  <2>2. CASE j = n + 1
    BY <2>1, <2>2, <1>6, <1>9
  <2>3. CASE j \in 1..n
    BY <2>1, <2>3, <1>4, <1>6
  <2> QED
    BY <2>2, <2>3, <1>8
<1>13. \A i, j \in 1..(n + 1) : j = i + 1 => a[i] + L(i) = a[j]
  <2> SUFFICES ASSUME NEW i \in 1..(n + 1), NEW j \in 1..(n + 1), j = i + 1
               PROVE a[i] + L(i) = a[j]
    OBVIOUS
  <2>1. i \in 1..n /\ a[i] = st[i]
    <3>1. i \in 1..n
      BY <1>1
    <3> QED
      BY <1>4, <3>1, Zenon
  <2>2. CASE j = n + 1
    <3>1. i = n /\ n > 0
      BY <2>1, <2>2, <1>1
    <3> QED
      BY <2>1, <2>2, <3>1, <1>6, <1>9
  <2>3. CASE j \in 1..n
    BY <2>1, <2>3, <1>4, <1>6
  <2> QED
    BY <2>2, <2>3, <1>8
<1>14. \A i \in 1..(n + 1) : \A k \in 1..L(i) : c[a[i] + k] = F(i)[k]
  <2> SUFFICES ASSUME NEW i \in 1..(n + 1), NEW k \in 1..L(i) PROVE c[a[i] + k] = F(i)[k]
    OBVIOUS
  <2>1. CASE i = n + 1
    <3>1. k \in 1..X /\ a[i] + k = B + k
      BY <2>1, <1>9
    <3>2. B + k \in 1..(B + X) /\ ~(B + k <= B) /\ (B + k) - B = k
      BY <3>1, <1>9
    <3>3. c[B + k] = x[k]
      BY <3>2, <1>5
    <3> QED
      BY <2>1, <3>1, <3>3 DEF F
  <2>2. CASE i \in 1..n
    <3>1. PICK p \in Nat, q \in Nat : p = st[i] /\ q = L(i)
      <4>1. i \in 1..15
        BY <2>2, <1>1
      <4>2. L(i) \in Nat
        BY <4>1, <1>2 DEF L, F
      <4> QED
        BY <2>2, <4>2, <1>7
    <3>2. p + q <= B /\ a[i] = p /\ k \in 1..q
      BY <2>2, <3>1, <1>4, <1>6
    <3>3. p + k \in 1..(B + X) /\ p + k <= B
      <4>1. B \in Nat /\ X \in Nat /\ k \in 1..q /\ p + q <= B
        BY <3>2, <1>9, Zenon
      <4> QED
        BY <4>1
    <3>4. c[p + k] = b[p + k]
      BY <3>3, <1>5
    <3>5. b[p + k] = F(i)[k]
      BY <2>2, <3>1, <3>2, <1>6
    <3> QED
      BY <3>2, <3>4, <3>5
  <2> QED
    BY <2>1, <2>2, <1>8
<1>15. Len(a) <= 15 /\ Len(a) # 0 /\ Len(c) = a[Len(a)] + L(Len(a))
  BY <1>1, <1>4, <1>9
<1>16. Layout(m, a, c)
  <2>1. a \in Seq(Nat) /\ c \in Seq(Byte)
    BY <1>4, <1>5
  <2>2. Len(a) > 0 => a[1] = 0 /\ Len(c) = a[Len(a)] + Len(FieldBytes(m, Len(a)))
    BY <1>10, <1>15 DEF L, F
  <2>3. \A i \in 1..Len(a) : a[i] + Len(FieldBytes(m, i)) <= Len(c)
    BY <1>4, <1>11 DEF L, F
  <2>4. \A i, j \in 1..Len(a) : i < j => a[i] + Len(FieldBytes(m, i)) <= a[j]
    BY <1>4, <1>12 DEF L, F
  <2>5. \A i, j \in 1..Len(a) : j = i + 1 => a[i] + Len(FieldBytes(m, i)) = a[j]
    BY <1>4, <1>13 DEF L, F
  <2>6. \A i \in 1..Len(a) : \A k \in 1..Len(FieldBytes(m, i)) :
          c[a[i] + k] = FieldBytes(m, i)[k]
    BY <1>4, <1>14 DEF L, F
  <2> QED
    BY <1>15, <2>1, <2>2, <2>3, <2>4, <2>5, <2>6, Zenon DEF Layout
<1> QED
  BY <1>16 DEF a, c, n, F

\* Every field has one of the types that the decoder knows.
LEMMA DescriptorTypes ==
    ASSUME NEW i \in 1..15
    PROVE  /\ Descriptor[i].size \in Nat /\ Descriptor[i].name \in FieldNames
           /\ Descriptor[i].type \in {"uint", "sint", "fixed", "bytes", "callback"}
           /\ FieldOf(Descriptor[i].name) = Descriptor[i]
<1>1. Descriptor[i].name \in FieldNames
  BY DescriptorLen DEF FieldNames
<1>2. Descriptor[i].size \in Nat
  BY DescriptorTable
<1>3. Descriptor[i].type \in {"uint", "sint", "fixed", "bytes", "callback"}
  BY DescriptorTable
<1> QED
  BY <1>1, <1>2, <1>3, FieldOfName

\* The structs that decode starts with and that encode fills in.
LEMMA StructsFit ==
    /\ \A n \in FieldNames : ZeroMessage.val[n] \in FieldValues(FieldOf(n))
    /\ \A m \in Messages : /\ ToPb(m).has \subseteq FieldNames
                           /\ \A n \in FieldNames : ToPb(m).val[n] \in FieldValues(FieldOf(n))
<1>1. \A n \in FieldNames : \E i \in 1..15 : n = Descriptor[i].name
  BY DescriptorLen DEF FieldNames
<1>2. ASSUME NEW n \in FieldNames PROVE ZeroMessage.val[n] \in FieldValues(FieldOf(n))
  <2>1. PICK i \in 1..15 : n = Descriptor[i].name
    BY <1>1
  <2>2. ZeroVal(i) \in FieldValues(Descriptor[i])
    BY DescriptorTypes, ZeroesFit DEF ZeroVal
  <2> QED
    BY <2>1, <2>2, ZeroVals, FieldOfName
<1>3. ASSUME NEW m \in Messages, NEW n \in FieldNames
      PROVE ToPb(m).val[n] \in FieldValues(FieldOf(n))
  <2>1. PICK i \in 1..15 : n = Descriptor[i].name
    BY <1>1
  <2>2. m \in MeshMessage
    BY CodecAssumption
  <2>3. PbVal(m, i) \in FieldValues(Descriptor[i])
    <3>1. CASE i \in {1, 7, 8, 9, 10}
      <4>1. Descriptor[i].type = "uint"
        BY <3>1, DescriptorTable
      <4>2. Number(m, i) \in Uint32 /\ Number(m, i) = PbVal(m, i)
        BY <2>2, <3>1, NumberType
      <4> QED
        BY <4>1, <4>2 DEF FieldValues
    <3>2. CASE i = 2
      <4>1. Descriptor[i].type = "sint"
        BY <3>2, DescriptorTable
      <4>2. PbVal(m, i) \in Int32
        BY <2>2, <3>2, PbVals, MessageTypes
      <4> QED
        BY <4>1, <4>2 DEF FieldValues
    <3>3. CASE i \in {3, 4, 5}
      <4>1. Descriptor[i].type = "fixed"
        BY <3>3, DescriptorTable
      <4>2. HasText(m, i) /\ Text(m, i) = PbVal(m, i)
        BY <3>3 DEF HasText, Text
      <4>3. PbVal(m, i) \in [1..Descriptor[i].size -> Byte]
        BY <2>2, <3>3, <4>2, TextType
      <4> QED
        BY <4>1, <4>3 DEF FieldValues
    <3>4. CASE i = 6
      <4>1. Descriptor[i].type = "bytes" /\ Descriptor[i].size = 64
        BY <3>4, DescriptorTable
      <4>2. PbVal(m, i) = [size |-> 64, bytes |-> m.data] /\ m.data \in [1..64 -> Byte]
        BY <2>2, <3>4, PbVals, MessageTypes
      <4> QED
        BY <4>1, <4>2 DEF FieldValues
    <3>5. CASE i = 11 /\ Keyed(m)
      <4>1. Descriptor[i].type = "bytes" /\ Descriptor[i].size = 32
        BY <3>5, DescriptorTable
      <4>2. PbVal(m, i) = [size |-> 32, bytes |-> m.key] /\ m.key \in [1..32 -> Byte]
        BY <2>2, <3>5, PbVals, MessageTypes
      <4> QED
        BY <4>1, <4>2 DEF FieldValues
    <3>6. CASE (i = 11 /\ ~Keyed(m)) \/ i \in 12..15
      <4>1. PbVal(m, i) = ZeroVal(i)
        BY <2>2, <3>6, PbVals
      <4> QED
        BY <4>1, DescriptorTypes, ZeroesFit DEF ZeroVal
    <3> QED
      BY <3>1, <3>2, <3>3, <3>4, <3>5, <3>6
  <2> QED
    BY <2>1, <2>3, FieldOfName DEF PbVal
<1>4. ASSUME NEW m PROVE ToPb(m).has \subseteq FieldNames
  <2>1. "data" \in FieldNames /\ "public_key" \in FieldNames
    BY NamesAre, DescriptorTypes
  <2> QED
    BY <2>1 DEF ToPb
<1> QED
  BY <1>2, <1>3, <1>4

-----------------------------------------------------------------------------
(***************************************************************************)
(* The inductive invariant of the codec.                                   *)
(***************************************************************************)

\* pb is a struct with the members of the descriptor.
PbStruct(p) == p = [has |-> p.has, val |-> [n \in FieldNames |-> p.val[n]]]

\* While the frame is written it is the bytes of the fields so far, and no
\* field starts later than it can.
FrameInv ==
    /\ out = [ok |-> TRUE, bytes |-> out.bytes]
    /\ stage = "idle" => iter = 1 /\ starts = << >> /\ out.bytes = << >>
    /\ stage # "idle" => /\ msg \in Messages /\ starts \in Seq(Nat)
                         /\ Layout(msg, starts, out.bytes)
                         /\ Len(out.bytes) <= Most(msg, Len(starts) + 1)
    /\ stage = "encode" => pb = ToPb(msg) /\ Len(starts) = iter - 1
    /\ stage \in {"line", "decode", "done"} => Len(starts) = 15

\* What encode, the line and decode keep true.
CodecInv == MembersFit /\ PbStruct(pb) /\ FrameInv

\* Before anything is encoded the invariant holds.
LEMMA CodecInvInit == CodecInit => CodecInv
<1> SUFFICES ASSUME CodecInit PROVE CodecInv
  OBVIOUS
<1> USE DEF CodecInit
<1>1. PbStruct(pb)
  <2>1. pb = ZeroMessage /\ ZeroMessage.has = {}
    BY DEF ZeroMessage
  <2> QED
    BY <2>1, PbShape, Zenon DEF PbStruct
<1>2. MembersFit
  <2>1. pb.has = {}
    BY DEF ZeroMessage
  <2>2. \A n \in FieldNames : pb.val[n] \in FieldValues(FieldOf(n))
    BY StructsFit
  <2>3. iter \in 1..FieldCount
    BY DescriptorLen
  <2>4. out.bytes \in Seq(Byte) /\ input \in Seq(Byte)
    BY EmptySeq
  <2> QED
    BY <2>1, <2>2, <2>3, <2>4 DEF MembersFit
<1>3. FrameInv
  BY DEF FrameInv
<1> QED
  BY <1>1, <1>2, <1>3 DEF CodecInv

\* encode copies the message into pbMsg.
LEMMA StartEncodeInv ==
    ASSUME CodecInv, NEW m \in Messages, StartEncode(m)
    PROVE  CodecInv'
<1> USE DEF StartEncode
<1>1. PbStruct(pb')
  <2>1. pb' = ToPb(m)
    OBVIOUS
  <2> QED
    BY <2>1, PbShape DEF PbStruct
<1>2. MembersFit'
  <2>1. pb'.has \subseteq FieldNames /\ \A n \in FieldNames : pb'.val[n] \in FieldValues(FieldOf(n))
    BY StructsFit
  <2>2. iter' \in 1..FieldCount
    BY DescriptorLen
  <2> QED
    BY <2>1, <2>2 DEF MembersFit, CodecInv
<1>3. FrameInv'
  <2>1. starts' = << >> /\ out'.bytes = << >> /\ out' = [ok |-> TRUE, bytes |-> out'.bytes]
    BY DEF CodecInv, FrameInv
  <2>2. Len(starts') = 0 /\ Len(out'.bytes) = 0 /\ starts' \in Seq(Nat)
    BY <2>1, EmptySeq
  <2>3. Layout(msg', starts', out'.bytes)
    BY <2>1, LayoutEmpty
  <2>4. 0 <= Most(m, 0 + 1)
    <3>1. 0 + 1 = 1 /\ 1 \in 1..15
      OBVIOUS
    <3>2. PICK k \in Nat : k = Most(m, 1)
      BY <3>1, FieldFits
    <3>3. 0 <= k
      OBVIOUS
    <3> QED
      BY <3>1, <3>2, <3>3
  <2>5. Len(out'.bytes) <= Most(msg', Len(starts') + 1)
    BY <2>2, <2>4
  <2>6. Len(starts') = iter' - 1
    BY <2>2
  <2> QED
    BY <2>1, <2>2, <2>3, <2>5, <2>6 DEF FrameInv
<1> QED
  BY <1>1, <1>2, <1>3 DEF CodecInv

\* A round of pb_encode adds the bytes of one field, which fit.
LEMMA EncodeNextInv ==
    ASSUME CodecInv, EncodeNext
    PROVE  CodecInv' /\ out'.ok
<1> DEFINE b == out.bytes
           x == FieldBytes(msg, iter)
<1>1. /\ msg \in Messages /\ msg \in MeshMessage /\ iter \in 1..15 /\ starts \in Seq(Nat)
      /\ b \in Seq(Byte) /\ out = [ok |-> TRUE, bytes |-> b] /\ pb = ToPb(msg)
      /\ Layout(msg, starts, b) /\ Len(starts) = iter - 1
      /\ Len(b) <= Most(msg, Len(starts) + 1)
  BY CodecAssumption, DescriptorLen DEF CodecInv, FrameInv, MembersFit, EncodeNext
<1>2. Len(starts) + 1 = iter
  <2>1. (iter - 1) + 1 = iter
    <3>1. iter \in Int
      BY <1>1
    <3> QED
      BY <3>1
  <2> QED
    BY <1>1, <2>1, Zenon
<1>3. /\ Most(msg, iter) \in Nat /\ Most(msg, iter + 1) \in Nat /\ Most(msg, iter + 1) <= msg.room
      /\ msg.room \in Nat /\ Most(msg, iter) + Len(x) <= Most(msg, iter + 1)
  BY <1>1, FieldFits
<1>4. x \in Seq(Byte) /\ Len(x) \in Nat /\ Len(b) \in Nat
  BY <1>1, FieldBytesType, ByteSeq
<1>5. Len(b) + Len(x) <= Most(msg, iter + 1) /\ Len(b) + Len(x) <= msg.room
  <2>1. PICK p \in Nat, q \in Nat : p = Most(msg, iter) /\ q = Most(msg, iter + 1)
    BY <1>3
  <2>2. Len(b) <= p
    BY <1>1, <1>2, <2>1
  <2> QED
    BY <1>3, <1>4, <2>1, <2>2
<1>6. out' = [ok |-> TRUE, bytes |-> b \o x]
  BY <1>1, <1>3, <1>5, EncodeFieldIs DEF EncodeNext
<1>7. b \o x \in Seq(Byte) /\ Len(b \o x) = Len(b) + Len(x)
  BY <1>1, <1>4, RestOfConcat
<1>8. starts' = Append(starts, Len(b)) /\ starts' \in Seq(Nat) /\ Len(starts') = Len(starts) + 1
  BY <1>1, <1>4, AppendProperties DEF EncodeNext
<1>9. Layout(msg, starts', b \o x)
  <2>1. Len(starts) < 15
    <3>1. iter \in 1..15
      BY <1>1
    <3>2. iter - 1 < 15
      BY <3>1
    <3> QED
      BY <1>1, <3>2, Zenon
  <2> QED
    BY <1>1, <1>2, <1>8, <2>1, LayoutExtend
<1>10. iter' \in 1..15 /\ (iter' = 1 => iter = 15) /\ (iter' # 1 => iter' = iter + 1)
  <2>1. iter' = IF iter >= 15 THEN 1 ELSE iter + 1
    BY DescriptorLen, Zenon DEF EncodeNext, Advance
  <2>2. iter \in 1..15
    BY <1>1
  <2> QED
    BY <2>1, <2>2
<1>11. out'.ok /\ out'.bytes = b \o x
  BY <1>6
<1>12. /\ msg' = msg /\ pb' = pb /\ input' = input
       /\ stage' = IF iter' = 1 THEN "line" ELSE "encode"
  BY <1>11 DEF EncodeNext
<1>13. FrameInv'
  <2>1. out' = [ok |-> TRUE, bytes |-> out'.bytes]
    BY <1>6, <1>11
  <2>2. /\ msg' \in Messages /\ starts' \in Seq(Nat)
        /\ Layout(msg', starts', out'.bytes)
    BY <1>1, <1>8, <1>9, <1>11, <1>12
  <2>3. Len(out'.bytes) <= Most(msg', Len(starts') + 1)
    BY <1>2, <1>5, <1>7, <1>8, <1>11, <1>12
  <2>4. pb' = ToPb(msg')
    BY <1>1, <1>12
  <2>5. Len(starts') = iter
    BY <1>2, <1>8
  <2>6. stage' = "encode" => iter = iter' - 1
    BY <1>1, <1>10, <1>12
  <2>7. stage' \in {"line", "decode", "done"} => iter = 15
    BY <1>10, <1>12
  <2>8. stage' # "idle"
    BY <1>12
  <2> QED
    BY <2>1, <2>2, <2>3, <2>4, <2>5, <2>6, <2>7, <2>8 DEF FrameInv
<1>14. MembersFit'
  BY <1>7, <1>10, <1>11, <1>12, DescriptorLen DEF CodecInv, MembersFit
<1>15. PbStruct(pb')
  BY <1>12 DEF CodecInv
<1> QED
  BY <1>11, <1>13, <1>14, <1>15 DEF CodecInv

\* Whatever arrives, decode starts with a zeroed struct.
LEMMA ArrivesInv ==
    ASSUME CodecInv, NEW bytes \in Seq(Byte), NEW kind, NEW at, Arrives(bytes, kind, at)
    PROVE  CodecInv'
<1> USE DEF Arrives
<1>1. PbStruct(pb')
  <2>1. pb' = ZeroMessage /\ ZeroMessage.has = {}
    BY DEF ZeroMessage
  <2> QED
    BY <2>1, PbShape, Zenon DEF PbStruct
<1>2. MembersFit'
  <2>1. pb'.has = {}
    BY DEF ZeroMessage
  <2>2. \A n \in FieldNames : pb'.val[n] \in FieldValues(FieldOf(n))
    BY StructsFit
  <2>3. iter' \in 1..FieldCount
    BY DescriptorLen
  <2> QED
    BY <2>1, <2>2, <2>3 DEF MembersFit, CodecInv
<1>3. FrameInv'
  BY DEF CodecInv, FrameInv
<1> QED
  BY <1>1, <1>2, <1>3 DEF CodecInv

\* The frame as it is handed to the line.
LEMMA WholeFrame ==
    ASSUME CodecInv, stage = "line"
    PROVE  /\ out.bytes \in Seq(Byte) /\ Len(out.bytes) \in Nat
           /\ Len(starts) = 15 /\ DOMAIN starts = 1..15
           /\ \A i \in 1..15 : starts[i] \in 0..Len(out.bytes)
<1>1. /\ out.bytes \in Seq(Byte) /\ starts \in Seq(Nat) /\ Len(starts) = 15
      /\ msg \in Messages /\ Layout(msg, starts, out.bytes)
  BY DEF CodecInv, FrameInv, MembersFit
<1>2. DOMAIN starts = 1..15 /\ \A i \in 1..15 : starts[i] \in Nat
  BY <1>1, LenProperties, ElementOfSeq
<1>3. Len(out.bytes) \in Nat
  BY <1>1, ByteSeq
<1>4. ASSUME NEW i \in 1..15 PROVE starts[i] \in 0..Len(out.bytes)
  <2>1. msg \in MeshMessage
    BY <1>1, CodecAssumption
  <2>2. PICK L \in Nat, p \in Nat : L = Len(FieldBytes(msg, i)) /\ p = starts[i]
    BY <1>2, <2>1, FieldBytesType
  <2>3. p + L <= Len(out.bytes)
    BY <1>1, <2>2 DEF Layout
  <2>4. p \in 0..Len(out.bytes)
    BY <1>3, <2>3
  <2> QED
    BY <2>2, <2>4
<1> QED
  BY <1>1, <1>2, <1>3, <1>4

\* The bytes of an unknown field.
LEMMA OtherBytesType ==
    ASSUME NEW u \in Unknown
    PROVE  /\ OtherField(u) /\ OtherBytes(u) \in Seq(Byte)
           /\ u.wire \in {VARINT, BIT64, STRING_, BIT32} /\ u.tag \in Nat /\ u.tag >= 15
           /\ 8 * u.tag + u.wire \in Uint32 /\ u.value \in Seq(Byte)
           /\ u.wire = STRING_ => Len(u.value) \in Uint32
<1>1. OtherField(u)
  BY CodecAssumption
<1>2. /\ u.tag \in 15..(UintMod \div 8 - 1) /\ u.value \in Seq(Byte)
      /\ u.wire \in {VARINT, BIT64, STRING_, BIT32} /\ (u.wire = STRING_ => Len(u.value) < UintMod)
  BY <1>1 DEF OtherField, VARINT, BIT64, STRING_, BIT32
<1>3. UintMod \in Nat
  BY Ranges
<1>4. 8 * u.tag + u.wire \in Uint32 /\ u.tag \in Nat /\ u.tag >= 15
  <2>1. u.wire \in 0..5
    BY <1>2 DEF VARINT, BIT64, STRING_, BIT32
  <2>2. PICK q \in Nat : q = UintMod \div 8 /\ 8 * q <= UintMod
    BY <1>3
  <2>3. u.tag \in 15..(q - 1)
    BY <1>2, <2>2
  <2>4. 8 * u.tag + u.wire \in Nat /\ 8 * u.tag + u.wire < UintMod
    BY <1>3, <2>1, <2>2, <2>3
  <2> QED
    BY <2>3, <2>4, Ranges
<1>5. u.wire = STRING_ => Len(u.value) \in Uint32
  BY <1>2, ByteSeq, Ranges
<1>6. OtherBytes(u) \in Seq(Byte)
  <2>1. EncodeTag(u.tag, u.wire) \in Seq(Byte)
    BY <1>4, VarintBytesAre DEF EncodeTag
  <2>2. (IF u.wire = STRING_ THEN EncodeVarint(Len(u.value)) ELSE << >>) \in Seq(Byte)
    BY <1>5, VarintBytesAre, EmptySeq
  <2> QED
    BY <1>2, <2>1, <2>2, ConcatProperties, Zenon DEF OtherBytes
<1> QED
  BY <1>1, <1>2, <1>4, <1>5, <1>6

\* The bytes between two places of a frame.
LEMMA PartType ==
    ASSUME NEW b \in Seq(Byte), NEW p \in Nat, NEW q \in Nat, p <= q, q <= Len(b)
    PROVE  /\ SubSeq(b, p + 1, q) \in Seq(Byte) /\ Len(SubSeq(b, p + 1, q)) = q - p
           /\ \A k \in 1..(q - p) : SubSeq(b, p + 1, q)[k] = b[p + k]
<1>1. Len(b) \in Nat /\ \A i \in 1..Len(b) : b[i] \in Byte
  BY ByteSeq
<1>2. p + 1 \in Int /\ q \in Int /\ \A i \in (p + 1)..q : b[i] \in Byte
  BY <1>1
<1>3. /\ SubSeq(b, p + 1, q) \in Seq(Byte)
      /\ Len(SubSeq(b, p + 1, q)) = IF p + 1 <= q THEN q - (p + 1) + 1 ELSE 0
      /\ \A i \in 1..(q - (p + 1) + 1) : SubSeq(b, p + 1, q)[i] = b[p + 1 + i - 1]
  BY <1>2, SubSeqProperties
<1> QED
  BY <1>3

\* Everything that can happen on the line.
LEMMA LineInv ==
    ASSUME CodecInv,
           \/ Intact
           \/ \E k \in 0..256 : Cut(k) \/ LoseByte(k) \/ \E b \in Garbage : Garble(k, b)
           \/ \E i \in DOMAIN starts : Rotated(i) \/ \E u \in Unknown : OtherVersion(i, u)
    PROVE  CodecInv'
<1> DEFINE b == out.bytes
           n == Len(b)
<1>1. stage = "line"
  BY Zenon DEF Intact, Cut, LoseByte, Garble, Rotated, OtherVersion, Arrives
<1>2. b \in Seq(Byte) /\ n \in Nat /\ DOMAIN starts = 1..15
      /\ \A i \in 1..15 : starts[i] \in 0..n
  BY <1>1, WholeFrame
<1>3. \A k \in 0..n : SubSeq(b, 1, k) \in Seq(Byte) /\ SubSeq(b, k + 1, n) \in Seq(Byte)
  <2> SUFFICES ASSUME NEW k \in 0..n
               PROVE  SubSeq(b, 1, k) \in Seq(Byte) /\ SubSeq(b, k + 1, n) \in Seq(Byte)
    OBVIOUS
  <2>1. k \in Nat /\ 0 <= k /\ k <= n /\ n <= n /\ 0 + 1 = 1
    BY <1>2
  <2>2. SubSeq(b, 0 + 1, k) \in Seq(Byte)
    BY <1>2, <2>1, PartType
  <2>3. SubSeq(b, k + 1, n) \in Seq(Byte)
    BY <1>2, <2>1, PartType
  <2> QED
    BY <2>1, <2>2, <2>3
<1> HIDE DEF b, n
<1>4. CASE Intact
  BY <1>2, <1>4, ArrivesInv DEF Intact, b
<1>5. ASSUME NEW k \in 0..256, Cut(k) PROVE CodecInv'
  <2>1. k \in 0..n
    <3>1. k < n
      BY <1>5 DEF Cut, b, n
    <3> QED
      BY <1>2, <3>1
  <2> QED
    BY <1>3, <1>5, <2>1, ArrivesInv DEF Cut, b
<1>6. ASSUME NEW k \in 0..256, LoseByte(k) PROVE CodecInv'
  <2>1. k \in 1..n
    BY <1>6 DEF LoseByte, b, n
  <2>2. k - 1 \in 0..n /\ k \in 0..n
    BY <1>2, <2>1
  <2>3. <<24>> \in Seq(Byte)
    BY OneByte
  <2>4. SubSeq(b, 1, k - 1) \o SubSeq(b, k + 1, n) \o <<24>> \in Seq(Byte)
    BY <1>3, <2>2, <2>3, ConcatProperties, Zenon
  <2> QED
    BY <1>6, <2>4, ArrivesInv DEF LoseByte, b, n
<1>7. ASSUME NEW k \in 0..256, NEW c \in Garbage, Garble(k, c) PROVE CodecInv'
  <2>1. k \in 1..n /\ c \in Byte
    BY <1>7, CodecAssumption DEF Garble, b, n
  <2>2. [b EXCEPT ![k] = c] \in Seq(Byte)
    BY <1>2, <2>1, ExceptSeq DEF n
  <2> QED
    BY <1>7, <2>2, ArrivesInv DEF Garble, b
<1>8. ASSUME NEW i \in DOMAIN starts, Rotated(i) PROVE CodecInv'
  <2>1. starts[i] \in 0..n
    BY <1>2, <1>8
  <2>2. SubSeq(b, starts[i] + 1, n) \o SubSeq(b, 1, starts[i]) \in Seq(Byte)
    BY <1>3, <2>1, ConcatProperties, Zenon
  <2> QED
    BY <1>8, <2>2, ArrivesInv DEF Rotated, b, n
<1>9. ASSUME NEW i \in DOMAIN starts, NEW u \in Unknown, OtherVersion(i, u) PROVE CodecInv'
  <2>1. starts[i] \in 0..n
    BY <1>2, <1>9
  <2>2. OtherBytes(u) \in Seq(Byte)
    BY OtherBytesType
  <2>3. SubSeq(b, 1, starts[i]) \o OtherBytes(u) \o SubSeq(b, starts[i] + 1, n) \in Seq(Byte)
    BY <1>3, <2>1, <2>2, ConcatProperties, Zenon
  <2> QED
    BY <1>9, <2>3, ArrivesInv DEF OtherVersion, b, n
<1> QED
  BY <1>4, <1>5, <1>6, <1>7, <1>8, <1>9

-----------------------------------------------------------------------------
(***************************************************************************)
(* The decoder on any bytes.                                               *)
(***************************************************************************)

\* The ways one round of the decoder's loop can go.
Round(t, found, skipped, value) ==
    \/ (~t.ok \/ t.val[1] = 0) /\ Refuse
    \/ t.ok /\ t.val[1] # 0 /\ ~found.found /\ ~skipped.ok /\ Refuse
    \/ t.ok /\ t.val[1] # 0 /\ ~found.found /\ skipped.ok /\ Pass(skipped)
    \/ t.ok /\ t.val[1] # 0 /\ found.found /\ ~value.ok /\ Refuse
    \/ t.ok /\ t.val[1] # 0 /\ found.found /\ value.ok /\ Take(found.at, value)

\* A round of pb_decode_inner goes one of those ways.
LEMMA DecodeSteps ==
    ASSUME DecodeNext,
           NEW t, t = DecodeTag(input),
           NEW found, found = IterFind(iter, t.val[1]),
           NEW f, f = Descriptor[found.at],
           NEW skipped, skipped = SkipField(t.rest, t.val[2]),
           NEW value, value = DecodeValue(f, pb.val[f.name], t.rest, t.val[2])
    PROVE  Round(t, found, skipped, value)
<1>1. CASE ~t.ok
  BY <1>1 DEF DecodeNext, Round
<1>2. CASE t.ok /\ t.val[1] = 0
  BY <1>2 DEF DecodeNext, Round
<1>3. CASE t.ok /\ t.val[1] # 0 /\ ~found.found
  BY <1>3 DEF DecodeNext, Round
<1>4. CASE t.ok /\ t.val[1] # 0 /\ found.found
  BY <1>4 DEF DecodeNext, Round
<1> QED
  BY <1>1, <1>2, <1>3, <1>4

\* The members of an output stream.
LEMMA StructOk ==
    ASSUME NEW o, NEW b, o = [ok |-> TRUE, bytes |-> b]
    PROVE  o.ok /\ o.bytes = b
OBVIOUS

\* The members of a message.
LEMMA StructMembers ==
    ASSUME NEW p, NEW h, NEW v, p = [has |-> h, val |-> v]
    PROVE  p.has = h /\ p.val = v
OBVIOUS

\* A value that is taken is one of its member's.
LEMMA TakeFits ==
    ASSUME CodecInv, stage = "decode", NEW at \in 1..15, NEW r, Take(at, r), r.rest \in Seq(Byte),
           Descriptor[at].type # "callback" => r.val \in FieldValues(Descriptor[at])
    PROVE  CodecInv'
<1> DEFINE f == Descriptor[at]
           w == IF f.type = "callback" THEN pb.val ELSE [pb.val EXCEPT ![f.name] = r.val]
           h == IF f.hasFlag THEN pb.has \cup {f.name} ELSE pb.has
<1>1. /\ pb' = [has |-> h, val |-> w] /\ iter' = at /\ input' = r.rest
      /\ UNCHANGED <<stage, msg, out, starts, line, result>>
  BY Zenon DEF Take
<1>2. f.name \in FieldNames /\ FieldOf(f.name) = f
  BY DescriptorTypes
<1>3. /\ pb.has \subseteq FieldNames /\ PbStruct(pb)
      /\ \A n \in FieldNames : pb.val[n] \in FieldValues(FieldOf(n))
  BY DEF CodecInv, MembersFit
<1>4. pb.val = [n \in FieldNames |-> pb.val[n]]
  BY <1>3, StructMembers, Zenon DEF PbStruct
<1>5. DOMAIN pb.val = FieldNames
  BY <1>4, Zenon
<1>6. w = [n \in FieldNames |-> IF f.type # "callback" /\ n = f.name THEN r.val ELSE pb.val[n]]
  <2>1. CASE f.type = "callback"
    <3>1. w = pb.val
      BY <2>1
    <3> HIDE DEF w
    <3>2. w = [n \in FieldNames |-> pb.val[n]]
      BY <3>1, <1>4
    <3> QED
      BY <2>1, <3>2
  <2>2. CASE f.type # "callback"
    <3>1. w = [pb.val EXCEPT ![f.name] = r.val]
      BY <2>2
    <3> HIDE DEF w
    <3> QED
      BY <2>2, <3>1, <1>5
  <2> QED
    BY <2>1, <2>2
<1> HIDE DEF w, h
<1>7. pb'.has = h /\ pb'.val = w
  BY <1>1
<1>8. h \subseteq FieldNames
  BY <1>2, <1>3 DEF h
<1>9. \A n \in FieldNames : w[n] \in FieldValues(FieldOf(n))
  BY <1>2, <1>3, <1>6
<1>10. PbStruct(pb')
  <2>1. w = [n \in FieldNames |-> w[n]]
    BY <1>6
  <2> QED
    BY <1>1, <1>7, <2>1, Zenon DEF PbStruct
<1>11. MembersFit'
  BY <1>1, <1>7, <1>8, <1>9, DescriptorLen DEF CodecInv, MembersFit
<1>12. FrameInv'
  <2>1. stage' = "decode" /\ out' = out /\ starts' = starts /\ msg' = msg
    BY <1>1
  <2> QED
    BY <2>1 DEF CodecInv, FrameInv
<1> QED
  BY <1>10, <1>11, <1>12 DEF CodecInv

\* A refused frame leaves the struct as it is.
LEMMA RefuseInv ==
    ASSUME CodecInv, stage = "decode", Refuse
    PROVE  CodecInv'
<1>1. /\ stage' = "done" /\ out' = out /\ starts' = starts /\ msg' = msg
      /\ pb' = pb /\ iter' = iter /\ input' = input
  BY DEF Refuse
<1>2. MembersFit'
  BY <1>1 DEF CodecInv, MembersFit
<1>3. FrameInv'
  BY <1>1 DEF CodecInv, FrameInv
<1> QED
  BY <1>1, <1>2, <1>3 DEF CodecInv, PbStruct

\* A round of pb_decode_inner keeps the invariant, whatever bytes it reads.
LEMMA DecodeNextInv ==
    ASSUME CodecInv, DecodeNext
    PROVE  CodecInv'
<1>1. PICK t : t = DecodeTag(input)
  OBVIOUS
<1>2. PICK found : found = IterFind(iter, t.val[1])
  OBVIOUS
<1>3. PICK f : f = Descriptor[found.at]
  OBVIOUS
<1>4. PICK skipped : skipped = SkipField(t.rest, t.val[2])
  OBVIOUS
<1>5. PICK value : value = DecodeValue(f, pb.val[f.name], t.rest, t.val[2])
  OBVIOUS
<1>6. stage = "decode" /\ input \in Seq(Byte) /\ iter \in 1..15
  BY DescriptorLen DEF DecodeNext, CodecInv, MembersFit
<1>7. t.ok => t.rest \in Seq(Byte) /\ t.val[1] \in Nat
  BY <1>1, <1>6, DecodeTagType
<1>8. t.ok => found.at \in 1..15
  BY <1>2, <1>6, <1>7, IterFindIs
<1>9. CASE Refuse
  BY <1>6, <1>9, RefuseInv
<1>10. CASE t.ok /\ skipped.ok /\ Pass(skipped)
  <2>1. skipped.rest \in Seq(Byte)
    BY <1>4, <1>7, <1>10, SkipFieldType
  <2>2. /\ input' = skipped.rest /\ stage' = "decode" /\ out' = out /\ starts' = starts
        /\ msg' = msg /\ pb' = pb /\ iter' = iter
    BY <1>6, <1>10 DEF Pass
  <2>3. MembersFit'
    BY <2>1, <2>2 DEF CodecInv, MembersFit
  <2>4. FrameInv'
    BY <1>6, <2>2 DEF CodecInv, FrameInv
  <2> QED
    BY <2>2, <2>3, <2>4 DEF CodecInv, PbStruct
<1>11. CASE t.ok /\ value.ok /\ Take(found.at, value)
  <2>1. /\ f.size \in Nat /\ f.name \in FieldNames /\ FieldOf(f.name) = f
        /\ f.type \in {"uint", "sint", "fixed", "bytes", "callback"}
    BY <1>3, <1>8, <1>11, DescriptorTypes
  <2>2. pb.val[f.name] \in FieldValues(f)
    BY <2>1 DEF CodecInv, MembersFit
  <2>3. value.rest \in Seq(Byte) /\ (f.type # "callback" => value.val \in FieldValues(f))
    BY <1>5, <1>7, <1>11, <2>1, <2>2, DecodeValueType
  <2> QED
    BY <1>3, <1>6, <1>8, <1>11, <2>3, TakeFits
<1> QED
  BY <1>1, <1>2, <1>3, <1>4, <1>5, <1>9, <1>10, <1>11, DecodeSteps DEF Round

\* Every step keeps the invariant.
LEMMA CodecInvStep == CodecInv /\ [CodecNext]_codecVars => CodecInv'
<1> SUFFICES ASSUME CodecInv, [CodecNext]_codecVars PROVE CodecInv'
  OBVIOUS
<1>1. CASE \E m \in Messages : StartEncode(m)
  BY <1>1, StartEncodeInv
<1>2. CASE EncodeNext
  BY <1>2, EncodeNextInv
<1>3. CASE \/ Intact
           \/ \E k \in 0..256 : Cut(k) \/ LoseByte(k) \/ \E b \in Garbage : Garble(k, b)
           \/ \E i \in DOMAIN starts : Rotated(i) \/ \E u \in Unknown : OtherVersion(i, u)
  BY <1>3, LineInv
<1>4. CASE DecodeNext
  BY <1>4, DecodeNextInv
<1>5. CASE DecodeEnds
  <2>1. /\ stage = "decode" /\ stage' = "done" /\ out' = out /\ starts' = starts /\ msg' = msg
        /\ pb' = pb /\ iter' = iter /\ input' = input
    BY <1>5 DEF DecodeEnds
  <2>2. MembersFit'
    BY <2>1 DEF CodecInv, MembersFit
  <2>3. FrameInv'
    BY <2>1 DEF CodecInv, FrameInv
  <2> QED
    BY <2>1, <2>2, <2>3 DEF CodecInv, PbStruct
<1>6. CASE UNCHANGED codecVars
  <2>1. /\ stage' = stage /\ out' = out /\ starts' = starts /\ msg' = msg
        /\ pb' = pb /\ iter' = iter /\ input' = input
    BY <1>6 DEF codecVars
  <2>2. MembersFit'
    BY <2>1 DEF CodecInv, MembersFit
  <2>3. FrameInv'
    BY <2>1 DEF CodecInv, FrameInv
  <2> QED
    BY <2>1, <2>2, <2>3 DEF CodecInv, PbStruct
<1> QED
  BY <1>1, <1>2, <1>3, <1>4, <1>5, <1>6 DEF CodecNext

\* Every message fits its buffer.
LEMMA InvFits == CodecInv => EncodeFits
<1> SUFFICES ASSUME CodecInv PROVE EncodeFits
  OBVIOUS
<1>1. out.ok
  BY StructOk DEF CodecInv, FrameInv
<1>2. ASSUME stage # "idle" PROVE Len(out.bytes) <= msg.room
  <2>1. /\ msg \in Messages /\ starts \in Seq(Nat) /\ Layout(msg, starts, out.bytes)
        /\ Len(out.bytes) <= Most(msg, Len(starts) + 1) /\ Len(starts) <= 15
    BY <1>2 DEF CodecInv, FrameInv, Layout
  <2>2. msg.room \in Nat /\ msg \in MeshMessage
    <3>1. 1 \in 1..15
      OBVIOUS
    <3>2. msg \in Messages
      BY <2>1, Zenon
    <3>3. msg.room \in Nat
      BY <3>1, <3>2, FieldFits
    <3> QED
      BY <3>2, <3>3, CodecAssumption
  <2>3. Len(out.bytes) \in Nat
    BY ByteSeq DEF CodecInv, MembersFit
  <2>4. PICK n \in Nat : n = Len(starts)
    BY <2>1, LenProperties
  <2>5. CASE n = 0
    <3>1. Len(out.bytes) = 0
      BY <2>1, <2>4, <2>5 DEF Layout
    <3> QED
      BY <2>2, <3>1
  <2>6. CASE n # 0
    <3>0. n <= 15
      BY <2>1, <2>4, Zenon
    <3>1. n \in 1..15
      BY <2>6, <3>0
    <3>2. PICK q \in Nat : q = Most(msg, n + 1) /\ q <= msg.room
      BY <2>1, <3>1, FieldFits
    <3>3. Len(out.bytes) <= q
      BY <2>1, <2>4, <3>2
    <3> QED
      BY <2>2, <2>3, <3>2, <3>3
  <2> QED
    BY <2>5, <2>6
<1> QED
  BY <1>1, <1>2 DEF EncodeFits

\* Whatever bytes arrive, pb_decode writes past no member of mesh_MeshMessage
\* (pb_dec_bytes and pb_dec_fixed_length_bytes compare the length with the
\* array first), for every message, byte of garbage and unknown field.
THEOREM MembersFitAlways == CodecSpec => []MembersFit
<1>1. CodecInv => MembersFit
  BY DEF CodecInv
<1> QED
  BY <1>1, CodecInvInit, CodecInvStep, PTL DEF CodecSpec

\* SerialFraming::encode never returns 0: any message takes at most 149 of the
\* 256 bytes of onMeshDataImpl, and an enrollment request relayed to the
\* server at most the 128 bytes of its buffer.
THEOREM EncodeFitsAlways == CodecSpec => []EncodeFits
BY InvFits, CodecInvInit, CodecInvStep, PTL DEF CodecSpec

-----------------------------------------------------------------------------
(***************************************************************************)
(* The decoder on bytes that the encoder wrote.                            *)
(***************************************************************************)

\* Reading what stands at the head of the stream.
LEMMA ReadHead ==
    ASSUME NEW e \in Seq(Byte), NEW r \in Seq(Byte)
    PROVE  Read(e \o r, Len(e)) = Good(e, r) /\ Skip(e \o r, Len(e)) = Good(0, r)
<1> DEFINE s == e \o r
           h == SubSeq(s, 0 + 1, Len(e))
<1>1. /\ s \in Seq(Byte) /\ Len(s) = Len(e) + Len(r)
      /\ \A i \in 1..Len(e) : s[i] = e[i]
      /\ SubSeq(s, Len(e) + 1, Len(s)) = r
  BY RestOfConcat
<1>2. Len(e) \in Nat /\ Len(r) \in Nat
  BY ByteSeq
<1> HIDE DEF s
<1>3. h = e
  <2>1. 0 \in Nat /\ 0 <= Len(e) /\ Len(e) <= Len(s)
    BY <1>1, <1>2
  <2>2. /\ h \in Seq(Byte) /\ Len(h) = Len(e) - 0
        /\ \A k \in 1..(Len(e) - 0) : h[k] = s[0 + k]
    BY <1>1, <1>2, <2>1, PartType
  <2> HIDE DEF h
  <2>3. Len(h) = Len(e)
    BY <1>2, <2>2
  <2>4. \A k \in 1..Len(h) : h[k] = e[k]
    BY <1>1, <1>2, <2>2
  <2> QED
    BY <2>2, <2>3, <2>4, SeqEqual
<1>4. SubSeq(s, 1, Len(e)) = e
  <2>1. 0 + 1 = 1
    OBVIOUS
  <2> QED
    BY <1>3, <2>1
<1>5. ~(Len(s) < Len(e))
  BY <1>1, <1>2
<1>6. Read(s, Len(e)) = Good(e, r)
  BY <1>1, <1>4, <1>5, Zenon DEF Read
<1>7. Good(e, r).ok /\ Good(e, r).rest = r
  BY DEF Good
<1>8. Skip(s, Len(e)) = Good(0, r)
  BY <1>6, <1>7, Zenon DEF Skip
<1> QED
  BY <1>6, <1>8 DEF s

\* pb_decode_tag reads the tag it finds.
LEMMA TagRoundTrip ==
    ASSUME NEW tag \in Nat, NEW wire \in 0..7, 8 * tag + wire \in Uint32, NEW r \in Seq(Byte)
    PROVE  DecodeTag(EncodeTag(tag, wire) \o r) = Good(<<tag, wire>>, r)
<1>1. PICK v \in Uint32 : v = 8 * tag + wire
  OBVIOUS
<1>2. DecodeVarint32(EncodeVarint(v) \o r) = Good(v, r)
  BY VarintRoundTrip
<1>3. v \div 8 = tag /\ v % 8 = wire
  BY <1>1
<1>4. Good(v, r).ok /\ Good(v, r).rest = r /\ Good(v, r).val = v
  BY DEF Good
<1>5. EncodeTag(tag, wire) = EncodeVarint(v)
  BY <1>1 DEF EncodeTag
<1> QED
  BY <1>2, <1>3, <1>4, <1>5, Zenon DEF DecodeTag

\* The wire type of field i and its bytes behind the tag.
Wire(m, i) == IF HasNumber(m, i) THEN VARINT ELSE STRING_
Body(m, i) == IF HasNumber(m, i) THEN EncodeVarint(Number(m, i)) ELSE <<TextSize(i)>> \o Text(m, i)

\* A field that is in the frame is a tag of one byte and a body.
LEMMA FieldParts ==
    ASSUME NEW m \in MeshMessage, NEW i \in 1..15, HasNumber(m, i) \/ HasText(m, i)
    PROVE  /\ i \in 1..14 /\ Body(m, i) \in Seq(Byte)
           /\ Wire(m, i) \in 0..7 /\ 8 * i + Wire(m, i) \in Nat /\ 8 * i + Wire(m, i) < 128
           /\ FieldBytes(m, i) = <<8 * i + Wire(m, i)>> \o Body(m, i)
           /\ EncodeTag(i, Wire(m, i)) = <<8 * i + Wire(m, i)>>
           /\ HasNumber(m, i) => /\ i \in {1, 2, 7, 8, 9, 10} /\ Wire(m, i) = VARINT
                                 /\ Body(m, i) = EncodeVarint(Number(m, i))
                                 /\ Number(m, i) \in Uint32
           /\ ~HasNumber(m, i) =>
                /\ i \in {3, 4, 5, 6, 11} /\ Wire(m, i) = STRING_ /\ HasText(m, i)
                /\ Body(m, i) = <<TextSize(i)>> \o Text(m, i)
                /\ EncodeVarint(TextSize(i)) = <<TextSize(i)>> /\ <<TextSize(i)>> \in Seq(Byte)
                /\ Text(m, i) \in Seq(Byte) /\ Len(Text(m, i)) = TextSize(i)
                /\ TextSize(i) \in 1..64 /\ TextSize(i) = Descriptor[i].size
                /\ TextSize(i) \in Uint32
<1> DEFINE w == Wire(m, i)
<1>1. CASE HasNumber(m, i)
  <2>1. i \in {1, 2, 7, 8, 9, 10} /\ FieldBytes(m, i) = <<8 * i>> \o EncodeVarint(Number(m, i))
    BY <1>1, FieldKinds
  <2>2. Number(m, i) \in Uint32
    BY <2>1, NumberType
  <2>3. w = 0 /\ w = VARINT /\ Body(m, i) = EncodeVarint(Number(m, i))
    BY <1>1 DEF Wire, VARINT, Body
  <2>4. 8 * i + w = 8 * i /\ 8 * i \in Nat /\ 8 * i < 128 /\ i \in 1..14
    BY <2>1, <2>3
  <2>5. EncodeVarint(8 * i) = <<8 * i>>
    BY <2>4, OneByte
  <2>6. EncodeTag(i, w) = <<8 * i>>
    BY <2>4, <2>5 DEF EncodeTag
  <2>7. Body(m, i) \in Seq(Byte)
    BY <2>2, <2>3, VarintBytesAre
  <2>8. w \in 0..7
    BY <2>3
  <2> QED
    BY <1>1, <2>1, <2>2, <2>3, <2>4, <2>6, <2>7, <2>8
<1>2. CASE ~HasNumber(m, i)
  <2>1. /\ HasText(m, i) /\ i \in {3, 4, 5, 6, 11}
        /\ FieldBytes(m, i) = <<(8 * i) + 2>> \o (<<TextSize(i)>> \o Text(m, i))
    BY <1>2, FieldKinds
  <2>2. /\ Text(m, i) \in Seq(Byte) /\ Len(Text(m, i)) = TextSize(i)
        /\ TextSize(i) \in 1..64 /\ TextSize(i) = Descriptor[i].size
    BY <2>1, TextType
  <2>3. w = 2 /\ w = STRING_ /\ Body(m, i) = <<TextSize(i)>> \o Text(m, i)
    BY <1>2 DEF Wire, STRING_, Body
  <2>4. 8 * i + w = (8 * i) + 2 /\ (8 * i) + 2 \in Nat /\ (8 * i) + 2 < 128 /\ i \in 1..14
    BY <2>1, <2>3
  <2>5. EncodeVarint((8 * i) + 2) = <<(8 * i) + 2>>
    BY <2>4, OneByte
  <2>6. EncodeTag(i, w) = <<(8 * i) + 2>>
    BY <2>4, <2>5 DEF EncodeTag
  <2>7. PICK t \in 1..64 : t = TextSize(i)
    BY <2>2
  <2>8. EncodeVarint(t) = <<t>> /\ <<t>> \in Seq(Byte) /\ t \in Uint32
    BY <2>7, OneByte
  <2>9. Body(m, i) \in Seq(Byte)
    BY <2>2, <2>3, <2>7, <2>8, ConcatProperties, Zenon
  <2>10. w \in 0..7
    BY <2>3
  <2> QED
    BY <1>2, <2>1, <2>2, <2>3, <2>4, <2>6, <2>7, <2>8, <2>9, <2>10, Zenon
<1> QED
  BY <1>1, <1>2

\* An array that is replaced altogether.
LEMMA OverwriteAll ==
    ASSUME NEW n \in Nat, NEW old \in [1..n -> Byte], NEW x \in Seq(Byte), Len(x) = n
    PROVE  Overwrite(old, x) = x
<1>1. old \in Seq(Byte) /\ Len(old) = n
  BY ArrayIsSeq
<1>2. SubSeq(old, n + 1, n) = << >>
  <2>1. n \in 0..Len(old)
    BY <1>1
  <2>2. SubSeq(old, n + 1, n) \in Seq(Byte) /\ Len(SubSeq(old, n + 1, n)) = n - n
    BY <1>1, <2>1, RestType
  <2>3. n - n = 0
    OBVIOUS
  <2> QED
    BY <2>2, <2>3, EmptySeq
<1>3. x \o << >> = x
  BY ConcatEmptySeq
<1> QED
  BY <1>1, <1>2, <1>3, Zenon DEF Overwrite

\* decode_field reads what encode_field wrote into a zeroed member, and
\* nothing of what follows.
LEMMA FieldRoundTrip ==
    ASSUME NEW m \in MeshMessage, NEW i \in 1..15, HasNumber(m, i) \/ HasText(m, i),
           NEW r \in Seq(Byte)
    PROVE  /\ DecodeTag(FieldBytes(m, i) \o r) = Good(<<i, Wire(m, i)>>, Body(m, i) \o r)
           /\ DecodeValue(Descriptor[i], ZeroVal(i), Body(m, i) \o r, Wire(m, i))
                = Good(PbVal(m, i), r)
           /\ \A old : DecodeValue(Descriptor[i], old, Body(m, i) \o r, Wire(m, i)).rest = r
<1> DEFINE w == Wire(m, i)
           b == Body(m, i)
           f == Descriptor[i]
<1>1. /\ i \in 1..14 /\ b \in Seq(Byte) /\ w \in 0..7 /\ 8 * i + w \in Nat /\ 8 * i + w < 128
      /\ FieldBytes(m, i) = <<8 * i + w>> \o b /\ EncodeTag(i, w) = <<8 * i + w>>
  BY FieldParts
<1>2. b \o r \in Seq(Byte)
  BY <1>1, RestOfConcat
<1>3. DecodeTag(FieldBytes(m, i) \o r) = Good(<<i, w>>, b \o r)
  <2>1. 8 * i + w \in Uint32 /\ <<8 * i + w>> \in Seq(Byte)
    BY <1>1, OneByte
  <2>2. (<<8 * i + w>> \o b) \o r = <<8 * i + w>> \o (b \o r)
    BY <1>1, <2>1, BytesAssociative, Zenon
  <2>3. DecodeTag(EncodeTag(i, w) \o (b \o r)) = Good(<<i, w>>, b \o r)
    <3>1. i \in Nat
      OBVIOUS
    <3> QED
      BY <1>1, <1>2, <2>1, <3>1, TagRoundTrip, Zenon
  <2> QED
    BY <1>1, <2>2, <2>3, Zenon
<1>6. \A v : Good(v, r).rest = r
  BY DEF Good
<1>4. CASE HasNumber(m, i)
  <2> DEFINE v == Number(m, i)
  <2>1. i \in {1, 2, 7, 8, 9, 10} /\ w = VARINT /\ b = EncodeVarint(v) /\ v \in Uint32
    BY <1>4, FieldParts
  <2>2. DecodeVarint(b \o r) = Good(v, r)
    BY <2>1, VarintRoundTrip
  <2>3. Good(v, r).ok /\ Good(v, r).rest = r /\ Good(v, r).val = v
    BY DEF Good
  <2>4. v < UintMod
    BY <2>1, Ranges
  <2>5. CASE i = 2
    <3>1. f.type = "sint"
      BY <2>5, DescriptorTable
    <3>2. UnZigZag(v) = PbVal(m, i) /\ PbVal(m, i) \in Int32
      <4>1. UnZigZag(Number(m, 2)) = m.dataType
        BY NumberType
      <4>2. PbVal(m, 2) = m.dataType /\ m.dataType \in Int32
        BY PbVals, MessageTypes
      <4> QED
        BY <2>5, <4>1, <4>2
    <3>3. DecodeSint(b \o r) = Good(PbVal(m, i), r)
      BY <2>2, <2>3, <3>2, Zenon DEF DecodeSint
    <3>4. \A old : DecodeValue(f, old, b \o r, w) = DecodeSint(b \o r)
      BY <2>1, <3>1 DEF DecodeValue
    <3> QED
      BY <1>3, <1>6, <3>3, <3>4, Zenon
  <2>6. CASE i # 2
    <3>1. f.type = "uint" /\ v = PbVal(m, i)
      BY <2>1, <2>6, DescriptorTable, NumberType
    <3>2. DecodeUint(b \o r) = Good(PbVal(m, i), r)
      BY <2>2, <2>3, <2>4, <3>1, Zenon DEF DecodeUint
    <3>3. \A old : DecodeValue(f, old, b \o r, w) = DecodeUint(b \o r)
      BY <2>1, <3>1 DEF DecodeValue
    <3> QED
      BY <1>3, <1>6, <3>2, <3>3, Zenon
  <2> QED
    BY <2>5, <2>6
<1>5. CASE ~HasNumber(m, i)
  <2> DEFINE n == TextSize(i)
             x == Text(m, i)
  <2>1. /\ i \in {3, 4, 5, 6, 11} /\ w = STRING_ /\ HasText(m, i) /\ b = <<n>> \o x
        /\ EncodeVarint(n) = <<n>> /\ <<n>> \in Seq(Byte) /\ x \in Seq(Byte) /\ Len(x) = n
        /\ n \in 1..64 /\ n = f.size /\ n \in Uint32
    BY <1>5, FieldParts
  <2>2. b \o r = EncodeVarint(n) \o (x \o r) /\ x \o r \in Seq(Byte)
    <3>1. (<<n>> \o x) \o r = <<n>> \o (x \o r)
      BY <2>1, BytesAssociative, Zenon
    <3> QED
      BY <2>1, <3>1, RestOfConcat
  <2>3. DecodeVarint32(b \o r) = Good(n, x \o r)
    BY <2>1, <2>2, VarintRoundTrip
  <2>4. Good(n, x \o r).ok /\ Good(n, x \o r).rest = x \o r /\ Good(n, x \o r).val = n
    BY DEF Good
  <2>5. Read(x \o r, n) = Good(x, r)
    BY <2>1, ReadHead, Zenon
  <2>6. Good(x, r).ok /\ Good(x, r).rest = r /\ Good(x, r).val = x
    BY DEF Good
  <2>7. n # 0
    <3>1. PICK t \in 1..64 : t = n
      BY <2>1
    <3>2. t # 0
      OBVIOUS
    <3> QED
      BY <3>1, <3>2, Zenon
  <2>8. CASE i \in {3, 4, 5}
    <3>1. f.type = "fixed" /\ x = PbVal(m, i)
      BY <2>8, DescriptorTable DEF Text
    <3>2. DecodeFixed(f, b \o r) = Good(x, r)
      <4> HIDE DEF n, x, f, b
      <4> QED
        BY <2>1, <2>3, <2>4, <2>5, <2>7 DEF DecodeFixed
    <3>3. \A old : DecodeValue(f, old, b \o r, w) = DecodeFixed(f, b \o r)
      BY <2>1, <3>1 DEF DecodeValue
    <3> QED
      BY <1>3, <2>6, <3>1, <3>2, <3>3
  <2>9. CASE i \in {6, 11}
    <3>1. f.type = "bytes"
      BY <2>9, DescriptorTable
    <3>2. \A old : DecodeBytes(f, old, b \o r)
                     = Good([size |-> n, bytes |-> Overwrite(old.bytes, x)], r)
      <4>1. n <= f.size
        BY <2>1
      <4> HIDE DEF n, x, f, b
      <4> QED
        BY <2>3, <2>4, <2>5, <2>6, <4>1, Zenon DEF DecodeBytes
    <3>3. \A old : DecodeValue(f, old, b \o r, w) = DecodeBytes(f, old, b \o r)
      BY <2>1, <3>1 DEF DecodeValue
    <3>4. PbVal(m, i) = [size |-> n, bytes |-> x]
      <4>1. CASE i = 6
        BY <4>1, PbVals DEF Text, TextSize
      <4>2. CASE i = 11
        <5>1. Keyed(m)
          BY <2>1, <4>2 DEF HasText
        <5> QED
          BY <4>2, <5>1, PbVals DEF Text, TextSize
      <4> QED
        BY <2>9, <4>1, <4>2
    <3>5. ZeroVal(i).bytes = Zeros(n)
      BY <2>1, <3>1 DEF ZeroVal, ZeroOf
    <3>6. Overwrite(Zeros(n), x) = x
      <4> HIDE DEF n, x
      <4>1. n \in Nat
        BY <2>1
      <4>2. Zeros(n) \in [1..n -> Byte]
        BY DEF Zeros, Byte
      <4> QED
        BY <2>1, <4>1, <4>2, OverwriteAll
    <3>7. DecodeValue(f, ZeroVal(i), b \o r, w) = Good(PbVal(m, i), r)
      BY <3>2, <3>3, <3>4, <3>5, <3>6, Zenon
    <3> QED
      BY <1>3, <1>6, <3>2, <3>3, <3>7, Zenon
  <2> QED
    BY <2>1, <2>8, <2>9
<1> QED
  BY <1>4, <1>5

\* A stream that is not empty is its first byte and the rest.
LEMMA HeadAndRest ==
    ASSUME NEW s \in Seq(Byte), s # << >>
    PROVE  \E r \in Seq(Byte) : /\ s = <<s[1]>> \o r /\ Len(s) = 1 + Len(r)
                               /\ \A k \in 1..Len(r) : r[k] = s[1 + k]
<1>1. Len(s) \in Nat /\ Len(s) # 0
  BY ByteSeq, EmptySeq
<1>2. 1 \in 0..Len(s) /\ 1 \in 1..Len(s)
  BY <1>1
<1> DEFINE r == SubSeq(s, 1 + 1, Len(s))
           h == <<s[1]>>
           t == h \o r
<1>3. r \in Seq(Byte) /\ Len(r) = Len(s) - 1 /\ \A k \in 1..(Len(s) - 1) : r[k] = s[1 + k]
  BY <1>2, RestType
<1>4. s[1] \in Byte
  BY <1>2, ElementOfSeq
<1>5. h \in Seq(Byte) /\ Len(h) = 1 /\ h[1] = s[1]
  BY <1>4
<1> HIDE DEF r, h
<1>6. /\ t \in Seq(Byte) /\ Len(t) = Len(h) + Len(r)
      /\ \A k \in 1..(Len(h) + Len(r)) : t[k] = IF k <= Len(h) THEN h[k] ELSE r[k - Len(h)]
  BY <1>3, <1>5, ConcatProperties, Zenon
<1> HIDE DEF t
<1>7. Len(t) = Len(s)
  BY <1>1, <1>3, <1>5, <1>6
<1>8. ASSUME NEW k \in 1..Len(t) PROVE t[k] = s[k]
  <2>1. CASE k = 1
    BY <2>1, <1>5, <1>6, <1>8
  <2>2. CASE k # 1
    <3>1. k \in 2..Len(s)
      BY <1>1, <1>7, <2>2
    <3>2. ~(k <= 1) /\ k - 1 \in 1..(Len(s) - 1) /\ 1 + (k - 1) = k
      BY <1>1, <3>1
    <3>3. t[k] = r[k - 1]
      BY <1>5, <1>6, <3>2
    <3> QED
      BY <1>3, <3>2, <3>3
  <2> QED
    BY <2>1, <2>2
<1>9. t = s
  BY <1>6, <1>7, <1>8, SeqEqual
<1>10. s = <<s[1]>> \o r
  BY <1>9 DEF t, h
<1>11. Len(s) = 1 + Len(r) /\ \A k \in 1..Len(r) : r[k] = s[1 + k]
  BY <1>1, <1>3
<1> QED
  BY <1>3, <1>10, <1>11

\* A field that is cut off after its first byte or later is refused.
LEMMA CutField ==
    ASSUME NEW m \in MeshMessage, NEW i \in 1..15, HasNumber(m, i) \/ HasText(m, i),
           NEW s \in Seq(Byte), s # << >>, Len(s) < Len(FieldBytes(m, i)),
           \A k \in 1..Len(s) : s[k] = FieldBytes(m, i)[k]
    PROVE  \E rest \in Seq(Byte) :
             /\ DecodeTag(s) = Good(<<i, Wire(m, i)>>, rest)
             /\ \A old : DecodeValue(Descriptor[i], old, rest, Wire(m, i)) = Bad
<1> DEFINE w == Wire(m, i)
           b == Body(m, i)
           f == Descriptor[i]
           F == FieldBytes(m, i)
           c == 8 * i + w
<1>1. /\ i \in 1..14 /\ b \in Seq(Byte) /\ w \in 0..7 /\ c \in Nat /\ c < 128
      /\ F = <<c>> \o b /\ EncodeTag(i, w) = <<c>>
  BY FieldParts
<1>2. PICK r \in Seq(Byte) : /\ s = <<s[1]>> \o r /\ Len(s) = 1 + Len(r)
                             /\ \A k \in 1..Len(r) : r[k] = s[1 + k]
  BY HeadAndRest
<1>3. c \in Uint32 /\ <<c>> \in Seq(Byte) /\ Len(<<c>>) = 1 /\ <<c>>[1] = c
  BY <1>1, OneByte
<1>4. /\ Len(F) = 1 + Len(b) /\ Len(b) \in Nat /\ Len(r) \in Nat
      /\ \A k \in 1..(1 + Len(b)) : F[k] = IF k <= 1 THEN <<c>>[k] ELSE b[k - 1]
  <2>1. /\ Len(<<c>> \o b) = Len(<<c>>) + Len(b)
        /\ \A k \in 1..(Len(<<c>>) + Len(b)) :
             (<<c>> \o b)[k] = IF k <= Len(<<c>>) THEN <<c>>[k] ELSE b[k - Len(<<c>>)]
    BY <1>1, <1>3, BytesConcat, Zenon
  <2>2. Len(b) \in Nat /\ Len(r) \in Nat
    BY <1>1, ByteSeq
  <2>3. F = <<c>> \o b /\ Len(<<c>>) = 1
    BY <1>1, <1>3
  <2> HIDE DEF c, b, F
  <2> QED
    BY <2>1, <2>2, <2>3
<1> HIDE DEF c, b, w, F
<1>5. s[1] = c /\ Len(r) < Len(b) /\ \A k \in 1..Len(r) : r[k] = b[k]
  <2>1. Len(r) < Len(b)
    BY <1>2, <1>4 DEF F
  <2>2. 1 \in 1..Len(s) /\ 1 \in 1..(1 + Len(b))
    BY <1>2, <1>4
  <2>3. s[1] = c
    BY <1>3, <1>4, <2>2 DEF F
  <2>4. ASSUME NEW k \in 1..Len(r) PROVE r[k] = b[k]
    <3>1. 1 + k \in 1..Len(s) /\ 1 + k \in 1..(1 + Len(b)) /\ ~(1 + k <= 1) /\ (1 + k) - 1 = k
      BY <1>2, <1>4, <2>1
    <3>2. r[k] = F[1 + k]
      BY <1>2, <3>1 DEF F
    <3>3. F[1 + k] = b[k]
      BY <1>4, <3>1
    <3> QED
      BY <3>2, <3>3
  <2> QED
    BY <2>1, <2>3, <2>4
<1>6. DecodeTag(s) = Good(<<i, w>>, r)
  <2>1. i \in Nat /\ 8 * i + w \in Uint32
    BY <1>3 DEF c
  <2>2. DecodeTag(EncodeTag(i, w) \o r) = Good(<<i, w>>, r)
    BY <1>1, <2>1, TagRoundTrip, Zenon
  <2> QED
    BY <1>1, <1>2, <1>5, <2>2, Zenon
<1>7. CASE HasNumber(m, i)
  <2> DEFINE v == Number(m, i)
  <2>1. i \in {1, 2, 7, 8, 9, 10} /\ w = VARINT /\ b = EncodeVarint(v) /\ v \in Uint32
    BY <1>7, FieldParts DEF w, b
  <2>2. Len(b) = VarintSize(v)
    BY <2>1, VarintBytesAre
  <2>3. DecodeVarint(r) = Bad
    BY <1>5, <2>1, <2>2, CutVarint, Zenon
  <2>4. DecodeUint(r) = Bad /\ DecodeSint(r) = Bad
    BY <2>3 DEF DecodeUint, DecodeSint, Bad
  <2>5. f.type \in {"uint", "sint"}
    <3>1. i \in {1, 2, 7, 8, 9, 10}
      BY <2>1, Zenon
    <3> QED
      BY <3>1, FieldTypes
  <2>6. \A old : DecodeValue(f, old, r, w) = Bad
    BY <2>1, <2>4, <2>5 DEF DecodeValue
  <2> QED
    BY <1>6, <2>6 DEF w
<1>8. CASE ~HasNumber(m, i)
  <2> DEFINE n == TextSize(i)
             x == Text(m, i)
  <2>1. /\ i \in {3, 4, 5, 6, 11} /\ w = STRING_ /\ b = <<n>> \o x
        /\ EncodeVarint(n) = <<n>> /\ <<n>> \in Seq(Byte) /\ x \in Seq(Byte) /\ Len(x) = n
        /\ n \in 1..64 /\ n = f.size /\ n \in Uint32
    BY <1>8, FieldParts, ZenonT(40) DEF w, b
  <2>2. f.type \in {"fixed", "bytes"}
    <3>1. i \in {3, 4, 5, 6, 11}
      BY <2>1, Zenon
    <3> QED
      BY <3>1, FieldTypes
  <2> HIDE DEF n, x, f
  <2>3. Len(<<n>>) = 1 /\ <<n>>[1] = n /\ n \in Nat /\ n # 0
    <3>1. n \in 1..64
      BY <2>1
    <3> QED
      BY <3>1
  <2>4. /\ Len(b) = 1 + n
        /\ \A k \in 1..(1 + n) : b[k] = IF k <= 1 THEN <<n>>[k] ELSE x[k - 1]
    <3>1. /\ Len(<<n>> \o x) = Len(<<n>>) + Len(x)
          /\ \A k \in 1..(Len(<<n>>) + Len(x)) :
               (<<n>> \o x)[k] = IF k <= Len(<<n>>) THEN <<n>>[k] ELSE x[k - Len(<<n>>)]
      BY <2>1, BytesConcat, Zenon
    <3> QED
      BY <2>1, <2>3, <3>1, Zenon
  <2>5. DecodeFixed(f, r) = Bad /\ \A old : DecodeBytes(f, old, r) = Bad
    <3>1. CASE r = << >>
      <4>1. Len(r) < VarintSize(n) /\ \A k \in 1..Len(r) : r[k] = EncodeVarint(n)[k]
        <5>1. Len(r) = 0
          BY <3>1, EmptySeq
        <5>2. VarintSize(n) \in 1..5
          BY <2>1, SizeIs
        <5> QED
          BY <5>1, <5>2
      <4>2. DecodeVarint32(r) = Bad
        BY <2>1, <4>1, CutVarint
      <4> QED
        BY <4>2 DEF DecodeFixed, DecodeBytes, Bad
    <3>2. CASE r # << >>
      <4>1. PICK q \in Seq(Byte) : /\ r = <<r[1]>> \o q /\ Len(r) = 1 + Len(q)
                                   /\ \A k \in 1..Len(q) : q[k] = r[1 + k]
        BY <3>2, HeadAndRest
      <4>2. Len(q) \in Nat /\ Len(q) < n
        BY <1>5, <2>3, <2>4, <4>1, ByteSeq
      <4>3. r[1] = n
        <5>1. 1 \in 1..Len(r) /\ 1 \in 1..(1 + n)
          BY <2>3, <4>1, <4>2
        <5> QED
          BY <1>5, <2>3, <2>4, <5>1
      <4>4. DecodeVarint32(r) = Good(n, q)
        <5>1. DecodeVarint32(EncodeVarint(n) \o q) = Good(n, q)
          BY <2>1, VarintRoundTrip
        <5> QED
          BY <2>1, <4>1, <4>3, <5>1, Zenon
      <4>5. Good(n, q).ok /\ Good(n, q).val = n /\ Good(n, q).rest = q
        BY DEF Good
      <4>6. Read(q, n) = Bad
        BY <4>2, Zenon DEF Read
      <4>7. DecodeFixed(f, r) = Bad
        BY <2>1, <2>3, <4>4, <4>5, <4>6 DEF DecodeFixed
      <4>8. ~Bad.ok
        BY DEF Bad
      <4>9. \A old : DecodeBytes(f, old, r) = Bad
        BY <4>4, <4>5, <4>6, <4>8, Zenon DEF DecodeBytes
      <4> QED
        BY <4>7, <4>9
    <3> QED
      BY <3>1, <3>2
  <2>6. \A old : DecodeValue(f, old, r, w) = Bad
    BY <2>1, <2>2, <2>5 DEF DecodeValue
  <2> QED
    BY <1>6, <2>6 DEF w, f
<1> QED
  BY <1>7, <1>8

\* A varint that is followed by something is as long as before.
LEMMA VarintLenConcat ==
    ASSUME NEW v \in Seq(Byte), NEW r \in Seq(Byte), VarintLen(v) = Len(v), Len(v) >= 1
    PROVE  VarintLen(v \o r) = Len(v)
<1> DEFINE s == v \o r
           n == Len(v)
<1>1. n \in Nat /\ Len(r) \in Nat
  BY ByteSeq
<1>2. s \in Seq(Byte) /\ Len(s) = n + Len(r) /\ \A i \in 1..n : s[i] = v[i]
  BY RestOfConcat
<1>3. v[n] < 128 /\ \A i \in 1..n : i < n => v[i] >= 128
  <2>1. n # 0
    BY <1>1
  <2> QED
    BY <2>1, VarintLenType
<1> HIDE DEF s, n
<1>4. n \in 1..Len(s) /\ n \in 1..n /\ \A i \in 1..(n - 1) : i \in 1..n /\ i < n
  BY <1>1, <1>2 DEF n
<1>5. s[n] < 128 /\ \A i \in 1..(n - 1) : s[i] >= 128
  BY <1>2, <1>3, <1>4
<1> QED
  BY <1>2, <1>4, <1>5, VarintLenIs DEF s, n

\* The bytes of an unknown field behind its tag.
OtherBody(u) == (IF u.wire = STRING_ THEN EncodeVarint(Len(u.value)) ELSE << >>) \o u.value

\* A field of another version is skipped as a whole, and nothing of what
\* follows, whether its tag is that of the callback field or not.
LEMMA OtherRoundTrip ==
    ASSUME NEW u \in Unknown, NEW r \in Seq(Byte)
    PROVE  /\ DecodeTag(OtherBytes(u) \o r) = Good(<<u.tag, u.wire>>, OtherBody(u) \o r)
           /\ SkipField(OtherBody(u) \o r, u.wire) = Good(0, r)
           /\ \A old : DecodeValue(Descriptor[15], old, OtherBody(u) \o r, u.wire) = Good(0, r)
           /\ OtherBytes(u) \o r # << >>
<1> DEFINE b == OtherBody(u)
           v == u.value
           n == Len(v)
           t == EncodeTag(u.tag, u.wire)
<1>1. /\ OtherField(u) /\ u.wire \in {VARINT, BIT64, STRING_, BIT32} /\ u.tag \in Nat
      /\ 8 * u.tag + u.wire \in Uint32 /\ v \in Seq(Byte) /\ (u.wire = STRING_ => n \in Uint32)
  BY OtherBytesType
<1>2. b \in Seq(Byte)
  <2>1. (IF u.wire = STRING_ THEN EncodeVarint(Len(u.value)) ELSE << >>) \in Seq(Byte)
    BY <1>1, VarintBytesAre, EmptySeq
  <2> QED
    BY <1>1, <2>1, ConcatProperties, Zenon DEF OtherBody
<1>3. t \in Seq(Byte) /\ Len(t) >= 1
  <2>1. t \in Seq(Byte) /\ Len(t) = VarintSize(8 * u.tag + u.wire)
    BY <1>1, VarintBytesAre DEF EncodeTag
  <2>2. VarintSize(8 * u.tag + u.wire) \in 1..5
    BY <1>1, SizeIs
  <2> QED
    BY <2>1, <2>2
<1>4. OtherBytes(u) = t \o b
  <2> DEFINE e == IF u.wire = STRING_ THEN EncodeVarint(Len(u.value)) ELSE << >>
  <2>1. e \in Seq(Byte)
    BY <1>1, VarintBytesAre, EmptySeq
  <2>2. OtherBytes(u) = (t \o e) \o v /\ b = e \o v
    BY DEF OtherBytes, OtherBody
  <2> HIDE DEF e, t, b, v
  <2>3. (t \o e) \o v = t \o (e \o v)
    <3>1. t \in Seq(Byte) /\ v \in Seq(Byte)
      BY <1>1, <1>3, Zenon
    <3> QED
      BY <2>1, <3>1, BytesAssociative
  <2> QED
    BY <2>2, <2>3, Zenon
<1>5. b \o r \in Seq(Byte) /\ OtherBytes(u) \o r = t \o (b \o r)
  <2>1. (t \o b) \o r = t \o (b \o r)
    BY <1>2, <1>3, BytesAssociative, Zenon
  <2>2. b \o r \in Seq(Byte)
    BY <1>2, RestOfConcat
  <2> QED
    BY <1>4, <2>1, <2>2, Zenon
<1>6. DecodeTag(OtherBytes(u) \o r) = Good(<<u.tag, u.wire>>, b \o r)
  <2>1. u.wire \in 0..7
    BY <1>1 DEF VARINT, BIT64, STRING_, BIT32
  <2> QED
    BY <1>1, <1>5, <2>1, TagRoundTrip, Zenon
<1>7. OtherBytes(u) \o r # << >>
  <2>1. Len(t \o (b \o r)) = Len(t) + Len(b \o r) /\ Len(t) \in Nat /\ Len(b \o r) \in Nat
    BY <1>3, <1>5, RestOfConcat, ByteSeq
  <2>2. Len(<< >>) = 0
    OBVIOUS
  <2>3. Len(t \o (b \o r)) # 0
    BY <1>3, <2>1
  <2> QED
    BY <1>5, <2>2, <2>3
<1>8. Descriptor[15].type = "callback"
  BY DescriptorTable
<1>9. \A s : \A old : DecodeValue(Descriptor[15], old, s, u.wire) = DecodeCallback(s, u.wire)
  BY <1>8 DEF DecodeValue
<1>10. Skip(v \o r, n) = Good(0, r)
  BY <1>1, ReadHead
<1>11. u.wire # STRING_ => b = v
  BY <1>1, ConcatEmptySeq DEF OtherBody
<1>12. CASE u.wire = STRING_
  <2>1. b \o r = EncodeVarint(n) \o (v \o r) /\ v \o r \in Seq(Byte)
    <3>1. EncodeVarint(n) \in Seq(Byte) /\ b = EncodeVarint(n) \o v
      BY <1>1, <1>12, VarintBytesAre DEF OtherBody
    <3>2. (EncodeVarint(n) \o v) \o r = EncodeVarint(n) \o (v \o r)
      BY <1>1, <3>1, BytesAssociative, Zenon
    <3>3. v \o r \in Seq(Byte)
      BY <1>1, RestOfConcat
    <3> QED
      BY <3>1, <3>2, <3>3, Zenon
  <2>2. DecodeVarint32(b \o r) = Good(n, v \o r)
    BY <1>1, <1>12, <2>1, VarintRoundTrip
  <2>3. Good(n, v \o r).ok /\ Good(n, v \o r).val = n /\ Good(n, v \o r).rest = v \o r
    BY DEF Good
  <2>4. SkipString(b \o r) = Good(0, r)
    BY <1>10, <2>2, <2>3, Zenon DEF SkipString
  <2>5. SkipField(b \o r, u.wire) = SkipString(b \o r)
    BY <1>12 DEF SkipField, VARINT, BIT64, STRING_, BIT32
  <2>6. DecodeCallback(b \o r, u.wire) = SkipString(b \o r)
    BY <1>12 DEF DecodeCallback
  <2> QED
    BY <1>6, <1>7, <1>9, <2>4, <2>5, <2>6
<1>13. CASE u.wire = VARINT
  <2>1. n \in 1..10 /\ VarintLen(v) = n
    BY <1>1, <1>13 DEF OtherField, VARINT, BIT64, STRING_, BIT32
  <2>2. b = v
    BY <1>11, <1>13 DEF VARINT, STRING_
  <2> HIDE DEF n
  <2>3. VarintLen(v \o r) = n
    <3>1. n >= 1
      BY <2>1
    <3> QED
      BY <1>1, <2>1, <3>1, VarintLenConcat, Zenon DEF n
  <2>4. VarintLen(v \o r) # 0 /\ VarintLen(v \o r) \in 1..10
    <3>1. n # 0
      BY <2>1
    <3> QED
      BY <2>1, <2>3, <3>1, Zenon
  <2>5. SkipField(v \o r, u.wire) = Good(0, r)
    BY <1>10, <1>13, <2>3, <2>4 DEF SkipField, VARINT, BIT64, STRING_, BIT32
  <2>6. DecodeCallback(v \o r, u.wire) = Good(0, r)
    BY <1>10, <1>13, <2>3, <2>4 DEF DecodeCallback, RawValue, VARINT, BIT64, STRING_, BIT32
  <2> QED
    BY <1>6, <1>7, <1>9, <2>2, <2>5, <2>6
<1>14. CASE u.wire = BIT64
  <2>1. n = 8
    BY <1>1, <1>14 DEF OtherField, VARINT, BIT64, STRING_, BIT32
  <2>2. b = v
    BY <1>11, <1>14 DEF BIT64, STRING_
  <2>3. SkipField(v \o r, u.wire) = Good(0, r)
    BY <1>10, <1>14, <2>1 DEF SkipField, VARINT, BIT64, STRING_, BIT32
  <2>4. DecodeCallback(v \o r, u.wire) = Good(0, r)
    BY <1>10, <1>14, <2>1 DEF DecodeCallback, RawValue, VARINT, BIT64, STRING_, BIT32
  <2> QED
    BY <1>6, <1>7, <1>9, <2>2, <2>3, <2>4
<1>15. CASE u.wire = BIT32
  <2>1. n = 4
    BY <1>1, <1>15 DEF OtherField, VARINT, BIT64, STRING_, BIT32
  <2>2. b = v
    BY <1>11, <1>15 DEF BIT32, STRING_
  <2>3. SkipField(v \o r, u.wire) = Good(0, r)
    BY <1>10, <1>15, <2>1 DEF SkipField, VARINT, BIT64, STRING_, BIT32
  <2>4. DecodeCallback(v \o r, u.wire) = Good(0, r)
    BY <1>10, <1>15, <2>1 DEF DecodeCallback, RawValue, VARINT, BIT64, STRING_, BIT32
  <2> QED
    BY <1>6, <1>7, <1>9, <2>2, <2>3, <2>4
<1> QED
  BY <1>1, <1>12, <1>13, <1>14, <1>15

-----------------------------------------------------------------------------
(***************************************************************************)
(* Parts of a whole frame.                                                 *)
(***************************************************************************)

\* A field of which the frame has no bytes.
Absent(m, i) == ~HasNumber(m, i) /\ ~HasText(m, i)

\* The fields of a whole frame begin where the ones before them end.
WholeLayout(m, st, b) ==
    /\ b \in Seq(Byte) /\ Len(b) \in Nat /\ st[1] = 0 /\ st[15] = Len(b)
    /\ \A i \in 1..15 : st[i] \in Nat /\ st[i] <= Len(b)
    /\ \A i, j \in 1..15 : i <= j => st[i] <= st[j]
    /\ \A i \in 1..14 : /\ st[i + 1] = st[i] + Len(FieldBytes(m, i))
                        /\ \A k \in 1..Len(FieldBytes(m, i)) :
                             b[st[i] + k] = FieldBytes(m, i)[k]
    /\ \A i \in 1..14 : Absent(m, i) <=> st[i + 1] = st[i]

\* A frame with all 15 fields is laid out like this.
LEMMA LayoutFacts ==
    ASSUME NEW m \in MeshMessage, NEW st, NEW b, Layout(m, st, b), Len(st) = 15
    PROVE  WholeLayout(m, st, b)
<1> DEFINE L(i) == Len(FieldBytes(m, i))
<1>1. st \in Seq(Nat) /\ b \in Seq(Byte)
  BY DEF Layout
<1>2. /\ st[1] = 0 /\ Len(b) = st[15] + L(15)
      /\ \A i \in 1..15 : st[i] + L(i) <= Len(b)
      /\ \A i, j \in 1..15 : i < j => st[i] + L(i) <= st[j]
      /\ \A i, j \in 1..15 : j = i + 1 => st[i] + L(i) = st[j]
      /\ \A i \in 1..15 : \A k \in 1..L(i) : b[st[i] + k] = FieldBytes(m, i)[k]
  <2>1. Len(st) > 0
    <3>1. 15 > 0
      OBVIOUS
    <3> QED
      BY <3>1, Zenon
  <2> QED
    BY <2>1, Zenon DEF Layout
<1>3. \A i \in 1..15 : st[i] \in Nat
  BY <1>1, ElementOfSeq
<1>4. Len(b) \in Nat
  BY <1>1, ByteSeq
<1>5. \A i \in 1..15 : L(i) \in Nat
  BY FieldBytesType
<1>6. L(15) = 0
  <2>1. ~HasNumber(m, 15) /\ ~HasText(m, 15)
    BY DEF HasNumber, HasText
  <2>2. 15 \in 1..15
    OBVIOUS
  <2>3. FieldBytes(m, 15) = << >>
    BY <2>1, <2>2, FieldKinds
  <2> QED
    BY <2>3
<1>7. st[15] = Len(b)
  <2>1. PICK z \in Nat : z = st[15]
    BY <1>3
  <2>2. Len(b) = z + 0
    BY <1>2, <1>6, <2>1
  <2> QED
    BY <2>1, <2>2
<1>8. ASSUME NEW i \in 1..15 PROVE st[i] <= Len(b)
  <2>1. PICK p \in Nat, q \in Nat : p = st[i] /\ q = L(i)
    BY <1>3, <1>5
  <2>2. p + q <= Len(b)
    BY <1>2, <2>1
  <2>3. p <= Len(b)
    BY <1>4, <2>2
  <2> QED
    BY <2>1, <2>3
<1>9. ASSUME NEW i \in 1..15, NEW j \in 1..15, i <= j PROVE st[i] <= st[j]
  <2>1. PICK p \in Nat, q \in Nat : p = st[i] /\ q = L(i)
    BY <1>3, <1>5
  <2>2. PICK z \in Nat : z = st[j]
    BY <1>3
  <2>3. CASE i = j
    BY <2>1, <2>2, <2>3
  <2>4. CASE i < j
    <3>1. p + q <= z
      BY <1>2, <2>1, <2>2, <2>4
    <3>2. p <= z
      BY <3>1
    <3> QED
      BY <2>1, <2>2, <3>2
  <2> QED
    BY <1>9, <2>3, <2>4
<1>10. ASSUME NEW i \in 1..14
       PROVE  /\ st[i + 1] = st[i] + L(i)
              /\ \A k \in 1..L(i) : b[st[i] + k] = FieldBytes(m, i)[k]
  <2>1. i \in 1..15 /\ i + 1 \in 1..15
    OBVIOUS
  <2> QED
    BY <1>2, <2>1, Zenon
<1>11. ASSUME NEW i \in 1..14 PROVE Absent(m, i) <=> st[i + 1] = st[i]
  <2>1. i \in 1..15 /\ i + 1 \in 1..15
    OBVIOUS
  <2>2. PICK p \in Nat, q \in Nat : p = st[i] /\ q = L(i)
    BY <1>3, <1>5, <2>1
  <2>3. st[i + 1] = p + q
    BY <1>10, <2>2
  <2>4. st[i + 1] = st[i] <=> q = 0
    BY <2>2, <2>3
  <2>5. Absent(m, i) <=> L(i) = 0
    <3>1. CASE HasNumber(m, i)
      <4>1. L(i) = 1 + VarintSize(Number(m, i))
        BY <2>1, <3>1, FieldBytesType
      <4>2. Number(m, i) \in Uint32
        BY <3>1, NumberType DEF HasNumber
      <4>3. VarintSize(Number(m, i)) \in 1..5
        BY <4>2, SizeIs
      <4>4. L(i) # 0
        BY <4>1, <4>3
      <4> QED
        BY <3>1, <4>4 DEF Absent
    <3>2. CASE ~HasNumber(m, i) /\ HasText(m, i)
      <4>1. L(i) = 2 + TextSize(i)
        BY <2>1, <3>2, FieldBytesType
      <4>2. PICK k \in 1..64 : k = TextSize(i)
        BY DEF TextSize
      <4>3. 2 + k # 0
        OBVIOUS
      <4> QED
        BY <3>2, <4>1, <4>2, <4>3, Zenon DEF Absent
    <3>3. CASE ~HasNumber(m, i) /\ ~HasText(m, i)
      BY <2>1, <3>3, FieldBytesType DEF Absent
    <3> QED
      BY <3>1, <3>2, <3>3
  <2> QED
    BY <2>2, <2>4, <2>5
<1> QED
  BY <1>1, <1>2, <1>3, <1>4, <1>7, <1>8, <1>9, <1>10, <1>11, Zenon DEF WholeLayout

\* The frame from field p to byte K begins with field j, whole or cut off, and
\* none of the fields from p to j has any bytes.
PartBegins(m, st, b, p, K, j) ==
    /\ ~Absent(m, j) /\ st[j] = st[p] /\ \A i \in p..(j - 1) : Absent(m, i)
    /\ st[j + 1] <= K => SubSeq(b, st[p] + 1, K)
                          = FieldBytes(m, j) \o SubSeq(b, st[j + 1] + 1, K)
    /\ st[j + 1] > K => /\ Len(SubSeq(b, st[p] + 1, K)) < Len(FieldBytes(m, j))
                        /\ \A k \in 1..Len(SubSeq(b, st[p] + 1, K)) :
                             SubSeq(b, st[p] + 1, K)[k] = FieldBytes(m, j)[k]

\* A part of the frame that starts with a field and is not empty begins with
\* the first field that has bytes.
LEMMA PartHead ==
    ASSUME NEW m \in MeshMessage, NEW st, NEW b, Layout(m, st, b), Len(st) = 15,
           NEW p \in 1..15, NEW K \in Nat, st[p] < K, K <= Len(b)
    PROVE  \E j \in p..14 : PartBegins(m, st, b, p, K, j)
<1>1. /\ b \in Seq(Byte) /\ Len(b) \in Nat /\ st[1] = 0 /\ st[15] = Len(b)
      /\ \A i \in 1..15 : st[i] \in Nat /\ st[i] <= Len(b)
      /\ \A i, j \in 1..15 : i <= j => st[i] <= st[j]
      /\ \A i \in 1..14 : /\ st[i + 1] = st[i] + Len(FieldBytes(m, i))
                          /\ \A k \in 1..Len(FieldBytes(m, i)) :
                               b[st[i] + k] = FieldBytes(m, i)[k]
      /\ \A i \in 1..14 : Absent(m, i) <=> st[i + 1] = st[i]
  <2>1. WholeLayout(m, st, b)
    BY LayoutFacts
  <2> QED
    BY <2>1, Zenon DEF WholeLayout
<1> DEFINE later == {i \in 1..15 : i >= p /\ st[i] > st[p]}
<1>2. PICK z \in later : \A i \in later : z <= i
  <2>1. 15 \in later
    <3>1. PICK a \in Nat, c \in Nat : a = st[p] /\ c = st[15]
      BY <1>1
    <3>2. c > a
      BY <1>1, <3>1
    <3> QED
      BY <3>1, <3>2
  <2>2. later \subseteq Nat
    OBVIOUS
  <2> HIDE DEF later
  <2> QED
    BY <2>1, <2>2, LeastMember
<1>3. z \in 1..15 /\ z >= p /\ st[z] > st[p] /\ z # p
  <2>1. st[p] \in Nat
    BY <1>1
  <2>2. ~(st[p] > st[p])
    BY <2>1
  <2> QED
    BY <2>2
<1>4. PICK j \in p..14 : z = j + 1
  <2>1. z - 1 \in p..14 /\ z = (z - 1) + 1
    BY <1>3
  <2> QED
    BY <2>1, Zenon
<1>5. j \in 1..14 /\ j \in 1..15 /\ j + 1 \in 1..15
  OBVIOUS
<1>6. \A i \in p..j : st[i] = st[p]
  <2> SUFFICES ASSUME NEW i \in p..j PROVE st[i] = st[p]
    OBVIOUS
  <2>1. i \in 1..15 /\ i >= p /\ ~(z <= i)
    BY <1>4
  <2>2. PICK a \in Nat, c \in Nat : a = st[p] /\ c = st[i]
    BY <1>1, <2>1
  <2>3. a <= c
    BY <1>1, <2>1, <2>2
  <2>4. ~(c > a)
    BY <1>2, <2>1, <2>2
  <2> QED
    BY <2>2, <2>3, <2>4
<1>7. st[j] = st[p]
  <2>1. j \in p..j
    OBVIOUS
  <2> QED
    BY <1>6, <2>1
<1>8. \A i \in p..(j - 1) : Absent(m, i)
  <2> SUFFICES ASSUME NEW i \in p..(j - 1) PROVE Absent(m, i)
    OBVIOUS
  <2>1. i \in p..j /\ i + 1 \in p..j /\ i \in 1..14
    BY <1>5
  <2>2. st[i + 1] = st[i]
    BY <1>6, <2>1
  <2> QED
    BY <1>1, <2>1, <2>2
<1>9. PICK a \in Nat, L \in Nat : /\ a = st[p] /\ a = st[j] /\ L = Len(FieldBytes(m, j))
                                 /\ st[j + 1] = a + L
  <2>1. st[j] \in Nat /\ st[j + 1] = st[j] + Len(FieldBytes(m, j))
    BY <1>1, <1>5
  <2>2. Len(FieldBytes(m, j)) \in Nat
    BY <1>5, FieldBytesType
  <2> QED
    BY <1>7, <2>1, <2>2
<1>10. ~Absent(m, j)
  <2>1. st[j + 1] > st[j]
    BY <1>3, <1>4, <1>7
  <2>2. st[j + 1] # st[j]
    BY <2>1, <1>9
  <2> QED
    BY <1>1, <1>5, <2>2
<1> DEFINE s == SubSeq(b, a + 1, K)
           F == FieldBytes(m, j)
<1>11. a < K
  BY <1>9
<1>12. s \in Seq(Byte) /\ Len(s) = K - a /\ \A k \in 1..(K - a) : s[k] = b[a + k]
  <2>1. a <= K
    BY <1>11
  <2>2. b \in Seq(Byte)
    BY <1>1, Zenon
  <2> QED
    BY <2>1, <2>2, PartType
<1>13. F \in Seq(Byte) /\ Len(F) = L /\ \A k \in 1..L : b[a + k] = F[k]
  <2>1. F \in Seq(Byte)
    BY <1>5, FieldBytesType
  <2>2. \A k \in 1..L : b[a + k] = F[k]
    <3>1. \A k \in 1..Len(F) : b[st[j] + k] = F[k]
      BY <1>1, <1>5, Zenon
    <3>2. a = st[j] /\ L = Len(F)
      BY <1>9, Zenon
    <3> HIDE DEF F
    <3> QED
      BY <3>1, <3>2, Zenon
  <2> QED
    BY <1>9, <2>1, <2>2, Zenon
<1>14. ASSUME a + L <= K PROVE s = F \o SubSeq(b, (a + L) + 1, K)
  <2> DEFINE t == SubSeq(b, (a + L) + 1, K)
             c == F \o t
  <2>1. /\ t \in Seq(Byte) /\ Len(t) = K - (a + L)
        /\ \A k \in 1..(K - (a + L)) : t[k] = b[(a + L) + k]
    <3>1. a + L \in Nat
      OBVIOUS
    <3>2. b \in Seq(Byte)
      BY <1>1, Zenon
    <3> QED
      BY <1>14, <3>1, <3>2, PartType
  <2> HIDE DEF t, s, F
  <2>2. /\ c \in Seq(Byte) /\ Len(c) = L + (K - (a + L))
        /\ \A k \in 1..(L + (K - (a + L))) : c[k] = IF k <= L THEN F[k] ELSE t[k - L]
    <3>1. /\ c \in Seq(Byte) /\ Len(c) = Len(F) + Len(t)
          /\ \A k \in 1..(Len(F) + Len(t)) : c[k] = IF k <= Len(F) THEN F[k] ELSE t[k - Len(F)]
      <4>1. F \in Seq(Byte) /\ t \in Seq(Byte)
        BY <1>13, <2>1
      <4> QED
        BY <4>1, BytesConcat
    <3> HIDE DEF c
    <3> QED
      BY <1>13, <2>1, <3>1, Zenon
  <2> HIDE DEF c
  <2>3. Len(s) = Len(c)
    BY <1>12, <2>2
  <2>4. ASSUME NEW k \in 1..Len(s) PROVE s[k] = c[k]
    <3>1. k \in 1..(K - a) /\ k \in 1..(L + (K - (a + L)))
      BY <1>12, <1>14
    <3>2. s[k] = b[a + k]
      BY <1>12, <3>1
    <3>3. CASE k <= L
      <4>1. k \in 1..L
        BY <3>1, <3>3
      <4> QED
        BY <1>13, <2>2, <3>1, <3>2, <3>3, <4>1
    <3>4. CASE ~(k <= L)
      <4>1. k - L \in 1..(K - (a + L)) /\ (a + L) + (k - L) = a + k
        BY <1>14, <3>1, <3>4
      <4>2. c[k] = t[k - L]
        BY <2>2, <3>1, <3>4
      <4>3. t[k - L] = b[a + k]
        BY <2>1, <4>1
      <4> QED
        BY <3>2, <4>2, <4>3
    <3> QED
      BY <3>3, <3>4
  <2>5. s = c
    BY <1>12, <2>2, <2>3, <2>4, SeqEqual
  <2> QED
    BY <2>5 DEF c, t
<1>15. ASSUME a + L > K PROVE Len(s) < Len(F) /\ \A k \in 1..Len(s) : s[k] = F[k]
  <2> HIDE DEF s, F
  <2>1. Len(s) < Len(F)
    BY <1>11, <1>12, <1>13, <1>15
  <2>2. ASSUME NEW k \in 1..Len(s) PROVE s[k] = F[k]
    <3>1. k \in 1..(K - a) /\ k \in 1..L
      BY <1>11, <1>12, <1>15
    <3> QED
      BY <1>12, <1>13, <3>1
  <2> QED
    BY <2>1, <2>2
<1>16. /\ st[j + 1] <= K => SubSeq(b, st[p] + 1, K)
                              = FieldBytes(m, j) \o SubSeq(b, st[j + 1] + 1, K)
       /\ st[j + 1] > K => /\ Len(SubSeq(b, st[p] + 1, K)) < Len(FieldBytes(m, j))
                           /\ \A k \in 1..Len(SubSeq(b, st[p] + 1, K)) :
                                SubSeq(b, st[p] + 1, K)[k] = FieldBytes(m, j)[k]
  BY <1>9, <1>14, <1>15, Zenon
<1> QED
  BY <1>7, <1>8, <1>10, <1>16, Zenon DEF PartBegins

\* Between two fields that start at the same place there is no other.
LEMMA EmptyPart ==
    ASSUME NEW m \in MeshMessage, NEW st, NEW b, Layout(m, st, b), Len(st) = 15,
           NEW p \in 1..15, NEW q \in 1..15, p <= q, st[p] = st[q], NEW i \in p..(q - 1)
    PROVE  Absent(m, i)
<1>1. /\ \A k \in 1..15 : st[k] \in Nat
      /\ \A k, j \in 1..15 : k <= j => st[k] <= st[j]
      /\ \A k \in 1..14 : Absent(m, k) <=> st[k + 1] = st[k]
  <2>1. WholeLayout(m, st, b)
    BY LayoutFacts
  <2> QED
    BY <2>1, Zenon DEF WholeLayout
<1>2. i \in 1..14 /\ i \in 1..15 /\ i + 1 \in 1..15 /\ p <= i /\ i + 1 <= q /\ i <= i + 1
  OBVIOUS
<1>3. PICK a \in Nat, c \in Nat, d \in Nat : a = st[p] /\ c = st[i] /\ d = st[i + 1]
  BY <1>1, <1>2
<1>4. a <= c /\ c <= d /\ d <= a
  BY <1>1, <1>2, <1>3
<1>5. d = c
  BY <1>4
<1> QED
  BY <1>1, <1>2, <1>3, <1>5

-----------------------------------------------------------------------------
(***************************************************************************)
(* The struct while it is read.                                            *)
(***************************************************************************)

\* A field that has no bytes is zero.
LEMMA AbsentIsZero ==
    ASSUME NEW m \in MeshMessage, NEW i \in 1..15, Absent(m, i)
    PROVE  PbVal(m, i) = ZeroVal(i) /\ Descriptor[i].name \notin ToPb(m).has
<1>1. ~HasNumber(m, i) /\ ~HasText(m, i)
  BY DEF Absent
<1>2. i \notin {3, 4, 5, 6} /\ ~(i = 11 /\ Keyed(m))
  BY <1>1 DEF HasText
<1>3. Descriptor[i].name \notin ToPb(m).has
  BY <1>2, PbHas
<1>4. CASE i \in {1, 7, 8, 9, 10}
  <2>1. Descriptor[i].type = "uint"
    BY <1>4, DescriptorTable
  <2>2. ZeroVal(i) = 0
    BY <2>1 DEF ZeroVal, ZeroOf
  <2>3. Number(m, i) = 0
    BY <1>1, <1>4 DEF HasNumber
  <2>4. Number(m, i) = PbVal(m, i)
    BY <1>4 DEF Number
  <2> QED
    BY <1>3, <2>2, <2>3, <2>4
<1>5. CASE i = 2
  <2>1. Descriptor[i].type = "sint"
    BY <1>5, DescriptorTable
  <2>2. ZeroVal(i) = 0
    BY <2>1 DEF ZeroVal, ZeroOf
  <2>3. Number(m, 2) = 0
    BY <1>1, <1>5 DEF HasNumber
  <2>4. m.dataType = 0
    BY <2>3, NumberType
  <2> QED
    BY <1>3, <1>5, <2>2, <2>4, PbVals
<1>6. CASE i = 11
  <2>1. PbVal(m, 11) = ZeroVal(11)
    BY <1>2, <1>6, PbVals
  <2> QED
    BY <1>3, <1>6, <2>1
<1>7. CASE i \in 12..15
  <2>1. PbVal(m, i) = ZeroVal(i)
    BY <1>7, PbVals
  <2> QED
    BY <1>3, <2>1
<1> QED
  BY <1>2, <1>4, <1>5, <1>6, <1>7, FifteenFields

\* The struct P holds the message but for the fields in T, which are zero.
Holds(P, m, T) ==
    \A i \in 1..15 :
      /\ P.val[Descriptor[i].name] = IF i \in T THEN ZeroVal(i) ELSE PbVal(m, i)
      /\ Descriptor[i].name \in P.has <=> (i \notin T /\ Descriptor[i].name \in ToPb(m).has)

\* Before anything is read.
LEMMA HoldsNothing ==
    ASSUME NEW m \in MeshMessage, NEW T, \A i \in 1..15 : i \in T \/ Absent(m, i)
    PROVE  Holds(ZeroMessage, m, T)
<1> SUFFICES ASSUME NEW i \in 1..15
             PROVE  /\ ZeroMessage.val[Descriptor[i].name] = IF i \in T THEN ZeroVal(i) ELSE PbVal(m, i)
                    /\ Descriptor[i].name \in ZeroMessage.has
                         <=> (i \notin T /\ Descriptor[i].name \in ToPb(m).has)
  BY DEF Holds
<1>1. ZeroMessage.val[Descriptor[i].name] = ZeroVal(i)
  BY ZeroVals
<1>2. ZeroMessage.has = {}
  BY DEF ZeroMessage
<1>3. i \in T \/ (PbVal(m, i) = ZeroVal(i) /\ Descriptor[i].name \notin ToPb(m).has)
  BY AbsentIsZero
<1> QED
  BY <1>1, <1>2, <1>3, Zenon

\* One more field read.
LEMMA HoldsMore ==
    ASSUME NEW m \in MeshMessage, NEW P, NEW T, Holds(P, m, T), DOMAIN P.val = FieldNames,
           NEW j \in 1..15, j \in T, ~Absent(m, j), NEW S, j \notin S,
           \A i \in 1..15 : i \in S => i \in T,
           \A i \in 1..15 : i \in T => i = j \/ i \in S \/ Absent(m, i),
           NEW Q, Q = [has |-> IF Descriptor[j].hasFlag THEN P.has \cup {Descriptor[j].name} ELSE P.has,
                       val |-> [P.val EXCEPT ![Descriptor[j].name] = PbVal(m, j)]]
    PROVE  Holds(Q, m, S)
<1> DEFINE h == IF Descriptor[j].hasFlag THEN P.has \cup {Descriptor[j].name} ELSE P.has
           v == [P.val EXCEPT ![Descriptor[j].name] = PbVal(m, j)]
<1>1. Q.has = h /\ Q.val = v
  BY StructMembers, Zenon
<1> SUFFICES ASSUME NEW i \in 1..15
             PROVE  /\ Q.val[Descriptor[i].name] = IF i \in S THEN ZeroVal(i) ELSE PbVal(m, i)
                    /\ Descriptor[i].name \in Q.has
                         <=> (i \notin S /\ Descriptor[i].name \in ToPb(m).has)
  BY DEF Holds
<1>2. /\ P.val[Descriptor[i].name] = IF i \in T THEN ZeroVal(i) ELSE PbVal(m, i)
      /\ Descriptor[i].name \in P.has <=> (i \notin T /\ Descriptor[i].name \in ToPb(m).has)
  BY DEF Holds
<1>3. CASE i = j
  <2>1. Descriptor[j].name \in FieldNames
    BY DescriptorTypes
  <2>2. Q.val[Descriptor[i].name] = PbVal(m, i)
    BY <1>1, <1>3, <2>1, Zenon
  <2>3. Descriptor[j].name \in ToPb(m).has <=> Descriptor[j].hasFlag
    <3>1. Descriptor[j].hasFlag <=> j \in {6, 11, 12, 13, 14}
      BY DescriptorTable
    <3>2. Descriptor[j].name \in ToPb(m).has <=> j = 6 \/ (j = 11 /\ Keyed(m))
      BY PbHas
    <3>3. j \notin {12, 13, 14} /\ (j = 11 => Keyed(m))
      BY DEF Absent, HasNumber, HasText
    <3> QED
      BY <3>1, <3>2, <3>3
  <2>4. Descriptor[i].name \in Q.has <=> Descriptor[i].name \in ToPb(m).has
    <3>1. Descriptor[j].name \notin P.has
      BY <1>2, <1>3
    <3> QED
      BY <1>1, <1>3, <2>3, <3>1
  <2> QED
    BY <1>3, <2>2, <2>4
<1>4. CASE i # j
  <2>1. Descriptor[i].name # Descriptor[j].name /\ Descriptor[i].name \in FieldNames
    BY <1>4, NamesDistinct, DescriptorTypes
  <2>2. Q.val[Descriptor[i].name] = P.val[Descriptor[i].name]
    BY <1>1, <2>1, Zenon
  <2>3. Descriptor[i].name \in Q.has <=> Descriptor[i].name \in P.has
    BY <1>1, <2>1
  <2>4. CASE i \in S
    BY <1>2, <2>2, <2>3, <2>4
  <2>5. CASE i \notin S /\ i \in T
    <3>1. PbVal(m, i) = ZeroVal(i) /\ Descriptor[i].name \notin ToPb(m).has
      BY <1>4, <2>5, AbsentIsZero
    <3> QED
      BY <1>2, <2>2, <2>3, <2>5, <3>1
  <2>6. CASE i \notin T
    BY <1>2, <2>2, <2>3, <2>6
  <2> QED
    BY <2>4, <2>5, <2>6
<1> QED
  BY <1>3, <1>4

\* When everything is read, decode delivers the message.
LEMMA HoldsAll ==
    ASSUME NEW m \in MeshMessage, NEW P, NEW T, Holds(P, m, T),
           \A i \in 1..15 : i \in T => Absent(m, i)
    PROVE  FromPb(P) = Delivered(m)
<1>1. ASSUME NEW i \in 1..15
      PROVE  /\ P.val[Descriptor[i].name] = PbVal(m, i)
             /\ Descriptor[i].name \in P.has <=> i = 6 \/ (i = 11 /\ Keyed(m))
  <2>1. /\ P.val[Descriptor[i].name] = IF i \in T THEN ZeroVal(i) ELSE PbVal(m, i)
        /\ Descriptor[i].name \in P.has <=> (i \notin T /\ Descriptor[i].name \in ToPb(m).has)
    BY DEF Holds
  <2>2. i \in T => PbVal(m, i) = ZeroVal(i) /\ Descriptor[i].name \notin ToPb(m).has
    BY AbsentIsZero
  <2>3. Descriptor[i].name \in ToPb(m).has <=> i = 6 \/ (i = 11 /\ Keyed(m))
    BY PbHas
  <2> QED
    BY <2>1, <2>2, <2>3
<1>2. /\ P.val["messageType"] = m.type /\ P.val["dataType"] = m.dataType
      /\ P.val["originMacAddress"] = m.origin /\ P.val["targetMacAddress"] = m.target
      /\ P.val["lastHopMacAddress"] = m.lastHop
  <2>1. 1 \in 1..15 /\ 2 \in 1..15 /\ 3 \in 1..15 /\ 4 \in 1..15 /\ 5 \in 1..15
    OBVIOUS
  <2>2. /\ P.val[Descriptor[1].name] = PbVal(m, 1) /\ P.val[Descriptor[2].name] = PbVal(m, 2)
        /\ P.val[Descriptor[3].name] = PbVal(m, 3) /\ P.val[Descriptor[4].name] = PbVal(m, 4)
        /\ P.val[Descriptor[5].name] = PbVal(m, 5)
    BY <1>1, <2>1, Zenon
  <2>3. /\ Descriptor[1].name = "messageType" /\ Descriptor[2].name = "dataType"
        /\ Descriptor[3].name = "originMacAddress" /\ Descriptor[4].name = "targetMacAddress"
        /\ Descriptor[5].name = "lastHopMacAddress"
    BY NamesAre
  <2>4. /\ PbVal(m, 1) = m.type /\ PbVal(m, 2) = m.dataType
        /\ PbVal(m, 3) = m.origin /\ PbVal(m, 4) = m.target /\ PbVal(m, 5) = m.lastHop
    BY PbVals
  <2> QED
    BY <2>2, <2>3, <2>4, Zenon
<1>3. /\ P.val["data"] = [size |-> 64, bytes |-> m.data] /\ P.val["hopCount"] = m.hop
      /\ P.val["epochNum"] = m.epoch /\ P.val["seqNum"] = m.seq
      /\ P.val["protoVersion"] = m.version
  <2>1. 6 \in 1..15 /\ 7 \in 1..15 /\ 8 \in 1..15 /\ 9 \in 1..15 /\ 10 \in 1..15
    OBVIOUS
  <2>2. /\ P.val[Descriptor[6].name] = PbVal(m, 6) /\ P.val[Descriptor[7].name] = PbVal(m, 7)
        /\ P.val[Descriptor[8].name] = PbVal(m, 8) /\ P.val[Descriptor[9].name] = PbVal(m, 9)
        /\ P.val[Descriptor[10].name] = PbVal(m, 10)
    BY <1>1, <2>1, Zenon
  <2>3. /\ Descriptor[6].name = "data" /\ Descriptor[7].name = "hopCount"
        /\ Descriptor[8].name = "epochNum" /\ Descriptor[9].name = "seqNum"
        /\ Descriptor[10].name = "protoVersion"
    BY NamesAre
  <2>4. /\ PbVal(m, 6) = [size |-> 64, bytes |-> m.data]
        /\ PbVal(m, 7) = m.hop /\ PbVal(m, 8) = m.epoch /\ PbVal(m, 9) = m.seq
        /\ PbVal(m, 10) = m.version
    BY PbVals
  <2> QED
    BY <2>2, <2>3, <2>4, Zenon
<1>4. /\ "data" \in P.has /\ ("public_key" \in P.has <=> Keyed(m))
      /\ Keyed(m) => P.val["public_key"] = [size |-> 32, bytes |-> m.key]
  <2>1. 6 \in 1..15 /\ 11 \in 1..15 /\ 11 # 6
    OBVIOUS
  <2>2. Descriptor[6].name = "data" /\ Descriptor[11].name = "public_key"
    BY NamesAre
  <2>3. PbVal(m, 11) = IF Keyed(m) THEN [size |-> 32, bytes |-> m.key] ELSE ZeroVal(11)
    BY PbVals
  <2> QED
    BY <1>1, <2>1, <2>2, <2>3, Zenon
<1>5. /\ m.type \in Byte /\ m.hop \in Byte /\ m.version \in Byte /\ m.seq \in Uint32
      /\ m.seq < 65536 /\ m.data \in [1..64 -> Byte] /\ m.key \in [1..32 -> Byte]
  BY MessageTypes, SMT
<1>6. m.type % 2^8 = m.type /\ m.hop % 2^8 = m.hop /\ m.version % 2^8 = m.version
  <2>1. \A b \in Byte : b % 256 = b
    BY SMT DEF Byte
  <2>2. 2^8 = 256
    BY Powers, SMT
  <2> QED
    BY <1>5, <2>1, <2>2, SMT
<1>7. m.seq % 2^16 = m.seq
  <2>1. m.seq \in Nat
    BY <1>5, Ranges, SMT
  <2>2. 2^16 = 65536
    BY Powers, SMT
  <2> QED
    BY <1>5, <2>1, <2>2, SMT
<1>8. Overwrite(Zeros(64), SubSeq(P.val["data"].bytes, 1, P.val["data"].size)) = m.data
  <2>1. P.val["data"].bytes = m.data /\ P.val["data"].size = 64
    BY <1>3
  <2>2. SubSeq(m.data, 1, 64) = m.data /\ m.data \in Seq(Byte) /\ Len(m.data) = 64
    <3>1. 64 \in Nat /\ m.data \in [1..64 -> Byte]
      BY <1>5, SMT
    <3> QED
      BY <3>1, ArrayIsSeq, Zenon
  <2>3. Zeros(64) \in [1..64 -> Byte]
    BY DEF Zeros, Byte
  <2>4. \A n \in Nat : /\ Zeros(n) \in [1..n -> Byte] /\ Len(m.data) = n
                     => Overwrite(Zeros(n), m.data) = m.data
    <3> DEFINE x == m.data
    <3>1. x \in Seq(Byte)
      BY <2>2, Zenon
    <3> HIDE DEF x
    <3>2. \A n \in Nat : /\ Zeros(n) \in [1..n -> Byte] /\ Len(x) = n
                       => Overwrite(Zeros(n), x) = x
      BY <3>1, OverwriteAll
    <3> QED
      BY <3>2, Zenon DEF x
  <2>5. Overwrite(Zeros(64), m.data) = m.data
    BY <2>2, <2>3, <2>4
  <2> QED
    BY <2>1, <2>2, <2>5, Zenon
<1>9. (IF "public_key" \in P.has THEN P.val["public_key"].bytes ELSE Zeros(32))
        = IF m.type \in {ENROLLMENT, JOIN_ACK} THEN m.key ELSE Zeros(32)
  <2>1. CASE Keyed(m)
    <3>1. P.val["public_key"].bytes = m.key
      BY <1>4, <2>1
    <3>2. m.type \in {ENROLLMENT, JOIN_ACK}
      BY <2>1 DEF Keyed
    <3> QED
      BY <1>4, <2>1, <3>1, <3>2, Zenon
  <2>2. CASE ~Keyed(m)
    <3>1. m.type \notin {ENROLLMENT, JOIN_ACK} \/ m.key = Zeros(32)
      BY <2>2, Zenon DEF Keyed
    <3> QED
      BY <1>4, <2>2, <3>1, Zenon
  <2> QED
    BY <2>1, <2>2
<1> QED
  BY <1>2, <1>3, <1>4, <1>6, <1>7, <1>8, <1>9, ZenonT(30) DEF FromPb, Delivered

-----------------------------------------------------------------------------
(***************************************************************************)
(* One round of the decoder at the head of what is left.                   *)
(***************************************************************************)

\* A field of the message is found wherever the iterator is, and taken.
LEMMA HeadField ==
    ASSUME CodecInv, DecodeNext, NEW j \in 1..15, ~Absent(msg, j), msg \in MeshMessage,
           NEW r \in Seq(Byte), input = FieldBytes(msg, j) \o r
    PROVE  /\ pb.val[Descriptor[j].name] = ZeroVal(j) => Take(j, Good(PbVal(msg, j), r))
           /\ Refuse \/ \E v : Take(j, v) /\ v.rest = r
<1> DEFINE w == Wire(msg, j)
           b == Body(msg, j)
<1>1. HasNumber(msg, j) \/ HasText(msg, j)
  BY DEF Absent
<1>2. /\ DecodeTag(input) = Good(<<j, w>>, b \o r)
      /\ DecodeValue(Descriptor[j], ZeroVal(j), b \o r, w) = Good(PbVal(msg, j), r)
      /\ \A old : DecodeValue(Descriptor[j], old, b \o r, w).rest = r
  BY <1>1, FieldRoundTrip
<1>3. j \in 1..14
  BY <1>1, FieldParts
<1>4. iter \in 1..15
  BY DescriptorLen DEF CodecInv, MembersFit
<1>5. IterFind(iter, j) = [found |-> TRUE, at |-> j]
  <2>1. j \in Nat
    OBVIOUS
  <2> QED
    BY <1>3, <1>4, <2>1, IterFindIs
<1> HIDE DEF w, b
<1>6. PICK t : t = DecodeTag(input)
  OBVIOUS
<1>7. t.ok /\ t.rest = b \o r /\ t.val = <<j, w>>
  BY <1>2, <1>6 DEF Good
<1>8. t.val[1] = j /\ t.val[2] = w
  BY <1>7
<1>9. PICK found : found = IterFind(iter, t.val[1])
  OBVIOUS
<1>10. found.found /\ found.at = j
  BY <1>5, <1>8, <1>9
<1>11. PICK f : f = Descriptor[found.at]
  OBVIOUS
<1>12. PICK skipped : skipped = SkipField(t.rest, t.val[2])
  OBVIOUS
<1>13. PICK value : value = DecodeValue(f, pb.val[f.name], t.rest, t.val[2])
  OBVIOUS
<1>14. value = DecodeValue(Descriptor[j], pb.val[Descriptor[j].name], b \o r, w)
  BY <1>7, <1>8, <1>10, <1>11, <1>13, Zenon
<1>15. j # 0
  BY <1>3
<1>16. \/ ~value.ok /\ Refuse
       \/ value.ok /\ Take(j, value)
  <2>1. Round(t, found, skipped, value)
    BY <1>6, <1>9, <1>11, <1>12, <1>13, DecodeSteps
  <2> QED
    BY <1>7, <1>8, <1>10, <1>15, <2>1, Zenon DEF Round
<1>17. value.rest = r
  BY <1>2, <1>14, Zenon
<1>18. ASSUME pb.val[Descriptor[j].name] = ZeroVal(j) PROVE Take(j, Good(PbVal(msg, j), r))
  <2>1. value = Good(PbVal(msg, j), r)
    BY <1>2, <1>14, <1>18, Zenon
  <2>2. value.ok
    BY <2>1 DEF Good
  <2> QED
    BY <1>16, <2>1, <2>2, Zenon
<1> QED
  BY <1>16, <1>17, <1>18, Zenon

\* A field of another version is passed over.
LEMMA HeadOther ==
    ASSUME CodecInv, DecodeNext, NEW u \in Unknown, NEW r \in Seq(Byte),
           input = OtherBytes(u) \o r
    PROVE  input' = r /\ pb' = pb /\ UNCHANGED <<stage, msg, out, starts, line, result>>
<1> DEFINE b == OtherBody(u)
<1>1. /\ DecodeTag(input) = Good(<<u.tag, u.wire>>, b \o r)
      /\ SkipField(b \o r, u.wire) = Good(0, r)
      /\ \A old : DecodeValue(Descriptor[15], old, b \o r, u.wire) = Good(0, r)
  BY OtherRoundTrip
<1>2. u.tag \in Nat /\ u.tag >= 15
  BY OtherBytesType
<1>3. iter \in 1..15
  BY DescriptorLen DEF CodecInv, MembersFit
<1>4. /\ u.tag = 17 => IterFind(iter, u.tag) = [found |-> TRUE, at |-> 15]
      /\ u.tag # 17 => IterFind(iter, u.tag) = [found |-> FALSE, at |-> iter]
  <2>1. u.tag \notin 1..14
    <3>1. \A t \in Nat : t >= 15 => t \notin 1..14
      OBVIOUS
    <3> QED
      BY <1>2, <3>1, Zenon
  <2> QED
    BY <1>2, <1>3, <2>1, IterFindIs
<1> HIDE DEF b
<1>5. PICK t : t = DecodeTag(input)
  OBVIOUS
<1>6. t.ok /\ t.rest = b \o r /\ t.val = <<u.tag, u.wire>>
  BY <1>1, <1>5 DEF Good
<1>7. t.val[1] = u.tag /\ t.val[2] = u.wire
  BY <1>6
<1>8. PICK found : found = IterFind(iter, t.val[1])
  OBVIOUS
<1>9. PICK f : f = Descriptor[found.at]
  OBVIOUS
<1>10. PICK skipped : skipped = SkipField(t.rest, t.val[2])
  OBVIOUS
<1>11. PICK value : value = DecodeValue(f, pb.val[f.name], t.rest, t.val[2])
  OBVIOUS
<1>12. t.val[1] # 0
  BY <1>2, <1>7
<1>13. /\ (found.found /\ value.ok => Take(found.at, value))
       /\ (~found.found /\ skipped.ok => Pass(skipped))
  <2>1. Round(t, found, skipped, value)
    BY <1>5, <1>8, <1>9, <1>10, <1>11, DecodeSteps
  <2> QED
    BY <1>6, <1>12, <2>1, Zenon DEF Round
<1>14. skipped = Good(0, r)
  BY <1>1, <1>6, <1>7, <1>10, Zenon
<1>15. Good(0, r).ok /\ Good(0, r).rest = r
  BY DEF Good
<1>16. CASE u.tag # 17
  <2>1. ~found.found
    BY <1>4, <1>7, <1>8, <1>16
  <2>2. Pass(skipped)
    BY <1>13, <1>14, <1>15, <2>1, Zenon
  <2> QED
    BY <1>14, <1>15, <2>2 DEF Pass
<1>17. CASE u.tag = 17
  <2>1. found.found /\ found.at = 15
    BY <1>4, <1>7, <1>8, <1>17
  <2>2. value = Good(0, r)
    BY <1>1, <1>6, <1>7, <1>9, <1>11, <2>1, Zenon
  <2>3. Take(15, value)
    BY <1>13, <1>15, <2>1, <2>2, Zenon
  <2>4. Descriptor[15].type = "callback" /\ ~Descriptor[15].hasFlag
    BY DescriptorTable
  <2>5. pb' = [has |-> pb.has, val |-> pb.val] /\ input' = value.rest
        /\ UNCHANGED <<stage, msg, out, starts, line, result>>
    BY <2>3, <2>4, Zenon DEF Take
  <2>6. pb = [has |-> pb.has, val |-> pb.val]
    <3>1. pb = [has |-> pb.has, val |-> [n \in FieldNames |-> pb.val[n]]]
      BY Zenon DEF CodecInv, PbStruct
    <3>2. pb.val = [n \in FieldNames |-> pb.val[n]]
      BY <3>1, StructMembers, Zenon
    <3> QED
      BY <3>1, <3>2, Zenon
  <2> QED
    BY <1>15, <2>2, <2>5, <2>6, Zenon
<1> QED
  BY <1>16, <1>17

\* A field that is cut off is refused.
LEMMA HeadCut ==
    ASSUME CodecInv, DecodeNext, NEW j \in 1..15, ~Absent(msg, j), msg \in MeshMessage,
           Len(input) < Len(FieldBytes(msg, j)),
           \A k \in 1..Len(input) : input[k] = FieldBytes(msg, j)[k]
    PROVE  Refuse
<1> DEFINE w == Wire(msg, j)
<1>1. HasNumber(msg, j) \/ HasText(msg, j)
  BY DEF Absent
<1>2. input \in Seq(Byte) /\ input # << >> /\ iter \in 1..15
  BY DescriptorLen DEF CodecInv, MembersFit, DecodeNext
<1>3. PICK rest \in Seq(Byte) :
             /\ DecodeTag(input) = Good(<<j, w>>, rest)
             /\ \A old : DecodeValue(Descriptor[j], old, rest, w) = Bad
  BY <1>1, <1>2, CutField
<1>4. j \in 1..14
  BY <1>1, FieldParts
<1>5. IterFind(iter, j) = [found |-> TRUE, at |-> j]
  <2>1. j \in Nat
    OBVIOUS
  <2> QED
    BY <1>2, <1>4, <2>1, IterFindIs
<1> HIDE DEF w
<1>6. PICK t : t = DecodeTag(input)
  OBVIOUS
<1>7. t.ok /\ t.rest = rest /\ t.val = <<j, w>>
  BY <1>3, <1>6 DEF Good
<1>8. t.val[1] = j /\ t.val[2] = w
  BY <1>7
<1>9. PICK found : found = IterFind(iter, t.val[1])
  OBVIOUS
<1>10. found.found /\ found.at = j
  BY <1>5, <1>8, <1>9
<1>11. PICK f : f = Descriptor[found.at]
  OBVIOUS
<1>12. PICK skipped : skipped = SkipField(t.rest, t.val[2])
  OBVIOUS
<1>13. PICK value : value = DecodeValue(f, pb.val[f.name], t.rest, t.val[2])
  OBVIOUS
<1>14. value = Bad
  BY <1>3, <1>7, <1>8, <1>10, <1>11, <1>13, Zenon
<1>15. ~value.ok
  BY <1>14 DEF Bad
<1> QED
  BY <1>6, <1>7, <1>9, <1>10, <1>11, <1>12, <1>13, <1>15, DecodeSteps DEF Round

-----------------------------------------------------------------------------
(***************************************************************************)
(* What is left to decode.                                                 *)
(***************************************************************************)

\* The fields from p to q begin with field j.
BeginsWith(m, st, b, p, q, j) ==
    /\ ~Absent(m, j) /\ \A i \in p..(j - 1) : Absent(m, i)
    /\ SubSeq(b, st[p] + 1, st[q]) = FieldBytes(m, j) \o SubSeq(b, st[j + 1] + 1, st[q])

\* A stretch of fields that is not empty begins with one that has bytes.
LEMMA StretchHead ==
    ASSUME NEW m \in MeshMessage, NEW st, NEW b, Layout(m, st, b), Len(st) = 15,
           NEW p \in 1..15, NEW q \in 1..15, p <= q, st[p] # st[q]
    PROVE  \E j \in p..(q - 1) : BeginsWith(m, st, b, p, q, j)
<1>1. /\ Len(b) \in Nat
      /\ \A i \in 1..15 : st[i] \in Nat /\ st[i] <= Len(b)
      /\ \A i, j \in 1..15 : i <= j => st[i] <= st[j]
  <2>1. WholeLayout(m, st, b)
    BY LayoutFacts
  <2> QED
    BY <2>1, Zenon DEF WholeLayout
<1>2. PICK a \in Nat, K \in Nat : a = st[p] /\ K = st[q]
  BY <1>1
<1>3. a < K /\ K <= Len(b)
  <2>1. a <= K /\ a # K
    BY <1>1, <1>2, Zenon
  <2>2. K <= Len(b)
    BY <1>1, <1>2, Zenon
  <2>3. a < K
    BY <2>1
  <2> QED
    BY <2>2, <2>3
<1>4. PICK j \in p..14 :
             /\ ~Absent(m, j) /\ st[j] = st[p] /\ \A i \in p..(j - 1) : Absent(m, i)
             /\ st[j + 1] <= K => SubSeq(b, st[p] + 1, K)
                                   = FieldBytes(m, j) \o SubSeq(b, st[j + 1] + 1, K)
  <2>1. st[p] < K
    BY <1>2, <1>3, Zenon
  <2>2. \E i \in p..14 : PartBegins(m, st, b, p, K, i)
    BY <1>3, <2>1, PartHead, Zenon
  <2> QED
    BY <2>2, Zenon DEF PartBegins
<1>5. j < q
  <2> SUFFICES ASSUME ~(j < q) PROVE FALSE
    OBVIOUS
  <2>1. j \in 1..15 /\ q <= j
    OBVIOUS
  <2>2. st[q] <= st[j]
    BY <1>1, <2>1
  <2>3. K <= a
    BY <1>2, <1>4, <2>2, Zenon
  <2> QED
    BY <1>3, <2>3
<1>6. j \in p..(q - 1) /\ j + 1 \in 1..15 /\ j + 1 <= q
  BY <1>5
<1>7. st[j + 1] <= K
  BY <1>1, <1>2, <1>6
<1> QED
  BY <1>2, <1>4, <1>6, <1>7, Zenon DEF BeginsWith

\* A stretch of fields is bytes.
StretchOk(st, b, p, q) ==
    /\ SubSeq(b, st[p] + 1, st[q]) \in Seq(Byte)
    /\ st[p] = st[q] <=> SubSeq(b, st[p] + 1, st[q]) = << >>

\* The bytes of a stretch of fields.
LEMMA Stretch ==
    ASSUME NEW m \in MeshMessage, NEW st, NEW b, Layout(m, st, b), Len(st) = 15,
           NEW p \in 1..15, NEW q \in 1..15, p <= q
    PROVE  StretchOk(st, b, p, q)
<1>1. /\ b \in Seq(Byte) /\ Len(b) \in Nat
      /\ \A i \in 1..15 : st[i] \in Nat /\ st[i] <= Len(b)
      /\ \A i, j \in 1..15 : i <= j => st[i] <= st[j]
  <2>1. WholeLayout(m, st, b)
    BY LayoutFacts
  <2> QED
    BY <2>1, Zenon DEF WholeLayout
<1>2. PICK a \in Nat, K \in Nat : a = st[p] /\ K = st[q]
  BY <1>1
<1>3. a <= K /\ K <= Len(b)
  BY <1>1, <1>2
<1> DEFINE s == SubSeq(b, a + 1, K)
<1>4. s \in Seq(Byte) /\ Len(s) = K - a
  BY <1>1, <1>3, PartType
<1> HIDE DEF s
<1>5. s = << >> <=> Len(s) = 0
  BY <1>4, EmptySeq
<1>6. Len(s) = 0 <=> a = K
  BY <1>4
<1> QED
  BY <1>2, <1>4, <1>5, <1>6, Zenon DEF s, StretchOk

\* What a sender of another version may have put between two fields.
Between == {<< >>} \cup {OtherBytes(u) : u \in Unknown}

\* s is the fields from p to q, something of another version, and the fields
\* from c to d; the struct holds all other fields.
Left(m, st, b, s, P, p, q, U, c, d) ==
    /\ p <= q /\ c <= d /\ (q <= c \/ d <= p) /\ U \in Between
    /\ s = (SubSeq(b, st[p] + 1, st[q]) \o U) \o SubSeq(b, st[c] + 1, st[d])
    /\ Holds(P, m, (p..(q - 1)) \cup (c..(d - 1)))

\* What is left to read, and what the struct does not hold yet, are the same.
Undone(m, st, b, s, P) ==
    \E p \in 1..15, q \in 1..15, c \in 1..15, d \in 1..15 : \E U \in Between :
        Left(m, st, b, s, P, p, q, U, c, d)

\* It is bytes, and nothing or one field of another version.
LEMMA BetweenType ==
    ASSUME NEW U \in Between
    PROVE  U \in Seq(Byte) /\ (U = << >> \/ \E u \in Unknown : U = OtherBytes(u))
BY OtherBytesType, EmptySeq DEF Between

\* Nothing around nothing.
LEMMA EmptyConcat ==
    ASSUME NEW s \in Seq(Byte)
    PROVE  /\ s \o << >> = s /\ << >> \o s = s /\ (<< >> \o << >>) \o s = s
           /\ << >> \in Seq(Byte)
BY ConcatEmptySeq, EmptySeq

\* Taking a field off a stretch.
LEMMA TakeStep ==
    ASSUME CodecInv, msg \in MeshMessage, NEW j \in 1..15, ~Absent(msg, j), NEW r,
           Take(j, Good(PbVal(msg, j), r)),
           NEW T, Holds(pb, msg, T), j \in T, NEW S, j \notin S,
           \A i \in 1..15 : i \in S => i \in T,
           \A i \in 1..15 : i \in T => i = j \/ i \in S \/ Absent(msg, i)
    PROVE  /\ Holds(pb', msg, S) /\ input' = r
           /\ UNCHANGED <<stage, msg, out, starts, line, result>>
<1> DEFINE v == Good(PbVal(msg, j), r)
<1>1. v.val = PbVal(msg, j) /\ v.rest = r
  BY DEF Good
<1>2. Descriptor[j].type # "callback"
  <2>1. j \in 1..14
    <3>1. HasNumber(msg, j) \/ HasText(msg, j)
      BY DEF Absent
    <3> QED
      BY <3>1, FieldParts
  <2> QED
    BY <2>1, DescriptorTable
<1> HIDE DEF v
<1>3. /\ pb' = [has |-> IF Descriptor[j].hasFlag THEN pb.has \cup {Descriptor[j].name} ELSE pb.has,
                val |-> [pb.val EXCEPT ![Descriptor[j].name] = PbVal(msg, j)]]
      /\ input' = r /\ UNCHANGED <<stage, msg, out, starts, line, result>>
  BY <1>1, <1>2, Zenon DEF Take, v
<1>4. DOMAIN pb.val = FieldNames
  <2>1. pb = [has |-> pb.has, val |-> [n \in FieldNames |-> pb.val[n]]]
    BY Zenon DEF CodecInv, PbStruct
  <2>2. pb.val = [n \in FieldNames |-> pb.val[n]]
    BY <2>1, StructMembers, Zenon
  <2> QED
    BY <2>2, Zenon
<1>5. Holds(pb', msg, S)
  BY <1>3, <1>4, HoldsMore, Zenon
<1> QED
  BY <1>3, <1>5

\* A round of the decoder leaves less to do, and refuses nothing.
LEMMA UndoneStep ==
    ASSUME CodecInv, DecodeNext, msg \in MeshMessage,
           Layout(msg, starts, out.bytes), Len(starts) = 15,
           NEW p \in 1..15, NEW q \in 1..15, NEW c \in 1..15, NEW d \in 1..15, NEW U \in Between,
           Left(msg, starts, out.bytes, input, pb, p, q, U, c, d)
    PROVE  /\ Undone(msg, starts, out.bytes, input', pb')
           /\ UNCHANGED <<stage, msg, out, starts, line, result>>
<1> DEFINE b == out.bytes
           S1 == SubSeq(b, starts[p] + 1, starts[q])
           S2 == SubSeq(b, starts[c] + 1, starts[d])
           T == (p..(q - 1)) \cup (c..(d - 1))
<1>1. /\ p <= q /\ c <= d /\ (q <= c \/ d <= p) /\ U \in Between
      /\ input = (S1 \o U) \o S2 /\ Holds(pb, msg, T)
  BY Zenon DEF Left
<1>2. S1 \in Seq(Byte) /\ (starts[p] = starts[q] <=> S1 = << >>)
  <2>1. StretchOk(starts, out.bytes, p, q)
    BY <1>1, Stretch, Zenon
  <2> QED
    BY <2>1, Zenon DEF StretchOk
<1>3. S2 \in Seq(Byte) /\ (starts[c] = starts[d] <=> S2 = << >>)
  <2>1. StretchOk(starts, out.bytes, c, d)
    BY <1>1, Stretch, Zenon
  <2> QED
    BY <2>1, Zenon DEF StretchOk
<1>4. U \in Seq(Byte)
  BY BetweenType
<1>5. input # << >>
  BY DEF DecodeNext
<1>6. \A j \in 1..15 : j \in T => pb.val[Descriptor[j].name] = ZeroVal(j)
  BY <1>1, Zenon DEF Holds
<1>10. p <= q /\ c <= d /\ (q <= c \/ d <= p)
  BY <1>1, Zenon
<1> HIDE DEF S1, S2, b
<1>7. CASE starts[p] # starts[q]
  <2>1. PICK j \in p..(q - 1) :
             /\ ~Absent(msg, j) /\ \A i \in p..(j - 1) : Absent(msg, i)
             /\ S1 = FieldBytes(msg, j) \o SubSeq(b, starts[j + 1] + 1, starts[q])
    <3>1. \E j \in p..(q - 1) : BeginsWith(msg, starts, b, p, q, j)
      BY <1>1, <1>7, StretchHead, Zenon DEF b
    <3> QED
      BY <3>1, Zenon DEF BeginsWith, S1
  <2> DEFINE F == FieldBytes(msg, j)
             S3 == SubSeq(b, starts[j + 1] + 1, starts[q])
             r == (S3 \o U) \o S2
             R == ((j + 1)..(q - 1)) \cup (c..(d - 1))
  <2>2. j \in 1..15 /\ j + 1 \in 1..15 /\ j + 1 <= q /\ (q <= c \/ d <= j + 1)
    BY <1>1
  <2>3. F \in Seq(Byte) /\ S3 \in Seq(Byte)
    <3>1. StretchOk(starts, b, j + 1, q)
      BY <2>2, Stretch, Zenon DEF b
    <3>2. S3 \in Seq(Byte)
      BY <3>1, Zenon DEF StretchOk
    <3> QED
      BY <2>2, <3>2, FieldBytesType
  <2> HIDE DEF F, S3
  <2>4. input = F \o r /\ r \in Seq(Byte)
    <3>1. S3 \o U \in Seq(Byte)
      BY <1>4, <2>3, BytesConcat
    <3>2. (F \o S3) \o U = F \o (S3 \o U)
      BY <1>4, <2>3, BytesAssociative, Zenon
    <3>3. (F \o (S3 \o U)) \o S2 = F \o ((S3 \o U) \o S2)
      <4> DEFINE w == S3 \o U
      <4>1. F \in Seq(Byte) /\ w \in Seq(Byte) /\ S2 \in Seq(Byte)
        BY <1>3, <2>3, <3>1, Zenon
      <4> HIDE DEF w
      <4>2. (F \o w) \o S2 = F \o (w \o S2)
        BY <4>1, BytesAssociative
      <4> QED
        BY <4>2, Zenon DEF w
    <3>4. S1 = F \o S3
      BY <2>1 DEF F, S3
    <3>5. r \in Seq(Byte)
      BY <1>3, <3>1, BytesConcat
    <3> QED
      BY <1>1, <3>2, <3>3, <3>4, <3>5, Zenon
  <2> HIDE DEF r
  <2>5. j \in T
    BY <2>1
  <2>6. Take(j, Good(PbVal(msg, j), r))
    BY <1>6, <2>1, <2>2, <2>4, <2>5, HeadField, Zenon DEF F
  <2>7. j \notin R
    BY <1>10
  <2>8. \A i \in 1..15 : i \in R => i \in T
    BY <2>1
  <2>9. \A i \in 1..15 : i \in T => i = j \/ i \in R \/ i \in p..(j - 1)
    BY <2>1
  <2> HIDE DEF T, R
  <2>10. \A i \in 1..15 : i \in T => i = j \/ i \in R \/ Absent(msg, i)
    BY <2>1, <2>9
  <2>11. /\ Holds(pb', msg, R) /\ input' = r
         /\ UNCHANGED <<stage, msg, out, starts, line, result>>
    BY <1>1, <2>1, <2>2, <2>5, <2>6, <2>7, <2>8, <2>10, TakeStep
  <2>12. Left(msg, starts, b, input', pb', j + 1, q, U, c, d)
    BY <1>1, <2>2, <2>11, Zenon DEF Left, R, r, S2, S3
  <2> QED
    BY <2>2, <2>11, <2>12, Zenon DEF Undone, b
<1>8. CASE starts[p] = starts[q] /\ U # << >>
  <2>1. PICK u \in Unknown : U = OtherBytes(u)
    BY <1>8, BetweenType
  <2>2. input = OtherBytes(u) \o S2
    BY <1>1, <1>2, <1>4, <1>8, <2>1, EmptyConcat
  <2>3. input' = S2 /\ pb' = pb /\ UNCHANGED <<stage, msg, out, starts, line, result>>
    BY <1>3, <2>2, HeadOther
  <2>4. << >> \in Between
    BY DEF Between
  <2>5. (S1 \o << >>) \o S2 = S2
    BY <1>2, <1>3, <1>8, EmptyConcat
  <2>6. Left(msg, starts, b, input', pb', p, q, << >>, c, d)
    BY <1>1, <2>3, <2>4, <2>5, Zenon DEF Left, S1, S2
  <2> QED
    BY <2>3, <2>4, <2>6, Zenon DEF Undone, b
<1>9. CASE starts[p] = starts[q] /\ U = << >>
  <2>1. input = S2
    BY <1>1, <1>2, <1>3, <1>9, EmptyConcat
  <2>2. starts[c] # starts[d]
    BY <1>3, <1>5, <2>1
  <2>3. PICK j \in c..(d - 1) :
             /\ ~Absent(msg, j) /\ \A i \in c..(j - 1) : Absent(msg, i)
             /\ S2 = FieldBytes(msg, j) \o SubSeq(b, starts[j + 1] + 1, starts[d])
    <3>1. \E j \in c..(d - 1) : BeginsWith(msg, starts, b, c, d, j)
      BY <1>1, <2>2, StretchHead, Zenon DEF b
    <3> QED
      BY <3>1, Zenon DEF BeginsWith, S2
  <2> DEFINE S3 == SubSeq(b, starts[j + 1] + 1, starts[d])
             R == (p..(q - 1)) \cup ((j + 1)..(d - 1))
  <2>4. j \in 1..15 /\ j + 1 \in 1..15 /\ j + 1 <= d /\ (q <= j + 1 \/ d <= p)
    BY <1>1
  <2>5. S3 \in Seq(Byte)
    <3>1. StretchOk(starts, b, j + 1, d)
      BY <2>4, Stretch, Zenon DEF b
    <3> QED
      BY <3>1, Zenon DEF StretchOk
  <2> HIDE DEF S3
  <2>6. input = FieldBytes(msg, j) \o S3
    BY <2>1, <2>3 DEF S3
  <2>7. j \in T
    BY <2>3
  <2>8. Take(j, Good(PbVal(msg, j), S3))
    BY <1>6, <2>3, <2>4, <2>5, <2>6, <2>7, HeadField, Zenon
  <2>9. j \notin R
    BY <1>10
  <2>10. \A i \in 1..15 : i \in R => i \in T
    BY <2>3
  <2>11. \A i \in 1..15 : i \in T => i = j \/ i \in R \/ i \in c..(j - 1)
    BY <2>3
  <2> HIDE DEF T, R
  <2>12. \A i \in 1..15 : i \in T => i = j \/ i \in R \/ Absent(msg, i)
    BY <2>3, <2>11
  <2>13. /\ Holds(pb', msg, R) /\ input' = S3
         /\ UNCHANGED <<stage, msg, out, starts, line, result>>
    BY <1>1, <2>3, <2>4, <2>7, <2>8, <2>9, <2>10, <2>12, TakeStep
  <2>14. (S1 \o U) \o S3 = S3
    BY <1>2, <1>9, <2>5, EmptyConcat
  <2>15. Left(msg, starts, b, input', pb', p, q, U, j + 1, d)
    BY <1>1, <2>4, <2>13, <2>14, Zenon DEF Left, R, S1, S3
  <2> QED
    BY <2>4, <2>13, <2>15, Zenon DEF Undone, b
<1> QED
  BY <1>7, <1>8, <1>9

-----------------------------------------------------------------------------
(***************************************************************************)
(* Where decoding starts and where it ends.                                *)
(***************************************************************************)

\* Of an empty concatenation every part is empty.
LEMMA EmptyParts ==
    ASSUME NEW s \in Seq(Byte), NEW u \in Seq(Byte), NEW t \in Seq(Byte),
           (s \o u) \o t = << >>
    PROVE  s = << >> /\ t = << >>
<1>1. s \o u \in Seq(Byte) /\ Len(s \o u) = Len(s) + Len(u)
  BY BytesConcat
<1> DEFINE w == s \o u
<1>2. w \in Seq(Byte) /\ Len(w) = Len(s) + Len(u)
  BY <1>1
<1> HIDE DEF w
<1>3. Len(w \o t) = Len(w) + Len(t)
  BY <1>2, BytesConcat
<1>4. Len(w \o t) = 0
  <2>1. w \o t = << >>
    BY DEF w
  <2> QED
    BY <2>1
<1>5. Len(s) \in Nat /\ Len(u) \in Nat /\ Len(t) \in Nat
  BY ByteSeq
<1>6. Len(s) = 0 /\ Len(t) = 0
  BY <1>2, <1>3, <1>4, <1>5
<1> QED
  BY <1>6, EmptySeq

\* Once there is nothing left the struct holds every field, and what is copied
\* out of it is the message.
LEMMA UndoneEnds ==
    ASSUME NEW m \in MeshMessage, NEW st, NEW b, Layout(m, st, b), Len(st) = 15,
           NEW P, NEW s, s = << >>, Undone(m, st, b, s, P)
    PROVE  FromPb(P) = Delivered(m)
<1>1. PICK p \in 1..15, q \in 1..15, c \in 1..15, d \in 1..15 : \E U \in Between :
        Left(m, st, b, s, P, p, q, U, c, d)
  BY Zenon DEF Undone
<1>2. PICK U \in Between : Left(m, st, b, s, P, p, q, U, c, d)
  BY <1>1
<1> DEFINE S1 == SubSeq(b, st[p] + 1, st[q])
           S2 == SubSeq(b, st[c] + 1, st[d])
           T == (p..(q - 1)) \cup (c..(d - 1))
<1>3. p <= q /\ c <= d /\ s = (S1 \o U) \o S2 /\ Holds(P, m, T)
  BY <1>2, Zenon DEF Left
<1>4. StretchOk(st, b, p, q) /\ StretchOk(st, b, c, d)
  BY <1>3, Stretch, Zenon
<1>5. /\ S1 \in Seq(Byte) /\ (st[p] = st[q] <=> S1 = << >>)
      /\ S2 \in Seq(Byte) /\ (st[c] = st[d] <=> S2 = << >>)
  BY <1>4, Zenon DEF StretchOk
<1>6. U \in Seq(Byte)
  BY BetweenType
<1> HIDE DEF S1, S2
<1>7. S1 = << >> /\ S2 = << >>
  BY <1>3, <1>5, <1>6, EmptyParts, Zenon
<1>8. st[p] = st[q] /\ st[c] = st[d]
  BY <1>5, <1>7
<1>9. \A i \in p..(q - 1) : Absent(m, i)
  BY <1>3, <1>8, EmptyPart, Zenon
<1>10. \A i \in c..(d - 1) : Absent(m, i)
  BY <1>3, <1>8, EmptyPart, Zenon
<1>11. \A i \in 1..15 : i \in T => Absent(m, i)
  BY <1>9, <1>10, Zenon
<1> QED
  BY <1>3, <1>11, HoldsAll, Zenon

\* The whole frame is what lies between its ends, and a stretch from a field
\* to itself is empty.
LEMMA FrameParts ==
    ASSUME NEW m \in MeshMessage, NEW st, NEW b, Layout(m, st, b), Len(st) = 15
    PROVE  /\ st[1] = 0 /\ st[1] + 1 = 1 /\ st[15] = Len(b)
           /\ b \in Seq(Byte) /\ SubSeq(b, st[1] + 1, st[15]) = b
           /\ SubSeq(b, st[15] + 1, st[15]) = << >>
           /\ Absent(m, 15)
<1>1. b \in Seq(Byte) /\ Len(b) \in Nat /\ st[1] = 0 /\ st[15] = Len(b)
  <2>1. WholeLayout(m, st, b)
    BY LayoutFacts
  <2> QED
    BY <2>1, Zenon DEF WholeLayout
<1>2. SubSeq(b, 0 + 1, Len(b)) = b
  <2> DEFINE s == SubSeq(b, 0 + 1, Len(b))
  <2>1. s \in Seq(Byte) /\ Len(s) = Len(b) - 0 /\ \A k \in 1..(Len(b) - 0) : s[k] = b[0 + k]
    <3>1. 0 \in Nat /\ 0 <= Len(b) /\ Len(b) <= Len(b)
      BY <1>1
    <3> QED
      BY <1>1, <3>1, PartType
  <2> HIDE DEF s
  <2>2. Len(s) = Len(b)
    BY <1>1, <2>1
  <2>3. \A k \in 1..Len(s) : s[k] = b[k]
    <3> SUFFICES ASSUME NEW k \in 1..Len(s) PROVE s[k] = b[k]
      OBVIOUS
    <3>1. k \in 1..(Len(b) - 0) /\ 0 + k = k
      BY <1>1, <2>2
    <3> QED
      BY <2>1, <3>1
  <2>4. s = b
    BY <1>1, <2>1, <2>2, <2>3, SeqEqual
  <2> QED
    BY <2>4 DEF s
<1>3. SubSeq(b, st[15] + 1, st[15]) = << >>
  <2>1. StretchOk(st, b, 15, 15)
    <3>1. 15 \in 1..15 /\ 15 <= 15
      OBVIOUS
    <3> QED
      BY <3>1, Stretch, Zenon
  <2> QED
    BY <2>1, Zenon DEF StretchOk
<1>4. Absent(m, 15)
  <2>1. 15 \in 1..15 /\ 15 \notin 1..14
    OBVIOUS
  <2> QED
    BY <2>1, FieldParts DEF Absent
<1>5. st[1] + 1 = 1
  BY <1>1
<1>6. SubSeq(b, st[1] + 1, st[15]) = b
  BY <1>1, <1>2
<1> QED
  BY <1>1, <1>3, <1>4, <1>5, <1>6

\* Nothing is done when decode starts with its zeroed struct.
LEMMA UndoneStarts ==
    ASSUME NEW m \in MeshMessage, NEW st, NEW b, Layout(m, st, b), Len(st) = 15,
           NEW p \in 1..15, NEW q \in 1..15, NEW c \in 1..15, NEW d \in 1..15, NEW U \in Between,
           p <= q, c <= d, q <= c \/ d <= p,
           \A i \in 1..14 : i \in (p..(q - 1)) \cup (c..(d - 1)),
           NEW s, s = (SubSeq(b, st[p] + 1, st[q]) \o U) \o SubSeq(b, st[c] + 1, st[d])
    PROVE  Undone(m, st, b, s, ZeroMessage)
<1> DEFINE T == (p..(q - 1)) \cup (c..(d - 1))
<1>1. Absent(m, 15)
  BY FrameParts
<1>2. \A i \in 1..15 : i \in T \/ Absent(m, i)
  <2> SUFFICES ASSUME NEW i \in 1..15 PROVE i \in T \/ Absent(m, i)
    OBVIOUS
  <2>1. i \in 1..14 \/ i = 15
    BY LastField, Zenon
  <2> QED
    BY <1>1, <2>1, Zenon
<1>3. Holds(ZeroMessage, m, T)
  BY <1>2, HoldsNothing, Zenon
<1>4. Left(m, st, b, s, ZeroMessage, p, q, U, c, d)
  BY <1>3, Zenon DEF Left
<1> QED
  BY <1>4, Zenon DEF Undone

\* A frame that arrives as it was sent, in another order, or with a field of
\* another version in it, is all its fields.
LEMMA UndoneArrives ==
    ASSUME NEW m \in MeshMessage, NEW st, NEW b, Layout(m, st, b), Len(st) = 15
    PROVE  /\ Undone(m, st, b, b, ZeroMessage)
           /\ \A i \in 1..15 :
                Undone(m, st, b, SubSeq(b, st[i] + 1, Len(b)) \o SubSeq(b, 1, st[i]), ZeroMessage)
           /\ \A i \in 1..15 : \A u \in Unknown :
                Undone(m, st, b, (SubSeq(b, 1, st[i]) \o OtherBytes(u))
                                   \o SubSeq(b, st[i] + 1, Len(b)), ZeroMessage)
<1>1. /\ st[1] + 1 = 1 /\ st[15] = Len(b) /\ b \in Seq(Byte)
      /\ SubSeq(b, st[1] + 1, st[15]) = b /\ SubSeq(b, st[15] + 1, st[15]) = << >>
  BY FrameParts
<1>2. /\ << >> \in Between /\ \A u \in Unknown : OtherBytes(u) \in Between
      /\ 1 \in 1..15 /\ 15 \in 1..15 /\ 1 <= 15 /\ 15 <= 15
  BY DEF Between
<1>3. Undone(m, st, b, b, ZeroMessage)
  <2>1. b = (SubSeq(b, st[1] + 1, st[15]) \o << >>) \o SubSeq(b, st[15] + 1, st[15])
    BY <1>1, EmptyConcat, Zenon
  <2>2. \A i \in 1..14 : i \in (1..(15 - 1)) \cup (15..(15 - 1))
    OBVIOUS
  <2> QED
    BY <1>2, <2>1, <2>2, UndoneStarts, Zenon
<1>4. ASSUME NEW i \in 1..15
      PROVE  Undone(m, st, b, SubSeq(b, st[i] + 1, Len(b)) \o SubSeq(b, 1, st[i]), ZeroMessage)
  <2> DEFINE s == SubSeq(b, st[i] + 1, Len(b)) \o SubSeq(b, 1, st[i])
  <2>1. 1 <= i /\ i <= 15 /\ i <= i
    OBVIOUS
  <2>2. SubSeq(b, st[i] + 1, st[15]) \in Seq(Byte)
    <3>1. StretchOk(st, b, i, 15)
      BY <1>2, <2>1, Stretch, Zenon
    <3> QED
      BY <3>1, Zenon DEF StretchOk
  <2>3. s = (SubSeq(b, st[i] + 1, st[15]) \o << >>) \o SubSeq(b, st[1] + 1, st[i])
    BY <1>1, <2>2, EmptyConcat, Zenon
  <2>4. \A k \in 1..14 : k \in (i..(15 - 1)) \cup (1..(i - 1))
    OBVIOUS
  <2> HIDE DEF s
  <2>5. Undone(m, st, b, s, ZeroMessage)
    BY <1>2, <2>1, <2>3, <2>4, UndoneStarts, Zenon
  <2> QED
    BY <2>5 DEF s
<1>5. ASSUME NEW i \in 1..15, NEW u \in Unknown
      PROVE  Undone(m, st, b, (SubSeq(b, 1, st[i]) \o OtherBytes(u))
                                \o SubSeq(b, st[i] + 1, Len(b)), ZeroMessage)
  <2> DEFINE s == (SubSeq(b, 1, st[i]) \o OtherBytes(u)) \o SubSeq(b, st[i] + 1, Len(b))
  <2>1. 1 <= i /\ i <= 15 /\ i <= i
    OBVIOUS
  <2>2. s = (SubSeq(b, st[1] + 1, st[i]) \o OtherBytes(u)) \o SubSeq(b, st[i] + 1, st[15])
    BY <1>1, Zenon
  <2>3. \A k \in 1..14 : k \in (1..(i - 1)) \cup (i..(15 - 1))
    OBVIOUS
  <2> HIDE DEF s
  <2>4. Undone(m, st, b, s, ZeroMessage)
    BY <1>2, <2>1, <2>2, <2>3, UndoneStarts, Zenon
  <2> QED
    BY <2>4 DEF s
<1> QED
  BY <1>3, <1>4, <1>5

-----------------------------------------------------------------------------
(***************************************************************************)
(* A frame that ends early.                                                *)
(***************************************************************************)

\* s is what is left of the first K bytes of the frame after some fields.
CutPart(st, b, s, K) ==
    /\ K \in Nat /\ K < Len(b)
    /\ \E p \in 1..15 : st[p] <= K /\ s = SubSeq(b, st[p] + 1, K)

\* Nothing is left only if the frame was cut between two fields.
LEMMA CutEnds ==
    ASSUME NEW m \in MeshMessage, NEW st, NEW b, Layout(m, st, b), Len(st) = 15,
           NEW K, NEW s, s = << >>, CutPart(st, b, s, K)
    PROVE  \E i \in 1..15 : K = st[i]
<1>1. /\ b \in Seq(Byte) /\ Len(b) \in Nat /\ \A i \in 1..15 : st[i] \in Nat
  <2>1. WholeLayout(m, st, b)
    BY LayoutFacts
  <2> QED
    BY <2>1, Zenon DEF WholeLayout
<1>2. PICK p \in 1..15 : st[p] <= K /\ s = SubSeq(b, st[p] + 1, K)
  BY Zenon DEF CutPart
<1>3. PICK a \in Nat : a = st[p]
  BY <1>1
<1>4. K \in Nat /\ K < Len(b)
  BY DEF CutPart
<1>5. a <= K
  BY <1>2, <1>3, Zenon
<1>6. K <= Len(b)
  BY <1>1, <1>4
<1>7. Len(SubSeq(b, a + 1, K)) = K - a
  BY <1>1, <1>4, <1>5, <1>6, PartType
<1>8. SubSeq(b, a + 1, K) = << >>
  BY <1>2, <1>3, Zenon
<1>9. K - a = 0
  BY <1>7, <1>8
<1>10. K = a
  BY <1>4, <1>9
<1> QED
  BY <1>3, <1>10

\* A round of the decoder takes the next field of the cut frame, or notices.
LEMMA CutStep ==
    ASSUME CodecInv, DecodeNext, msg \in MeshMessage,
           Layout(msg, starts, out.bytes), Len(starts) = 15,
           NEW K, CutPart(starts, out.bytes, input, K)
    PROVE  \/ Refuse
           \/ /\ CutPart(starts, out.bytes, input', K)
              /\ UNCHANGED <<stage, msg, out, starts, line, result>>
<1> DEFINE b == out.bytes
<1>1. /\ b \in Seq(Byte) /\ Len(b) \in Nat /\ \A i \in 1..15 : starts[i] \in Nat
  <2>1. WholeLayout(msg, starts, b)
    BY LayoutFacts
  <2> QED
    BY <2>1, Zenon DEF WholeLayout
<1>2. PICK p \in 1..15 : starts[p] <= K /\ input = SubSeq(b, starts[p] + 1, K)
  BY Zenon DEF CutPart
<1>3. PICK a \in Nat : a = starts[p]
  BY <1>1
<1>4. K \in Nat /\ K < Len(b)
  BY DEF CutPart
<1> HIDE DEF b
<1>5. a <= K
  BY <1>2, <1>3, Zenon
<1>6. K <= Len(b)
  BY <1>1, <1>4
<1>7. input # << >>
  BY DEF DecodeNext
<1>8. a # K
  <2> SUFFICES ASSUME a = K PROVE FALSE
    OBVIOUS
  <2>1. SubSeq(b, a + 1, K) \in Seq(Byte) /\ Len(SubSeq(b, a + 1, K)) = K - a
    BY <1>1, <1>4, <1>5, <1>6, PartType
  <2>2. Len(SubSeq(b, a + 1, K)) = 0
    BY <2>1
  <2>3. SubSeq(b, a + 1, K) = << >>
    BY <2>1, <2>2, EmptySeq
  <2> QED
    BY <1>2, <1>3, <1>7, <2>3, Zenon
<1>9. a < K
  BY <1>4, <1>5, <1>8
<1>10. PICK j \in p..14 : PartBegins(msg, starts, b, p, K, j)
  <2>1. starts[p] < K
    BY <1>3, <1>9, Zenon
  <2> QED
    BY <1>4, <1>6, <2>1, PartHead, Zenon DEF b
<1>11. j \in 1..15 /\ j + 1 \in 1..15
  OBVIOUS
<1>12. /\ ~Absent(msg, j)
       /\ starts[j + 1] <= K => input = FieldBytes(msg, j) \o SubSeq(b, starts[j + 1] + 1, K)
       /\ starts[j + 1] > K => /\ Len(input) < Len(FieldBytes(msg, j))
                               /\ \A k \in 1..Len(input) : input[k] = FieldBytes(msg, j)[k]
  BY <1>2, <1>10, Zenon DEF PartBegins
<1>13. PICK e \in Nat : e = starts[j + 1]
  BY <1>1, <1>11
<1>14. CASE e > K
  <2>1. starts[j + 1] > K
    BY <1>13, <1>14, Zenon
  <2>2. Refuse
    BY <1>11, <1>12, <2>1, HeadCut, Zenon
  <2> QED
    BY <2>2
<1>15. CASE e <= K
  <2> DEFINE r == SubSeq(b, starts[j + 1] + 1, K)
  <2>1. starts[j + 1] <= K
    BY <1>13, <1>15, Zenon
  <2>2. r \in Seq(Byte)
    <3>1. SubSeq(b, e + 1, K) \in Seq(Byte)
      BY <1>1, <1>4, <1>6, <1>15, PartType
    <3> QED
      BY <1>13, <3>1, Zenon
  <2>3. input = FieldBytes(msg, j) \o r
    BY <1>12, <2>1, Zenon
  <2>4. CutPart(starts, b, r, K)
    BY <1>4, <1>11, <2>1, Zenon DEF CutPart
  <2> HIDE DEF r
  <2>5. Refuse \/ \E v : Take(j, v) /\ v.rest = r
    BY <1>11, <1>12, <2>2, <2>3, HeadField, Zenon
  <2>6. ASSUME NEW v, Take(j, v), v.rest = r
        PROVE  input' = r /\ UNCHANGED <<stage, msg, out, starts, line, result>>
    BY <2>6, Zenon DEF Take
  <2> QED
    BY <2>4, <2>5, <2>6, Zenon DEF b
<1> QED
  BY <1>4, <1>13, <1>14, <1>15

-----------------------------------------------------------------------------
(***************************************************************************)
(* The whole way.                                                          *)
(***************************************************************************)

\* The frames that lose nothing of the message.
GoodLine == {"intact", "other version", "rotated"}

\* While a frame is decoded that lost nothing, what is left to read and what
\* has been read are together the message.
GoodInv ==
    stage = "decode" /\ line.kind \in GoodLine => Undone(msg, starts, out.bytes, input, pb)

\* While a frame is decoded that ends early, what is left starts with a field.
CutInv ==
    stage = "decode" /\ line.kind = "cut" => CutPart(starts, out.bytes, input, line.at)

\* The invariant of the whole way.
DecodeInv == CodecInv /\ GoodInv /\ CutInv /\ RoundTrip /\ CutNoticed

\* On the line and in the decoder the frame is that of a message.
LEMMA FrameOfMessage ==
    ASSUME CodecInv, stage \in {"line", "decode", "done"}
    PROVE  /\ msg \in MeshMessage /\ Layout(msg, starts, out.bytes) /\ Len(starts) = 15
           /\ DOMAIN starts = 1..15
<1>1. stage # "idle"
  OBVIOUS
<1>2. msg \in Messages /\ Layout(msg, starts, out.bytes) /\ Len(starts) = 15 /\ starts \in Seq(Nat)
  BY <1>1, Zenon DEF CodecInv, FrameInv
<1>3. DOMAIN starts = 1..15
  BY <1>2
<1> QED
  BY <1>2, <1>3, CodecAssumption

\* What one round of the decoder may do.
LEMMA DecodeRound ==
    ASSUME DecodeNext
    PROVE  /\ stage = "decode" /\ line' = line /\ msg' = msg /\ starts' = starts /\ out' = out
           /\ (stage' = "decode" /\ result' = result) \/ (stage' = "done" /\ result' = Failed)
<1>1. PICK t : t = DecodeTag(input)
  OBVIOUS
<1>2. PICK found : found = IterFind(iter, t.val[1])
  OBVIOUS
<1>3. PICK f : f = Descriptor[found.at]
  OBVIOUS
<1>4. PICK skipped : skipped = SkipField(t.rest, t.val[2])
  OBVIOUS
<1>5. PICK value : value = DecodeValue(f, pb.val[f.name], t.rest, t.val[2])
  OBVIOUS
<1>6. Round(t, found, skipped, value)
  BY <1>1, <1>2, <1>3, <1>4, <1>5, DecodeSteps
<1>7. stage = "decode"
  BY DEF DecodeNext
<1>8. Refuse \/ Pass(skipped) \/ Take(found.at, value)
  BY <1>6, Zenon DEF Round
<1>9. CASE Refuse
  BY <1>7, <1>9 DEF Refuse
<1>10. CASE Pass(skipped)
  BY <1>7, <1>10 DEF Pass
<1>11. CASE Take(found.at, value)
  <2>1. UNCHANGED <<stage, msg, out, starts, line, result>>
    BY <1>11, Zenon DEF Take
  <2> QED
    BY <1>7, <2>1
<1> QED
  BY <1>8, <1>9, <1>10, <1>11

\* DecodeInv when a frame arrives.
LEMMA ArrivesDecode ==
    ASSUME NEW bytes, NEW kind, NEW at, Arrives(bytes, kind, at),
           kind \in GoodLine => Undone(msg, starts, out.bytes, bytes, ZeroMessage),
           kind = "cut" => CutPart(starts, out.bytes, bytes, at)
    PROVE  GoodInv' /\ CutInv' /\ RoundTrip' /\ CutNoticed'
<1>1. /\ stage' = "decode" /\ input' = bytes /\ pb' = ZeroMessage
      /\ msg' = msg /\ out' = out /\ starts' = starts
  BY DEF Arrives
<1>2. line'.kind = kind /\ line'.at = at
  BY DEF Arrives
<1>3. GoodInv'
  BY <1>1, <1>2, Zenon DEF GoodInv
<1>4. CutInv'
  BY <1>1, <1>2, Zenon DEF CutInv
<1>5. RoundTrip' /\ CutNoticed'
  BY <1>1 DEF RoundTrip, CutNoticed
<1> QED
  BY <1>3, <1>4, <1>5

\* DecodeInv when the line hands over what it made of the frame.
LEMMA LineDecode ==
    ASSUME CodecInv,
           \/ Intact
           \/ \E k \in 0..256 : Cut(k) \/ LoseByte(k) \/ \E b \in Garbage : Garble(k, b)
           \/ \E i \in DOMAIN starts : Rotated(i) \/ \E u \in Unknown : OtherVersion(i, u)
    PROVE  GoodInv' /\ CutInv' /\ RoundTrip' /\ CutNoticed'
<1> DEFINE Goal == GoodInv' /\ CutInv' /\ RoundTrip' /\ CutNoticed'
           b == out.bytes
<1>1. stage = "line"
  BY DEF Intact, Cut, LoseByte, Garble, Rotated, OtherVersion, Arrives
<1>2. msg \in MeshMessage /\ Layout(msg, starts, b) /\ Len(starts) = 15 /\ DOMAIN starts = 1..15
  BY <1>1, FrameOfMessage
<1>3. /\ Undone(msg, starts, b, b, ZeroMessage)
      /\ \A i \in 1..15 :
           Undone(msg, starts, b, SubSeq(b, starts[i] + 1, Len(b)) \o SubSeq(b, 1, starts[i]), ZeroMessage)
      /\ \A i \in 1..15 : \A u \in Unknown :
           Undone(msg, starts, b, (SubSeq(b, 1, starts[i]) \o OtherBytes(u))
                                    \o SubSeq(b, starts[i] + 1, Len(b)), ZeroMessage)
  BY <1>2, UndoneArrives
<1>4. /\ "cut" \notin GoodLine /\ "shifted" \notin GoodLine /\ "garbled" \notin GoodLine
      /\ "shifted" # "cut" /\ "garbled" # "cut" /\ "intact" # "cut"
      /\ "rotated" # "cut" /\ "other version" # "cut"
  BY DEF GoodLine
<1>5. ASSUME Intact PROVE Goal
  BY <1>3, <1>4, <1>5, ArrivesDecode, Zenon DEF Intact
<1>6. ASSUME NEW k \in 0..256, Cut(k) PROVE Goal
  <2>1. k \in Nat /\ k < Len(b) /\ Arrives(SubSeq(b, 1, k), "cut", k)
    BY <1>6 DEF Cut
  <2>2. starts[1] = 0 /\ starts[1] + 1 = 1
    BY <1>2, FrameParts
  <2>3. 1 \in 1..15 /\ starts[1] <= k
    BY <2>1, <2>2
  <2>4. SubSeq(b, 1, k) = SubSeq(b, starts[1] + 1, k)
    BY <2>2, Zenon
  <2>5. CutPart(starts, b, SubSeq(b, 1, k), k)
    BY <2>1, <2>3, <2>4, Zenon DEF CutPart
  <2> QED
    BY <1>4, <2>1, <2>5, ArrivesDecode, Zenon
<1>7. ASSUME NEW k \in 0..256, LoseByte(k) PROVE Goal
  BY <1>4, <1>7, ArrivesDecode, Zenon DEF LoseByte
<1>8. ASSUME NEW k \in 0..256, NEW g \in Garbage, Garble(k, g) PROVE Goal
  BY <1>4, <1>8, ArrivesDecode, Zenon DEF Garble
<1>9. ASSUME NEW i \in 1..15, Rotated(i) PROVE Goal
  BY <1>3, <1>4, <1>9, ArrivesDecode, Zenon DEF Rotated
<1>10. ASSUME NEW i \in 1..15, NEW u \in Unknown, OtherVersion(i, u) PROVE Goal
  BY <1>3, <1>4, <1>10, ArrivesDecode, Zenon DEF OtherVersion
<1> QED
  BY <1>2, <1>5, <1>6, <1>7, <1>8, <1>9, <1>10, Zenon

\* DecodeInv over one round of the decoder.
LEMMA DecodeNextDecode ==
    ASSUME DecodeInv, DecodeNext
    PROVE  GoodInv' /\ CutInv' /\ RoundTrip' /\ CutNoticed'
<1>1. /\ stage = "decode" /\ line' = line /\ msg' = msg /\ starts' = starts /\ out' = out
      /\ (stage' = "decode" /\ result' = result) \/ (stage' = "done" /\ result' = Failed)
  BY DecodeRound
<1>2. CodecInv
  BY DEF DecodeInv
<1>3. msg \in MeshMessage /\ Layout(msg, starts, out.bytes) /\ Len(starts) = 15
  BY <1>1, <1>2, FrameOfMessage
<1>4. "cut" \notin GoodLine /\ "decode" # "done"
  BY DEF GoodLine
<1>5. CASE line.kind \in GoodLine
  <2>1. Undone(msg, starts, out.bytes, input, pb)
    BY <1>1, <1>5, Zenon DEF DecodeInv, GoodInv
  <2>2. PICK p \in 1..15, q \in 1..15, c \in 1..15, d \in 1..15 : \E U \in Between :
          Left(msg, starts, out.bytes, input, pb, p, q, U, c, d)
    BY <2>1, Zenon DEF Undone
  <2>3. PICK U \in Between : Left(msg, starts, out.bytes, input, pb, p, q, U, c, d)
    BY <2>2
  <2>4. Undone(msg, starts, out.bytes, input', pb') /\ stage' = stage
    BY <1>2, <1>3, <2>3, UndoneStep
  <2>5. GoodInv'
    BY <1>1, <2>4, Zenon DEF GoodInv
  <2>6. CutInv'
    BY <1>1, <1>4, <1>5, Zenon DEF CutInv
  <2>7. RoundTrip' /\ CutNoticed'
    BY <1>1, <1>4, <2>4, Zenon DEF RoundTrip, CutNoticed
  <2> QED
    BY <2>5, <2>6, <2>7
<1>6. CASE line.kind \notin GoodLine
  <2>1. GoodInv' /\ RoundTrip'
    BY <1>1, <1>6, Zenon DEF GoodInv, RoundTrip, GoodLine
  <2>2. CutInv' /\ CutNoticed'
    <3>1. CASE line.kind # "cut"
      BY <1>1, <3>1, Zenon DEF CutInv, CutNoticed
    <3>2. CASE line.kind = "cut"
      <4>1. CutPart(starts, out.bytes, input, line.at)
        BY <1>1, <3>2, Zenon DEF DecodeInv, CutInv
      <4>2. \/ Refuse
            \/ CutPart(starts, out.bytes, input', line.at)
        BY <1>2, <1>3, <4>1, CutStep
      <4>3. Refuse => stage' = "done"
        BY DEF Refuse
      <4>4. CutInv'
        BY <1>1, <1>4, <4>2, <4>3, Zenon DEF CutInv
      <4>5. CutNoticed'
        BY <1>1, <1>4, Zenon DEF CutNoticed
      <4> QED
        BY <4>4, <4>5
    <3> QED
      BY <3>1, <3>2
  <2> QED
    BY <2>1, <2>2
<1> QED
  BY <1>5, <1>6

\* DecodeInv when the input is used up.
LEMMA DecodeEndsDecode ==
    ASSUME DecodeInv, DecodeEnds
    PROVE  GoodInv' /\ CutInv' /\ RoundTrip' /\ CutNoticed'
<1>1. /\ stage = "decode" /\ input = << >> /\ stage' = "done"
      /\ result' = [status |-> "ok", msg |-> FromPb(pb)]
      /\ line' = line /\ msg' = msg /\ starts' = starts
  BY DEF DecodeEnds
<1>2. msg \in MeshMessage /\ Layout(msg, starts, out.bytes) /\ Len(starts) = 15
      /\ DOMAIN starts = 1..15
  BY <1>1, FrameOfMessage DEF DecodeInv
<1>3. GoodInv' /\ CutInv'
  BY <1>1 DEF GoodInv, CutInv
<1>4. RoundTrip'
  <2> SUFFICES ASSUME line.kind \in GoodLine
               PROVE  result' = [status |-> "ok", msg |-> Delivered(msg)]
    BY <1>1, Zenon DEF RoundTrip, GoodLine
  <2>1. Undone(msg, starts, out.bytes, input, pb)
    BY <1>1, Zenon DEF DecodeInv, GoodInv
  <2>2. FromPb(pb) = Delivered(msg)
    BY <1>1, <1>2, <2>1, UndoneEnds, Zenon
  <2> QED
    BY <1>1, <2>2, Zenon
<1>5. CutNoticed'
  <2> SUFFICES ASSUME line.kind = "cut", \A i \in DOMAIN starts : line.at /= starts[i]
               PROVE  FALSE
    BY <1>1, Zenon DEF CutNoticed
  <2>1. CutPart(starts, out.bytes, input, line.at)
    BY <1>1, Zenon DEF DecodeInv, CutInv
  <2>2. \E i \in 1..15 : line.at = starts[i]
    BY <1>1, <1>2, <2>1, CutEnds
  <2> QED
    BY <1>2, <2>2, Zenon
<1> QED
  BY <1>3, <1>4, <1>5

\* Before anything is encoded.
LEMMA DecodeInvInit == CodecInit => DecodeInv
<1> SUFFICES ASSUME CodecInit PROVE DecodeInv
  OBVIOUS
<1>1. stage = "idle"
  BY DEF CodecInit
<1>2. GoodInv /\ CutInv /\ RoundTrip /\ CutNoticed
  BY <1>1 DEF GoodInv, CutInv, RoundTrip, CutNoticed
<1> QED
  BY <1>2, CodecInvInit DEF DecodeInv

\* Every step keeps DecodeInv.
LEMMA DecodeInvStep == DecodeInv /\ [CodecNext]_codecVars => DecodeInv'
<1> SUFFICES ASSUME DecodeInv, [CodecNext]_codecVars PROVE DecodeInv'
  OBVIOUS
<1> DEFINE Goal == GoodInv' /\ CutInv' /\ RoundTrip' /\ CutNoticed'
<1>1. CodecInv /\ CodecInv'
  BY CodecInvStep DEF DecodeInv
<1>2. ASSUME NEW m \in Messages, StartEncode(m) PROVE Goal
  <2>1. stage' = "encode"
    BY <1>2 DEF StartEncode
  <2> QED
    BY <2>1 DEF GoodInv, CutInv, RoundTrip, CutNoticed
<1>3. ASSUME EncodeNext PROVE Goal
  <2>1. out'.ok
    BY <1>1, <1>3, EncodeNextInv
  <2>2. stage' \in {"line", "encode"}
    BY <1>3, <2>1 DEF EncodeNext
  <2> QED
    BY <2>2 DEF GoodInv, CutInv, RoundTrip, CutNoticed
<1>4. ASSUME UNCHANGED codecVars PROVE Goal
  <2>1. /\ stage' = stage /\ msg' = msg /\ pb' = pb /\ out' = out /\ starts' = starts
        /\ line' = line /\ input' = input /\ result' = result
    BY <1>4, Zenon DEF codecVars
  <2>2. GoodInv /\ CutInv /\ RoundTrip /\ CutNoticed
    BY DEF DecodeInv
  <2>3. GoodInv'
    BY <2>1, <2>2, Zenon DEF GoodInv
  <2>4. CutInv'
    BY <2>1, <2>2, Zenon DEF CutInv
  <2>5. RoundTrip'
    BY <2>1, <2>2, Zenon DEF RoundTrip
  <2>6. CutNoticed'
    BY <2>1, <2>2, Zenon DEF CutNoticed
  <2> QED
    BY <2>3, <2>4, <2>5, <2>6
<1>5. ASSUME DecodeNext PROVE Goal
  BY <1>5, DecodeNextDecode
<1>6. ASSUME DecodeEnds PROVE Goal
  BY <1>6, DecodeEndsDecode
<1>7. ASSUME \/ Intact
             \/ \E k \in 0..256 : Cut(k) \/ LoseByte(k) \/ \E b \in Garbage : Garble(k, b)
             \/ \E i \in DOMAIN starts : Rotated(i) \/ \E u \in Unknown : OtherVersion(i, u)
      PROVE  Goal
  BY <1>1, <1>7, LineDecode
<1>8. Goal
  <2> HIDE DEF Goal
  <2> QED
    BY <1>2, <1>3, <1>4, <1>5, <1>6, <1>7, Zenon DEF CodecNext
<1> QED
  BY <1>1, <1>8 DEF DecodeInv

\* SerialFraming::decode undoes SerialFraming::encode for every message, also
\* when the sender writes the fields in another order or adds one that this
\* version does not know.
THEOREM RoundTripAlways == CodecSpec => []RoundTrip
<1>1. DecodeInv => RoundTrip
  BY DEF DecodeInv
<1> QED
  BY <1>1, DecodeInvInit, DecodeInvStep, PTL DEF CodecSpec

\* SerialFraming::decode refuses every frame that ends early, unless it ends
\* between two fields.
THEOREM CutNoticedAlways == CodecSpec => []CutNoticed
<1>1. DecodeInv => CutNoticed
  BY DEF DecodeInv
<1> QED
  BY <1>1, DecodeInvInit, DecodeInvStep, PTL DEF CodecSpec
=============================================================================
