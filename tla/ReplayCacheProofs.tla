-------------------------- MODULE ReplayCacheProofs --------------------------
(***************************************************************************)
(* ReplayCache implements ReplayFilter, passes no frame twice, drops no    *)
(* newest frame and forgets an origin only for others heard since, for     *)
(* every number of slots, origins and frames.                              *)
(***************************************************************************)
EXTENDS ReplayCache, FiniteSetTheorems, TLAPS

\* The mark slot i contributes.
Mark(i) == [mac |-> cache[i].mac, epoch |-> cache[i].epoch, seq |-> cache[i].seq]

\* Types and uniqueness are kept by every step of the receiver and of the
\* other nodes.
LEMMA CacheStep ==
    ASSUME CacheTypeOK, OneSlotPerOrigin, [CacheNext]_cacheVars
    PROVE  CacheTypeOK' /\ OneSlotPerOrigin'
<1> USE ReplayConstants DEF CacheTypeOK, OneSlotPerOrigin, Entries, OriginFrames, ClockTimes, SlotIds
<1>1. ASSUME NEW f \in sent, NEW i \in SlotIds, Accept(i, f),
             \A j \in SlotIds : j # i => ~Found(j, f.mac)
      PROVE  CacheTypeOK' /\ OneSlotPerOrigin'
  BY <1>1 DEF Accept, EntryFor, Found
<1>2. ASSUME NEW f \in sent, AcceptKnown(f)
      PROVE  CacheTypeOK' /\ OneSlotPerOrigin'
  BY <1>1, <1>2 DEF AcceptKnown, Found
<1>3. ASSUME NEW f \in sent, AcceptInFreeSlot(f) \/ AcceptByEviction(f)
      PROVE  CacheTypeOK' /\ OneSlotPerOrigin'
  BY <1>1, <1>3 DEF AcceptInFreeSlot, AcceptByEviction, Known
<1>4. CASE Reboot
  BY <1>4 DEF Reboot, Unused, Unheard
<1>5. ASSUME NEW o \in Origins, OriginSends(o) \/ OriginBoots(o)
      PROVE  CacheTypeOK' /\ OneSlotPerOrigin'
  <2>1. CASE OriginSends(o)
    <3>1. origin'[o] \in [epoch: 0..MaxEpoch, seq: 0..MaxSeq]
      BY <2>1 DEF OriginSends
    <3>2. sent' \subseteq OriginFrames
      BY <2>1 DEF OriginSends
    <3> QED
      BY <2>1, <3>1, <3>2 DEF OriginSends
  <2>2. CASE OriginBoots(o)
    <3>1. /\ origin[o].epoch + 1 \in 0..MaxEpoch /\ 0 \in 0..MaxSeq
          /\ origin'[o] = [epoch |-> origin[o].epoch + 1, seq |-> 0]
      BY <2>2 DEF OriginBoots
    <3> QED
      BY <2>2, <3>1 DEF OriginBoots
  <2> QED
    BY <1>5, <2>1, <2>2
<1>6. CASE ClockTicks
  BY <1>6, SMTT(30) DEF ClockTicks
<1>7. CASE UNCHANGED cacheVars
  BY <1>7 DEF cacheVars
<1>8. ASSUME NEW f \in sent, Receive(f)
      PROVE  CacheTypeOK' /\ OneSlotPerOrigin'
  <2> HIDE DEF CacheTypeOK, OneSlotPerOrigin
  <2> QED
    BY ONLY <1>2, <1>3, <1>7, <1>8 DEF Receive, DropReplay
<1> HIDE DEF CacheTypeOK, OneSlotPerOrigin
<1> QED
  BY <1>4, <1>5, <1>6, <1>7, <1>8 DEF CacheNext

\* Every reachable cache is well typed and holds an origin at most once
\* (isReplay allocates only after mac_table::find failed).
THEOREM SlotsUnique == CacheSpec => [](CacheTypeOK /\ OneSlotPerOrigin)
<1>1. CacheInit => CacheTypeOK /\ OneSlotPerOrigin
  BY ReplayConstants DEF CacheInit, CacheTypeOK, OneSlotPerOrigin, Entries, OriginFrames, ClockTimes,
     SlotIds, Unused, Unheard
<1> QED
  BY <1>1, CacheStep, PTL DEF CacheSpec

\* A pass through slot i replaces slot i's mark, if it had one, by the frame.
LEMMA AcceptMarks ==
    ASSUME CacheTypeOK, OneSlotPerOrigin, NEW f \in sent, NEW i \in SlotIds, Accept(i, f)
    PROVE  /\ f \in Filter!Frames
           /\ cache[i].used => Marks' = (Marks \ {Mark(i)}) \cup {f}
           /\ ~cache[i].used => Marks' = Marks \cup {f}
<1>1. f \in Filter!Frames /\ f = [mac |-> f.mac, epoch |-> f.epoch, seq |-> f.seq]
  BY DEF CacheTypeOK, OriginFrames, Filter!Frames
<1>2. \A j \in SlotIds : cache'[j] = IF j = i THEN EntryFor(f) ELSE cache[j]
  BY DEF Accept, CacheTypeOK
<1>3. Mark(i)' = f /\ cache'[i].used
  BY <1>1, <1>2 DEF Mark, EntryFor
<1>4. Marks = {Mark(j) : j \in {k \in SlotIds : cache[k].used}}
  BY DEF Marks, Mark
<1>5. Marks' = {Mark(j)' : j \in {k \in SlotIds : cache'[k].used}}
  BY DEF Marks, Mark
<1>6. \A j \in SlotIds : j # i => Mark(j)' = Mark(j) /\ cache'[j].used = cache[j].used
  BY <1>2 DEF Mark
<1>7. \A j \in SlotIds : j # i /\ cache[j].used /\ cache[i].used => Mark(j) # Mark(i)
  BY DEF OneSlotPerOrigin, Mark
<1>8. ASSUME cache[i].used PROVE Marks' = (Marks \ {Mark(i)}) \cup {f}
  <2>1. ASSUME NEW m \in Marks' PROVE m \in (Marks \ {Mark(i)}) \cup {f}
    BY <1>3, <1>4, <1>5, <1>6, <1>7, <1>8, <2>1
  <2>2. ASSUME NEW m \in (Marks \ {Mark(i)}) \cup {f} PROVE m \in Marks'
    BY <1>3, <1>4, <1>5, <1>6, <2>2
  <2> QED
    BY <2>1, <2>2
<1>9. ASSUME ~cache[i].used PROVE Marks' = Marks \cup {f}
  <2>1. ASSUME NEW m \in Marks' PROVE m \in Marks \cup {f}
    BY <1>3, <1>4, <1>5, <1>6, <2>1
  <2>2. ASSUME NEW m \in Marks \cup {f} PROVE m \in Marks'
    BY <1>3, <1>4, <1>5, <1>6, <1>9, <2>2
  <2> QED
    BY <2>1, <2>2
<1> QED
  BY <1>1, <1>8, <1>9

\* The slot table with LRU eviction implements the abstract filter
\* (ReplayCache::isReplay, ReplayCache.h:42-79).
THEOREM CacheImplementsFilter == CacheSpec => ImplementsFilter
<1>1. CacheInit => Filter!Init
  BY DEF CacheInit, Filter!Init, Marks, Unused
<1>2. ASSUME CacheTypeOK, OneSlotPerOrigin, [CacheNext]_cacheVars
      PROVE  [Filter!Next]_Marks
  <2>1. ASSUME NEW f \in sent, AcceptKnown(f) PROVE Filter!Next
    <3>1. PICK i \in SlotIds : Found(i, f.mac) /\ Newer(f, cache[i]) /\ Accept(i, f)
      BY <2>1 DEF AcceptKnown
    <3>2. Mark(i) \in Marks /\ Mark(i).mac = f.mac /\ Filter!Newer(f, Mark(i))
      BY <3>1 DEF Marks, Mark, Found, Newer, Filter!Newer
    <3>3. f \in Filter!Frames /\ Marks' = (Marks \ {Mark(i)}) \cup {f}
      BY <1>2, <3>1, AcceptMarks DEF Found
    <3> QED
      BY <3>2, <3>3 DEF Filter!Next, Filter!Advance
  <2>2. ASSUME NEW f \in sent, ~Known(f.mac) PROVE \A m \in Marks : m.mac # f.mac
    BY <2>2 DEF Marks, Known, Found
  <2>3. ASSUME NEW f \in sent, AcceptInFreeSlot(f) PROVE Filter!Next
    <3>1. PICK i \in SlotIds : ~cache[i].used /\ Accept(i, f)
      BY <2>3 DEF AcceptInFreeSlot, FirstUnused
    <3>2. f \in Filter!Frames /\ Marks' = (Marks \ {}) \cup {f}
      BY <1>2, <3>1, AcceptMarks
    <3> QED
      BY <2>2, <2>3, <3>2 DEF Filter!Next, Filter!Learn, AcceptInFreeSlot
  <2>4. ASSUME NEW f \in sent, AcceptByEviction(f) PROVE Filter!Next
    <3>1. PICK i \in SlotIds : cache[i].used /\ Accept(i, f)
      BY <2>4 DEF AcceptByEviction, Oldest
    <3>2. f \in Filter!Frames /\ Marks' = (Marks \ {Mark(i)}) \cup {f}
      BY <1>2, <3>1, AcceptMarks
    <3>3. {Mark(i)} \in SUBSET Marks
      BY <3>1 DEF Marks, Mark
    <3> QED
      BY <2>2, <2>4, <3>2, <3>3 DEF Filter!Next, Filter!Learn, AcceptByEviction
  <2>5. CASE Reboot
    BY <2>5 DEF Reboot, Filter!Next, Filter!Forget, Marks, Unused
  <2>6. CASE cache' = cache
    BY <2>6 DEF Marks
  <2> QED
    BY <1>2, <2>1, <2>3, <2>4, <2>5, <2>6 DEF CacheNext, Receive, DropReplay, cacheVars,
       OriginSends, OriginBoots, ClockTicks
<1> QED
  BY <1>1, <1>2, SlotsUnique, PTL DEF CacheSpec, ImplementsFilter, Filter!Spec

-----------------------------------------------------------------------------
(***************************************************************************)
(* What the histories say of the table.                                    *)
(***************************************************************************)

\* A slot in use holds a frame that passed, of an origin last heard when the
\* slot says; nothing has passed that was not sent, and nothing was sent that
\* is ahead of its origin.
SlotsInv ==
    /\ \A i \in SlotIds : cache[i].used =>
         /\ Mark(i) \in accepted
         /\ heardAt[cache[i].mac] = cache[i].lastSeenMs
    /\ \A i \in SlotIds : ~cache[i].used => cache[i].mac = NoMac
    /\ accepted \subseteq sent
    /\ \A f \in sent : ~Newer(f, origin[f.mac])
    /\ \A o \in Origins : heardAt[o] <= clock

\* An origin that was heard and forgotten left a full table, every slot of
\* which was heard no earlier: this is what an eviction leaves behind, and it
\* stays so until the next boot.
ForgottenInv ==
    \A o \in Origins : heardAt[o] # Unheard /\ ~Known(o) =>
        \A i \in SlotIds : cache[i].used /\ cache[i].lastSeenMs >= heardAt[o]

CacheInv == CacheTypeOK /\ OneSlotPerOrigin /\ SlotsInv /\ ForgottenInv /\ AtMostOnce

\* A frame that passes keeps the histories in step with its slot.
LEMMA AcceptKeepsInv ==
    ASSUME CacheInv, NEW f \in sent, NEW i \in SlotIds, Accept(i, f),
           \/ Found(i, f.mac) /\ Newer(f, cache[i])
           \/ ~Known(f.mac) /\ (FirstUnused(i) \/ Oldest(i))
    PROVE  SlotsInv' /\ ForgottenInv' /\ AtMostOnce'
<1> USE DEF CacheInv
<1>1. /\ f \in OriginFrames /\ f.mac \in Origins /\ f.mac # NoMac /\ f.epoch \in Nat /\ f.seq \in Nat
      /\ clock \in Nat
      /\ f = [mac |-> f.mac, epoch |-> f.epoch, seq |-> f.seq]
  BY ReplayConstants DEF CacheTypeOK, OriginFrames, ClockTimes
<1>2. \A j \in SlotIds : cache'[j] = IF j = i THEN EntryFor(f) ELSE cache[j]
  BY DEF Accept, CacheTypeOK
<1>3. \A o \in Origins : heardAt'[o] = IF o = f.mac THEN clock ELSE heardAt[o]
  BY <1>1 DEF Accept, CacheTypeOK
<1>4. /\ \A j \in SlotIds : /\ cache[j].epoch \in Nat /\ cache[j].seq \in Nat
                            /\ cache[j].lastSeenMs \in Nat
                            /\ cache[j].mac \in Origins \cup {NoMac}
                            /\ cache[j].used \in BOOLEAN
      /\ \A o \in Origins : heardAt[o] \in Int
  BY ReplayConstants DEF CacheTypeOK, Entries, ClockTimes, Unheard
<1>5. \A j \in SlotIds : cache[j].used => cache[j].mac \in Origins
  BY <1>4 DEF SlotsInv, CacheTypeOK, OriginFrames, Mark
<1>6. \A j \in SlotIds : j # i /\ cache[j].used =>
         cache[j].mac # f.mac /\ cache[j].mac # cache[i].mac
  BY <1>5, ReplayConstants DEF OneSlotPerOrigin, Known, Found, SlotsInv
<1>7. EntryFor(f).used /\ EntryFor(f).mac = f.mac /\ EntryFor(f).epoch = f.epoch
      /\ EntryFor(f).seq = f.seq /\ EntryFor(f).lastSeenMs = clock
  BY DEF EntryFor
<1>8. UNCHANGED <<clock, origin, sent>> /\ f \in accepted'
  BY DEF Accept
<1>9. SlotsInv'
  <2>1. ASSUME NEW j \in SlotIds, cache'[j].used
        PROVE  Mark(j)' \in accepted' /\ heardAt'[cache'[j].mac] = cache'[j].lastSeenMs
    <3>1. CASE j = i
      BY <3>1, <1>1, <1>2, <1>3, <1>7, <1>8 DEF Mark
    <3>2. CASE j # i
      <4>1. cache'[j] = cache[j] /\ cache[j].used /\ Mark(j)' = Mark(j)
        BY <3>2, <2>1, <1>2 DEF Mark
      <4>2. Mark(j) \in accepted /\ Mark(j).mac # cache[i].mac
        BY <4>1, <3>2, <1>6 DEF SlotsInv, Mark
      <4>3. Mark(j) \in accepted'
        BY <4>2 DEF Accept
      <4> QED
        BY <4>1, <4>3, <3>2, <1>3, <1>5, <1>6 DEF SlotsInv
    <3> QED
      BY <3>1, <3>2
  <2>2. \A j \in SlotIds : ~cache'[j].used => cache'[j].mac = NoMac
    BY <1>2, <1>7 DEF SlotsInv
  <2>3. accepted' \subseteq sent'
    BY DEF Accept, SlotsInv
  <2>4. \A o \in Origins : heardAt'[o] <= clock'
    BY <1>1, <1>3, <1>8 DEF SlotsInv
  <2>5. \A g \in sent' : ~Newer(g, origin[g.mac])'
    BY <1>8 DEF SlotsInv, Newer
  <2> QED
    BY <2>1, <2>2, <2>3, <2>4, <2>5 DEF SlotsInv
<1>10. ForgottenInv'
  <2> SUFFICES ASSUME NEW o \in Origins, heardAt'[o] # Unheard, ~Known(o)', NEW j \in SlotIds
               PROVE  cache'[j].used /\ cache'[j].lastSeenMs >= heardAt'[o]
    BY DEF ForgottenInv
  <2>1. o # f.mac /\ heardAt'[o] = heardAt[o] /\ heardAt[o] <= clock
    BY <1>2, <1>3, <1>7 DEF Known, Found, SlotsInv
  <2>2. CASE j = i
    BY <2>1, <2>2, <1>2, <1>4, <1>7
  <2>3. CASE j # i /\ ~Known(o)
    BY <2>1, <2>3, <1>2 DEF ForgottenInv
  <2>4. CASE j # i /\ Known(o)
    <3>1. PICK k \in SlotIds : Found(k, o)
      BY <2>4 DEF Known
    <3>2. k = i
      BY <3>1, <1>2 DEF Known, Found
    <3>3. Oldest(i) /\ heardAt[o] = cache[i].lastSeenMs
      BY <3>1, <3>2, <2>1 DEF Found, FirstUnused, SlotsInv
    <3> QED
      BY <3>3, <2>1, <2>4, <1>2, <1>4 DEF Oldest
  <2> QED
    BY <2>2, <2>3, <2>4
<1>11. AtMostOnce'
  <2> SUFFICES ASSUME NEW g \in accepted'
               PROVE  \E j \in SlotIds : Found(j, g.mac)' /\ ~Newer(g, cache'[j])
    BY DEF AtMostOnce, Newer
  <2>1. CASE g = f
    BY <2>1, <1>1, <1>2, <1>7 DEF Found, Newer
  <2>2. CASE g # f
    <3>1. g \in accepted /\ (g.mac = f.mac \/ g.mac # cache[i].mac)
      BY <2>2 DEF Accept
    <3>2. PICK j \in SlotIds : Found(j, g.mac) /\ ~Newer(g, cache[j])
      BY <3>1 DEF AtMostOnce
    <3>3. g.epoch \in Nat /\ g.seq \in Nat
      BY <3>1, ReplayConstants DEF CacheTypeOK, OriginFrames
    <3>4. CASE j = i
      <4>1. g.mac = f.mac /\ Newer(f, cache[i])
        BY <3>1, <3>2, <3>4 DEF Found, Known
      <4>2. ~Newer(g, f)
        BY <4>1, <3>2, <3>3, <3>4, <1>1, <1>4 DEF Newer
      <4> QED
        BY <4>1, <4>2, <1>2, <1>7 DEF Found, Newer
    <3>5. CASE j # i
      BY <3>2, <3>5, <1>2 DEF Found
    <3> QED
      BY <3>4, <3>5
  <2> QED
    BY <2>1, <2>2
<1> QED
  BY <1>9, <1>10, <1>11

\* So does everything else.
LEMMA CacheInvStep == CacheInv /\ [CacheNext]_cacheVars => CacheInv'
<1> SUFFICES ASSUME CacheInv, [CacheNext]_cacheVars PROVE CacheInv'
  OBVIOUS
<1>1. CacheTypeOK' /\ OneSlotPerOrigin'
  BY CacheStep DEF CacheInv
<1>2. ASSUME NEW f \in sent, AcceptKnown(f) \/ AcceptInFreeSlot(f) \/ AcceptByEviction(f)
      PROVE  SlotsInv' /\ ForgottenInv' /\ AtMostOnce'
  <2>1. PICK i \in SlotIds :
           /\ Accept(i, f)
           /\ \/ Found(i, f.mac) /\ Newer(f, cache[i])
              \/ ~Known(f.mac) /\ (FirstUnused(i) \/ Oldest(i))
    BY <1>2, Zenon DEF AcceptKnown, AcceptInFreeSlot, AcceptByEviction
  <2> QED
    BY <2>1, AcceptKeepsInv
<1>3. ASSUME Reboot
      PROVE  SlotsInv' /\ ForgottenInv' /\ AtMostOnce'
  <2>1. \A i \in SlotIds : cache'[i] = Unused /\ ~cache'[i].used /\ cache'[i].mac = NoMac
    BY <1>3 DEF Reboot, Unused
  <2>2. \A o \in Origins : heardAt'[o] = Unheard
    BY <1>3 DEF Reboot
  <2>3. SlotsInv'
    BY <1>3, <2>1, <2>2 DEF Reboot, CacheInv, SlotsInv, Unheard, Newer
  <2> QED
    BY <1>3, <2>2, <2>3 DEF Reboot, ForgottenInv, AtMostOnce
<1>4. ASSUME NEW o \in Origins, OriginSends(o) \/ OriginBoots(o)
      PROVE  SlotsInv' /\ ForgottenInv' /\ AtMostOnce'
  <2>1. UNCHANGED <<cache, clock, accepted, heardAt>> /\ sent \subseteq sent'
    BY <1>4 DEF OriginSends, OriginBoots
  <2>2. ForgottenInv' /\ AtMostOnce'
    BY <2>1 DEF CacheInv, ForgottenInv, AtMostOnce, Known, Found, Newer
  <2>3. \A x \in Origins : origin[x].epoch \in Nat /\ origin[x].seq \in Nat
    BY ReplayConstants DEF CacheInv, CacheTypeOK
  <2>4. ASSUME NEW f \in sent' PROVE ~Newer(f, origin'[f.mac])
    <3>1. CASE OriginSends(o)
      <4>1. /\ origin'[o].epoch = origin[o].epoch /\ origin'[o].seq = origin[o].seq + 1
            /\ \A x \in Origins : x # o => origin'[x] = origin[x]
        BY <3>1 DEF OriginSends, CacheInv, CacheTypeOK
      <4>2. CASE f \in sent
        <5>1. f.mac \in Origins /\ f.epoch \in Nat /\ f.seq \in Nat /\ ~Newer(f, origin[f.mac])
          BY <4>2, ReplayConstants DEF CacheInv, CacheTypeOK, OriginFrames, SlotsInv
        <5> QED
          BY <4>1, <5>1, <2>3 DEF Newer
      <4>3. CASE f = [mac |-> o, epoch |-> origin[o].epoch, seq |-> origin[o].seq + 1]
        BY <4>1, <4>3, <2>3 DEF Newer
      <4> QED
        BY <3>1, <4>2, <4>3 DEF OriginSends
    <3>2. CASE OriginBoots(o)
      <4>1. /\ origin'[o].epoch = origin[o].epoch + 1
            /\ \A x \in Origins : x # o => origin'[x] = origin[x]
        BY <3>2 DEF OriginBoots, CacheInv, CacheTypeOK
      <4>2. f.mac \in Origins /\ f.epoch \in Nat /\ f.seq \in Nat /\ ~Newer(f, origin[f.mac])
        BY <3>2, ReplayConstants DEF OriginBoots, CacheInv, CacheTypeOK, OriginFrames, SlotsInv
      <4> QED
        BY <4>1, <4>2, <2>3 DEF Newer
    <3> QED
      BY <1>4, <3>1, <3>2
  <2> QED
    BY <2>1, <2>2, <2>4 DEF CacheInv, SlotsInv, Mark, Newer
<1>5. ASSUME ClockTicks
      PROVE  SlotsInv' /\ ForgottenInv' /\ AtMostOnce'
  <2>1. \A o \in Origins : heardAt[o] \in Int /\ heardAt[o] <= clock /\ clock \in Nat
    BY ReplayConstants DEF CacheInv, CacheTypeOK, ClockTimes, Unheard, SlotsInv
  <2> QED
    BY <1>5, <2>1 DEF ClockTicks, CacheInv, SlotsInv, ForgottenInv, AtMostOnce, Known, Found, Mark, Newer
<1>6. ASSUME UNCHANGED cacheVars
      PROVE  SlotsInv' /\ ForgottenInv' /\ AtMostOnce'
  BY <1>6 DEF cacheVars, CacheInv, SlotsInv, ForgottenInv, AtMostOnce, Known, Found, Mark, Newer
<1>7. SlotsInv' /\ ForgottenInv' /\ AtMostOnce'
  BY <1>2, <1>3, <1>4, <1>5, <1>6 DEF CacheNext, Receive, DropReplay
<1> QED
  BY <1>1, <1>7 DEF CacheInv

\* The table and its histories belong together in every reachable state.
THEOREM CacheInvariant == CacheSpec => []CacheInv
<1>1. CacheInit => CacheInv
  <2> SUFFICES ASSUME CacheInit PROVE CacheInv
    OBVIOUS
  <2>1. CacheTypeOK /\ OneSlotPerOrigin
    BY ReplayConstants DEF CacheInit, CacheTypeOK, OneSlotPerOrigin, Entries, OriginFrames, ClockTimes,
       SlotIds, Unused, Unheard
  <2>2. SlotsInv /\ ForgottenInv /\ AtMostOnce
    BY DEF CacheInit, SlotsInv, ForgottenInv, AtMostOnce, Unused, Unheard
  <2> QED
    BY <2>1, <2>2 DEF CacheInv
<1> QED
  BY <1>1, CacheInvStep, PTL DEF CacheSpec

\* While its origin stays in the table, no frame passes twice
\* (ReplayCache.h:35-36).
THEOREM PassesOnce == CacheSpec => []AtMostOnce
<1>1. CacheInv => AtMostOnce
  BY DEF CacheInv
<1> QED
  BY <1>1, CacheInvariant, PTL

\* The newest frame of an origin is never taken for a replay
\* (ReplayCache.h:49-63).
THEOREM NewestPasses == CacheSpec => []NewestNeverDropped
<1>1. CacheInv => NewestNeverDropped
  <2> SUFFICES ASSUME CacheInv, NEW f \in sent \ accepted,
                      f.epoch = origin[f.mac].epoch, f.seq = origin[f.mac].seq,
                      NEW i \in SlotIds, Found(i, f.mac)
               PROVE  Newer(f, cache[i])
    BY DEF NewestNeverDropped
  <2>1. /\ Mark(i) \in accepted /\ Mark(i) \in sent /\ ~Newer(Mark(i), origin[f.mac])
        /\ Mark(i).mac = f.mac
    BY DEF CacheInv, SlotsInv, Found, Mark
  <2>2. f # Mark(i) /\ f = [mac |-> f.mac, epoch |-> f.epoch, seq |-> f.seq]
    BY <2>1 DEF CacheInv, CacheTypeOK, OriginFrames
  <2>3. f.epoch \in Nat /\ f.seq \in Nat /\ cache[i].epoch \in Nat /\ cache[i].seq \in Nat
    BY ReplayConstants DEF CacheInv, CacheTypeOK, OriginFrames, Entries
  <2> QED
    BY <2>1, <2>2, <2>3 DEF Newer, Mark
<1> QED
  BY <1>1, CacheInvariant, PTL

\* To be forgotten, an origin has to be followed by as many others as the
\* table has slots (mac_table::evict_oldest_by_ts, ReplayCache.h:37-41).
THEOREM ForgettingNeedsOthers == CacheSpec => []ForgottenOnlyByLRU
<1>1. CacheInv => ForgottenOnlyByLRU
  <2> SUFFICES ASSUME CacheInv, NEW o \in Origins, heardAt[o] # Unheard, ~Known(o)
               PROVE  Cardinality({x \in Origins \ {o} : heardAt[x] >= heardAt[o]}) >= Slots
    BY DEF ForgottenOnlyByLRU
  <2> DEFINE T == {x \in Origins \ {o} : heardAt[x] >= heardAt[o]}
             m == [i \in SlotIds |-> cache[i].mac]
  <2>1. \A i \in SlotIds : /\ cache[i].used /\ cache[i].mac \in Origins
                           /\ heardAt[cache[i].mac] >= heardAt[o]
    BY DEF CacheInv, ForgottenInv, SlotsInv, Mark, CacheTypeOK, OriginFrames
  <2>2. m \in [SlotIds -> T]
    BY <2>1 DEF Known, Found
  <2>3. \A i, j \in SlotIds : m[i] = m[j] => i = j
    BY <2>1 DEF CacheInv, OneSlotPerOrigin
  <2>4. IsFiniteSet(T)
    BY ReplayConstants, FS_Subset
  <2>5. Cardinality(SlotIds) <= Cardinality(T)
    <3> HIDE DEF m, T
    <3>1. m \in Injection(SlotIds, T)
      BY <2>2, <2>3 DEF Injection, IsInjective
    <3> QED
      BY <3>1, <2>4, FS_Injection
  <2>6. Cardinality(SlotIds) = Slots /\ Cardinality(T) \in Nat
    BY <2>4, ReplayConstants, FS_Interval, FS_CardinalityType DEF SlotIds
  <2> QED
    BY <2>5, <2>6, ReplayConstants
<1> QED
  BY <1>1, CacheInvariant, PTL
=============================================================================
