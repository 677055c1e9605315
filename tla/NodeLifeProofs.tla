--------------------------- MODULE NodeLifeProofs ---------------------------
(***************************************************************************)
(* What a node keeps from reset to reset, for every registry size, every   *)
(* list of default peers, every cooldown and every number of resets.       *)
(***************************************************************************)
EXTENDS NodeLife, FiniteSetTheorems, TLAPS

-----------------------------------------------------------------------------
(***************************************************************************)
(* What a step of the node is to each of its parts.                        *)
(***************************************************************************)

\* To the boot state.
LEMMA BootSteps ==
    ASSUME NodeNext
    PROVE  \/ BootOrReset \/ SubsystemsUp \/ UNCHANGED vars
           \/ phase \in {"subsystems", "service"} /\ RestartDevice
           \/ phase = "check" /\ rebootCount' = 0 /\ UNCHANGED <<reason, phase, hangs>>
BY DEF NodeNext, BootStep, FailureRestarts, EraseNvs, Subsystems, GoesIntoService, Registration,
       JoinAck, AdapterLoop, SensorEdge, SensorHandler, Tick, StoreStep, PirStep, vars, history

\* To the sensor.
LEMMA SensorSteps ==
    ASSUME NodeNext
    PROVE  \/ Pir!LoseRam \/ Pir!Arming \/ Pir!Polling
           \/ Pir!Edge \/ Pir!Handler \/ Pir!Tick \/ UNCHANGED pirVars
BY DEF NodeNext, BootStep, FailureRestarts, EraseNvs, Subsystems, GoesIntoService, Registration,
       JoinAck, AdapterLoop, SensorEdge, SensorHandler, Tick, StoreStep, PirStep, LoseRam

\* To the store, and to what the node has shown of itself.
LEMMA StoreSteps ==
    ASSUME NodeNext
    PROVE  \/ Store!LoseRam /\ shown' = shown
           \/ phase = "check" /\ Store!Erase /\ shown' = {}
           \/ /\ phase = "subsystems" /\ phase' = phase /\ shown' = shown
              /\ Store!HasPeers \/ Store!SaveDefault \/ Store!SaveKeypair \/ Store!LoadState
           \/ /\ phase = "service" /\ phase' = phase /\ shown' = shown
              /\ Store!Register \/ Store!SaveSlot
           \/ /\ step = "ready" /\ phase' = "service" /\ shown' = shown \cup {pair}
              /\ UNCHANGED storeVars
           \/ /\ phase' \in {"check", "errors"} => phase \in {"check", "errors"}
              /\ UNCHANGED storeVars /\ shown' = shown
<1>1. CASE BootStep
  <2>1. CASE phase' = "check" /\ LoseRam
    BY <2>1 DEF LoseRam, own
  <2>2. CASE phase' # "check" /\ UNCHANGED <<pirVars, storeVars, own>>
    <3>1. phase' = "errors" => phase = "check"
      BY <1>1 DEF BootStep, BootOrReset, Check, RedLedFails, InitErrors, SubsystemsFail,
                  WatchdogFires, OtherReset, ManualReset, RestartDevice, Boots
    <3> QED
      BY <2>2, <3>1 DEF own
  <2> QED
    BY <1>1, <2>1, <2>2 DEF BootStep
<1>2. CASE FailureRestarts
  BY <1>2 DEF FailureRestarts, LoseRam, own
<1>3. CASE EraseNvs
  BY <1>3 DEF EraseNvs
<1>4. CASE Subsystems
  BY <1>4 DEF Subsystems, StoreStep, PirStep, own, vars
<1>5. CASE GoesIntoService
  BY <1>5 DEF GoesIntoService, SubsystemsUp
<1>6. CASE Registration
  BY <1>6 DEF Registration, StoreStep, own, vars
<1>7. CASE JoinAck \/ AdapterLoop \/ SensorEdge \/ SensorHandler \/ Tick
  BY <1>7 DEF JoinAck, AdapterLoop, SensorEdge, SensorHandler, Tick, PirStep, own, vars
<1> QED
  BY <1>1, <1>2, <1>3, <1>4, <1>5, <1>6, <1>7 DEF NodeNext

-----------------------------------------------------------------------------
(***************************************************************************)
(* The watchdog count.                                                     *)
(***************************************************************************)

\* The count is at most one more than the watchdog resets that came too early
\* for err_core::init; a boot that follows one of those or a boot that got into
\* service begins with no more than that many.
BootInv ==
    /\ rebootCount \in 0..255 /\ hangs \in Nat
    /\ rebootCount <= hangs + 1
    /\ phase = "check" /\ reason \in Watchdogs => rebootCount <= hangs
    /\ phase = "errors" /\ reason \notin Watchdogs => rebootCount = 0
    /\ phase \in {"subsystems", "service"} => rebootCount = 0
    /\ phase = "halted" => rebootCount >= WdtLimit

\* The count is a byte.
LEMMA CountByOne ==
    ASSUME NEW n \in 0..255 PROVE (n + 1) % 256 \in 0..255 /\ (n + 1) % 256 <= n + 1
<1>1. CASE n = 255
  <2>1. 256 % 256 = 0
    OBVIOUS
  <2> QED
    BY <1>1, <2>1
<1>2. CASE n # 255
  <2>1. n + 1 \in 0..255
    BY <1>2
  <2>2. (n + 1) % 256 = n + 1
    BY <2>1
  <2> QED
    BY <2>1, <2>2
<1> QED
  BY <1>1, <1>2

\* BootManager::check keeps the count in step with the hangs.
LEMMA CheckKeepsCount == ASSUME BootInv, Check PROVE BootInv'
<1>1. phase = "check" /\ reason' = reason
  BY DEF Check
<1>2. CASE reason \in Watchdogs
  <2>1. /\ rebootCount' = (rebootCount + 1) % 256 /\ hangs' = hangs
        /\ phase' = IF rebootCount' >= WdtLimit THEN "halted" ELSE "errors"
    BY <1>2 DEF Check, SaveRebootCount
  <2>2. rebootCount' \in 0..255 /\ rebootCount' <= rebootCount + 1
    BY <2>1, CountByOne DEF BootInv
  <2>3. rebootCount <= hangs
    BY <1>1, <1>2 DEF BootInv
  <2>4. phase' \in {"halted", "errors"} /\ (phase' = "halted" => rebootCount' >= WdtLimit)
    BY <2>1
  <2> QED
    BY <1>1, <1>2, <2>1, <2>2, <2>3, <2>4 DEF BootInv
<1>3. CASE reason \notin Watchdogs
  <2>1. 0 % 256 = 0
    OBVIOUS
  <2>2. rebootCount' = 0 /\ hangs' = 0 /\ phase' = "errors"
    BY <1>3, <2>1 DEF Check, SaveRebootCount
  <2> QED
    BY <2>2 DEF BootInv
<1> QED
  BY <1>2, <1>3

\* Every way into a reset leaves the count within the bound.
LEMMA ResetKeepsCount ==
    ASSUME BootInv, WatchdogFires \/ OtherReset \/ ManualReset \/ RestartDevice
    PROVE  BootInv'
<1>1. CASE WatchdogFires
  <2>1. /\ phase' = "check" /\ rebootCount' = rebootCount
        /\ \/ hangs' = hangs + 1
           \/ phase \in {"subsystems", "service"} /\ hangs' = hangs
    BY <1>1 DEF WatchdogFires, Boots
  <2> QED
    BY <2>1 DEF BootInv
<1>2. CASE OtherReset \/ ManualReset \/ RestartDevice
  <2>1. /\ phase' = "check" /\ reason' \in {"PANIC", "SW", "POWERON", "EXT"}
        /\ UNCHANGED <<rebootCount, hangs>>
    BY <1>2 DEF OtherReset, ManualReset, RestartDevice, Boots, history
  <2> QED
    BY <2>1 DEF BootInv, Watchdogs
<1> QED
  BY <1>1, <1>2

\* Only an expected reset gets past err_core::init.
LEMMA BootKeepsCount ==
    ASSUME BootInv, RedLedFails \/ InitErrors \/ SubsystemsFail \/ SubsystemsUp
    PROVE  BootInv'
<1>1. CASE RestartDevice
  BY <1>1, ResetKeepsCount
<1>2. CASE ~RestartDevice
  <2>1. /\ UNCHANGED <<reason, rebootCount, hangs>>
        /\ \/ phase' = "stuck"
           \/ phase = "errors" /\ reason \in Expected /\ phase' = "subsystems"
           \/ phase = "subsystems" /\ phase' = "service"
    BY <1>2 DEF RedLedFails, InitErrors, SubsystemsFail, SubsystemsUp, history
  <2> QED
    BY <2>1 DEF BootInv, Watchdogs, Expected
<1> QED
  BY <1>1, <1>2

\* In the whole node, with its store and its sensor, only hangs early in boot
\* add up to the halt of BootManager::check, whatever the limit (of two or
\* more): a watchdog reset that gets as far as err_core::init is answered with
\* a restart that clears the count (BootManager.h:15-30, ErrorCore.cpp:73-75).
THEOREM HaltOnlyByHangs == NodeSpec => []HaltNeedsHangs
<1>1. NodeInit => BootInv
  BY DEF NodeInit, Init, BootInv, Watchdogs
<1>2. BootInv /\ [NodeNext]_nodeVars => BootInv'
  <2> SUFFICES ASSUME BootInv, [NodeNext]_nodeVars PROVE BootInv'
    OBVIOUS
  <2>1. CASE UNCHANGED vars
    BY <2>1 DEF BootInv, vars
  <2>2. CASE phase = "check" /\ rebootCount' = 0 /\ UNCHANGED <<reason, phase, hangs>>
    BY <2>2 DEF BootInv
  <2> QED
    BY <2>1, <2>2, BootSteps, CheckKeepsCount, ResetKeepsCount, BootKeepsCount
    DEF BootOrReset, nodeVars
<1>3. BootInv => HaltNeedsHangs
  BY BootConstants DEF BootInv, HaltNeedsHangs
<1> QED
  BY <1>1, <1>2, <1>3, PTL DEF NodeSpec

-----------------------------------------------------------------------------
(***************************************************************************)
(* The motion sensor.                                                      *)
(***************************************************************************)

\* While the cooldown runs no motion is signalled, because the handler that
\* signalled the last one disables itself before time passes and the loop
\* enables it only when the cooldown is over.
CooldownInv ==
    /\ loop # "top" => /\ state = "IDLE" /\ isr = "idle"
                       /\ ~enabled /\ ~motion
    /\ state = "IDLE" => report > Cooldown
    /\ state = "COOLDOWN" => isr # "signal" /\ ~motion /\ trigger = report
    /\ state = "COOLDOWN" /\ isr = "disable" => report = 0
    /\ state = "COOLDOWN" /\ isr = "idle" => ~enabled
    /\ isr = "signal" => ~motion
    /\ isr = "idle" /\ motion => ~enabled

SensorInv == Pir!TypeOK /\ CooldownInv

\* The two ages at which a clock is set.
LEMMA AgesUsed ==
    /\ Cooldown \in Nat /\ 0 \in Pir!Ages /\ Cooldown + 1 \in Pir!Ages /\ Cooldown + 1 > Cooldown
    /\ Pir!Ages \subseteq Nat
BY NodeLifeConstants DEF Pir!Ages

LEMMA SensorStepKeeps == ASSUME SensorInv, NodeNext PROVE SensorInv'
<1> USE AgesUsed DEF SensorInv, Pir!TypeOK, CooldownInv
<1>1. CASE Pir!LoseRam
  <2>1. Pir!TypeOK'
    BY <1>1 DEF Pir!LoseRam
  <2>2. CooldownInv'
    BY <1>1 DEF Pir!LoseRam
  <2> QED
    BY <2>1, <2>2
<1>2. CASE Pir!Attach
  BY <1>2 DEF Pir!Attach
<1>3. CASE Pir!Enable
  BY <1>3 DEF Pir!Enable
<1>4. CASE Pir!ReportMotion
  <2>1. Pir!TypeOK'
    BY <1>4 DEF Pir!ReportMotion
  <2>2. CooldownInv'
    BY <1>4 DEF Pir!ReportMotion
  <2> QED
    BY <2>1, <2>2
<1>5. CASE Pir!CooldownOver
  BY <1>5 DEF Pir!CooldownOver
<1>6. CASE Pir!Edge
  BY <1>6 DEF Pir!Edge
<1>7. CASE Pir!Signal
  BY <1>7 DEF Pir!Signal
<1>8. CASE Pir!Disable
  BY <1>8 DEF Pir!Disable
<1>9. CASE Pir!Tick
  BY <1>9 DEF Pir!Tick, Pir!Older, Pir!Ages
<1>10. CASE UNCHANGED pirVars
  BY <1>10 DEF pirVars
<1> QED
  BY <1>1, <1>2, <1>3, <1>4, <1>5, <1>6, <1>7, <1>8, <1>9, <1>10, SensorSteps
     DEF Pir!Arming, Pir!Polling, Pir!Handler

\* The sensor's invariant holds of the node.
THEOREM SensorInvariant == NodeSpec => []SensorInv
<1>1. NodeInit => SensorInv
  <2> SUFFICES ASSUME Pir!Init PROVE SensorInv
    BY DEF NodeInit
  <2>1. Pir!TypeOK
    BY AgesUsed DEF Pir!Init, Pir!TypeOK
  <2>2. CooldownInv
    BY AgesUsed DEF Pir!Init, CooldownInv
  <2> QED
    BY <2>1, <2>2 DEF SensorInv
<1>2. SensorInv /\ [NodeNext]_nodeVars => SensorInv'
  <2>1. ASSUME SensorInv, UNCHANGED nodeVars PROVE SensorInv'
    BY <2>1 DEF SensorInv, CooldownInv, Pir!TypeOK, nodeVars, pirVars
  <2> QED
    BY <2>1, SensorStepKeeps
<1> QED
  BY <1>1, <1>2, PTL DEF NodeSpec

\* Two reports of one boot are more than the cooldown apart, however the
\* interrupt handler and the loop interleave and whatever the cooldown is
\* (PirAdapter.cpp:58-64, 99-109).
THEOREM MotionReportsSpaced == NodeSpec => ReportsSpaced
<1>1. SensorInv /\ [NodeNext]_nodeVars => [report' = 0 /\ report # 0 => report > Cooldown]_(Pir!vars)
  <2> SUFFICES ASSUME SensorInv, [NodeNext]_nodeVars, report' = 0, report # 0,
                      ~UNCHANGED Pir!vars
               PROVE  report > Cooldown
    OBVIOUS
  <2>1. ~UNCHANGED pirVars
    BY DEF pirVars, Pir!vars
  <2>2. \/ Pir!LoseRam \/ Pir!Arming \/ Pir!Polling
        \/ Pir!Edge \/ Pir!Handler \/ Pir!Tick
    BY <2>1, SensorSteps DEF nodeVars
  <2>3. CASE Pir!ReportMotion
    BY <2>3 DEF Pir!ReportMotion, SensorInv, CooldownInv, Pir!TypeOK
  <2>4. CASE Pir!LoseRam
    BY <2>4, NodeLifeConstants DEF Pir!LoseRam
  <2>5. CASE Pir!Tick
    BY <2>5, NodeLifeConstants DEF Pir!Tick, Pir!Older, SensorInv, Pir!TypeOK, Pir!Ages
  <2> QED
    BY <2>2, <2>3, <2>4, <2>5
       DEF Pir!Arming, Pir!Polling, Pir!Handler, Pir!Attach, Pir!Enable, Pir!CooldownOver, Pir!Edge,
           Pir!Signal, Pir!Disable
<1> QED
  BY <1>1, SensorInvariant, PTL DEF NodeSpec, ReportsSpaced, Pir!ReportsSpaced

-----------------------------------------------------------------------------
(***************************************************************************)
(* The key pair.                                                           *)
(***************************************************************************)

\* NVS holds a pair under its check sum.
Complete ==
    /\ nvsPair.priv = nvsPair.pub /\ nvsPair.priv # 0
    /\ nvsPair.crc = <<nvsPair.priv, nvsPair.pub>>

Kept == [priv |-> nvsPair.priv, pub |-> nvsPair.pub]

\* saveKeypair writes the check sum last and no pair is made once there is
\* one, so the check sum in NVS is never that of another pair; what the node
\* shows is what NVS holds.
PairInv ==
    /\ made \in Nat
    /\ {"priv", "pub", "crc"} \subseteq DOMAIN nvsPair
    /\ nvsPair.crc = <<0, 0>> \/ Complete
    /\ phase \in {"check", "errors"} => step = "start"
    /\ step \in {"priv", "pub", "crc"} =>
         nvsPair.crc = <<0, 0>> /\ pair = [priv |-> made, pub |-> made] /\ made # 0
    /\ step \in {"pub", "crc"} => nvsPair.priv = pair.priv
    /\ step = "crc" => nvsPair.pub = pair.pub
    /\ step \in {"ready", "save"} => Complete /\ pair = Kept
    /\ \A k \in shown : Complete /\ k = Kept

\* A check sum is set or not.
LEMMA ChecksumSet == Complete => nvsPair.crc # <<0, 0>>
BY DEF Complete

\* loadKeypair finds exactly a complete pair.
LEMMA LoadsComplete == ASSUME PairInv PROVE Store!LoadKeypair <=> Complete
<1>1. Complete => Store!LoadKeypair
  BY ChecksumSet DEF Complete, Store!LoadKeypair, Store!NoCrc
<1>2. Store!LoadKeypair => Complete
  BY DEF PairInv, Store!LoadKeypair, Store!NoCrc
<1> QED
  BY <1>1, <1>2

\* Steps that leave NVS and the pair alone.
LEMMA PairUntouched ==
    ASSUME PairInv, nvsPair' = nvsPair, pair' = pair, made' = made, shown' = shown,
           step' = step \/ (step' \in {"ready", "save"} /\ step \in {"ready", "save"})
                        \/ step' \in {"defaults", "load"},
           phase' = phase /\ phase \notin {"check", "errors"}
    PROVE  PairInv'
BY DEF PairInv, Complete, Kept

LEMMA PairStep == ASSUME PairInv, NodeNext PROVE PairInv'
<1> USE DEF PairInv
<1>1. CASE Store!LoseRam /\ shown' = shown
  BY <1>1 DEF Store!LoseRam, Complete, Kept
<1>2. CASE phase = "check" /\ Store!Erase /\ shown' = {}
  BY <1>2 DEF Store!Erase, Store!Blank, Store!NoCrc
<1>3. ASSUME phase = "subsystems", phase' = phase, shown' = shown,
             Store!HasPeers \/ Store!SaveDefault
      PROVE  PairInv'
  BY <1>3, PairUntouched DEF Store!HasPeers, Store!SaveDefault
<1>4. ASSUME phase = "service", phase' = phase, shown' = shown,
             Store!Register \/ Store!SaveSlot
      PROVE  PairInv'
  BY <1>4, PairUntouched DEF Store!Register, Store!KeepKey, Store!SetKey, Store!AddPeer,
                             Store!SaveSlot, Store!NextSlot
<1>5. ASSUME phase = "subsystems", phase' = phase, shown' = shown, Store!LoadState
      PROVE  PairInv'
  <2>1. nvsPair' = nvsPair
    BY <1>5 DEF Store!LoadState
  <2>2. CASE Store!LoadKeypair
    <3>1. Complete /\ pair' = Kept /\ step' = "ready" /\ made' = made
      BY <1>5, <2>2, LoadsComplete DEF Store!LoadState, Kept
    <3> QED
      BY <1>5, <2>1, <3>1 DEF Complete, Kept
  <2>3. CASE ~Store!LoadKeypair
    <3>1. made' = made + 1 /\ pair' = [priv |-> made', pub |-> made'] /\ step' = "priv"
      BY <1>5, <2>3 DEF Store!LoadState
    <3>2. made' \in Nat /\ made' # 0
      BY <3>1
    <3>3. ~Complete /\ nvsPair.crc = <<0, 0>> /\ shown = {}
      BY <2>3, LoadsComplete
    <3> QED
      BY <1>5, <2>1, <3>1, <3>2, <3>3
  <2> QED
    BY <2>2, <2>3
<1>6. ASSUME phase = "subsystems", phase' = phase, shown' = shown, Store!SaveKeypair
      PROVE  PairInv'
  <2>1. step \in {"priv", "pub", "crc"}
    BY <1>6 DEF Store!SaveKeypair, Store!SavePriv, Store!SavePub, Store!SaveCrc
  <2>2. nvsPair.crc = <<0, 0>> /\ shown = {}
    BY <2>1, ChecksumSet
  <2>3. CASE Store!SavePriv
    BY <1>6, <2>2, <2>3 DEF Store!SavePriv
  <2>4. CASE Store!SavePub
    BY <1>6, <2>2, <2>4 DEF Store!SavePub
  <2>5. CASE Store!SaveCrc
    <3>1. /\ nvsPair.priv = pair.priv /\ nvsPair.pub = pair.pub
          /\ pair.priv = pair.pub /\ pair.priv # 0
      BY <2>5 DEF Store!SaveCrc
    <3>2. /\ nvsPair'.priv = nvsPair.priv /\ nvsPair'.pub = nvsPair.pub
          /\ nvsPair'.crc = <<pair.priv, pair.pub>>
          /\ {"priv", "pub", "crc"} \subseteq DOMAIN nvsPair'
      BY <2>5 DEF Store!SaveCrc
    <3>3. Complete'
      BY <3>1, <3>2 DEF Complete
    <3>4. step' = "ready" /\ made' = made /\ pair' = pair /\ shown' = {}
      BY <1>6, <2>2, <2>5 DEF Store!SaveCrc
    <3>5. pair' = Kept'
      BY <2>5, <3>1, <3>2, <3>4 DEF Kept, Store!SaveCrc
    <3> QED
      BY <1>6, <3>2, <3>3, <3>4, <3>5
  <2> QED
    BY <1>6, <2>3, <2>4, <2>5 DEF Store!SaveKeypair
<1>7. CASE step = "ready" /\ phase' = "service" /\ shown' = shown \cup {pair} /\ UNCHANGED storeVars
  BY <1>7 DEF storeVars, Complete, Kept
<1>8. ASSUME phase' \in {"check", "errors"} => phase \in {"check", "errors"},
             UNCHANGED storeVars, shown' = shown
      PROVE  PairInv'
  BY <1>8 DEF storeVars, Complete, Kept
<1> QED
  BY <1>1, <1>2, <1>3, <1>4, <1>5, <1>6, <1>7, <1>8, StoreSteps

\* The key pair's invariant holds of the node.
THEOREM PairInvariant == NodeSpec => []PairInv
<1>1. NodeInit => PairInv
  BY DEF NodeInit, Init, Store!Init, Store!Blank, Store!NoCrc, PairInv
<1>2. PairInv /\ [NodeNext]_nodeVars => PairInv'
  <2>1. ASSUME PairInv, UNCHANGED nodeVars PROVE PairInv'
    BY <2>1 DEF PairInv, Complete, Kept, nodeVars, vars, storeVars, own
  <2> QED
    BY <2>1, PairStep
<1> QED
  BY <1>1, <1>2, PTL DEF NodeSpec

\* A node is known by one public key until NVS is erased, and what it loads is
\* a pair, wherever saveKeypair was cut short and however many pairs were made
\* on the way (Enrollment.cpp:40-48, EepromIdentity.cpp:8-45).
THEOREM IdentityKept == NodeSpec => []OneIdentity
<1>1. PairInv => OneIdentity
  BY DEF PairInv, Complete, Kept, OneIdentity
<1> QED
  BY <1>1, PairInvariant, PTL

-----------------------------------------------------------------------------
(***************************************************************************)
(* The peer registry.                                                      *)
(***************************************************************************)

\* The places of the members of a set of slots are 1, 2, ... without a gap,
\* each at most the slot itself.
LEMMA Places ==
    ASSUME NEW n \in Nat, NEW S, S \subseteq 1..n
    PROVE  LET P(s) == Cardinality({t \in S : t <= s})
           IN  /\ Cardinality(S) \in 0..n
               /\ \A s \in S : P(s) \in 1..Cardinality(S) /\ P(s) <= s
               /\ \A s, r \in S : P(s) = P(r) => s = r
               /\ \A i \in 1..Cardinality(S) : \E s \in S : P(s) = i
               /\ Cardinality(S) = 0 <=> S = {}
<1> DEFINE B(s) == {t \in S : t <= s}
           P(s) == Cardinality(B(s))
           c == Cardinality(S)
<1>1. IsFiniteSet(S) /\ c \in Nat /\ c <= n /\ (c = 0 <=> S = {})
  <2>1. IsFiniteSet(1..n) /\ Cardinality(1..n) = n
    BY FS_Interval
  <2>2. IsFiniteSet(S) /\ c <= n
    BY <2>1, FS_Subset
  <2>3. c \in Nat
    BY <2>2, FS_CardinalityType
  <2>4. c = 0 <=> S = {}
    BY <2>2, FS_EmptySet
  <2> QED
    BY <2>2, <2>3, <2>4
<1>2. ASSUME NEW s \in S
      PROVE  IsFiniteSet(B(s)) /\ P(s) \in Nat /\ P(s) <= c /\ P(s) <= s /\ P(s) # 0
  <2>1. B(s) \subseteq S /\ B(s) \subseteq 1..s /\ s \in B(s) /\ s \in Nat /\ s >= 1
    <3>1. \A t \in S : t \in Nat /\ t >= 1
      OBVIOUS
    <3>2. \A t \in S : t <= s => t \in 1..s
      BY <3>1
    <3>3. s \in Nat /\ s >= 1 /\ s <= s
      BY <3>1
    <3>4. B(s) \subseteq S /\ s \in B(s)
      BY <3>3
    <3>5. B(s) \subseteq 1..s
      BY <3>2, Zenon
    <3> QED
      BY <3>3, <3>4, <3>5
  <2>2. IsFiniteSet(B(s)) /\ P(s) <= c /\ P(s) \in Nat
    BY <1>1, <2>1, FS_Subset, FS_CardinalityType
  <2>3. IsFiniteSet(1..s) /\ Cardinality(1..s) = s
    BY <2>1, FS_Interval
  <2>4. P(s) <= s
    BY <2>1, <2>3, FS_Subset
  <2>5. P(s) # 0
    BY <2>1, <2>2, FS_EmptySet
  <2> QED
    BY <2>2, <2>4, <2>5
<1>3. ASSUME NEW s \in S, NEW r \in S, s < r PROVE P(s) # P(r)
  <2>1. B(s) \subseteq B(r) /\ r \in B(r) /\ r \notin B(s)
    <3>1. \A t \in S : t \in Nat
      OBVIOUS
    <3>2. \A t \in S : t <= s => t <= r
      BY <1>3, <3>1
    <3>3. r <= r /\ ~(r <= s)
      BY <1>3, <3>1
    <3> QED
      BY <3>2, <3>3
  <2>2. IsFiniteSet(B(r))
    BY <1>2
  <2> HIDE DEF B
  <2> QED
    BY <2>1, <2>2, FS_Subset
<1>4. ASSUME NEW s \in S, NEW r \in S, P(s) = P(r) PROVE s = r
  <2>1. s \in Nat /\ r \in Nat
    OBVIOUS
  <2>2. ~(s < r) /\ ~(r < s)
    BY <1>3, <1>4
  <2> QED
    BY <2>1, <2>2
<1>5. ASSUME NEW i \in 1..c PROVE \E s \in S : P(s) = i
  <2> DEFINE f == [s \in S |-> P(s)]
  <2>1. f \in [S -> 1..c]
    <3>1. ASSUME NEW s \in S PROVE P(s) \in 1..c
      BY <1>1, <1>2
    <3> HIDE DEF P, c
    <3> QED
      BY <3>1
  <2>2. \A s, r \in S : f[s] = f[r] => s = r
    <3> HIDE DEF P
    <3> QED
      BY <1>4
  <2> HIDE DEF f, P
  <2>3. f \in Injection(S, 1..c)
    BY <2>1, <2>2 DEF Injection, IsInjective
  <2>4. IsFiniteSet(1..c) /\ Cardinality(1..c) = c
    BY <1>1, FS_Interval
  <2>5. f \in Surjection(S, 1..c)
    BY <2>3, <2>4, FS_Injection
  <2>6. PICK s \in S : f[s] = i
    BY <2>5 DEF Surjection
  <2> QED
    BY <2>6 DEF f
<1>6. \A s \in S : P(s) \in 1..c /\ P(s) <= s
  BY <1>1, <1>2
<1> QED
  BY <1>1, <1>4, <1>5, <1>6

\* A record by which a registered board is still known, and a record whose key
\* can be taken for an established one.
Good(r, m) == r # NoRecord /\ r.mac = m /\ (r.key \in Keys \/ m = Defaults[1])
Valid(r) == r.mac \in Macs /\ r.key # Zero => r.key \in Keys \/ r.mac = Defaults[1]

InNvs(m) == \E s \in Store!Slots : Good(nvsPeers[s], m)

\* In the registry at i, and in NVS where a save that goes from the first slot
\* to the last has been already, or has not been yet.
AtPlace(m, i) ==
    /\ Good(peers[i], m)
    /\ \/ step = "save" /\ i < slot
       \/ \E s \in Store!Slots : s >= i /\ (step = "save" => s >= slot) /\ Good(nvsPeers[s], m)

LoadedSteps == {"priv", "pub", "crc", "ready", "save"}

RegTypes ==
    /\ nvsPeers \in [Store!Slots -> Store!Records \cup {NoRecord}]
    /\ peers \in Seq(Store!Records) /\ Len(peers) <= MaxPeers
    /\ slot \in Store!Slots /\ told \subseteq Macs

ValidInv ==
    /\ \A s \in Store!Slots : nvsPeers[s] # NoRecord => Valid(nvsPeers[s])
    /\ \A i \in 1..Len(peers) : Valid(peers[i])

ToldInv ==
    /\ step = "defaults" => told = {}
    /\ step \notin LoadedSteps => \A m \in told : InNvs(m)
    /\ step \in LoadedSteps => \A m \in told : \E i \in 1..Len(peers) : AtPlace(m, i)

\* What the registry holds is in NVS at the same slot or a later one; of a
\* save, the part that is done.
MirrorInv ==
    /\ step \in LoadedSteps \ {"save"} => \A i \in 1..Len(peers) :
         peers[i].key = Zero \/ \E s \in Store!Slots : s >= i /\ nvsPeers[s] = peers[i]
    /\ step = "save" => \A s \in Store!Slots : s < slot => nvsPeers[s] = Store!RecordAt(s)

RegInv == RegTypes /\ ValidInv /\ ToldInv /\ MirrorInv

\* The constants, as the proofs use them.
LEMMA RegConstants ==
    /\ MaxPeers \in Nat /\ MaxPeers >= 1 /\ 1 \in Store!Slots /\ Store!Slots = 1..MaxPeers
    /\ Defaults \in Seq(Macs) /\ Len(Defaults) \in Nat /\ Len(Defaults) <= MaxPeers
    /\ \A i \in 1..Len(Defaults) : Defaults[i] \in Macs
    /\ 1 \in 1..Len(Defaults)
    /\ Zero \notin Keys /\ JunkMac \notin Macs /\ BlankMac \notin Macs
    /\ NoRecord \notin Store!Records
    /\ Store!Records = [mac : Macs \cup {JunkMac, BlankMac}, key : Keys \cup {Zero, Junk}]
<1>1. /\ MaxPeers \in Nat /\ Defaults \in Seq(Macs) /\ Len(Defaults) \in 1..MaxPeers
      /\ Zero \notin Keys /\ JunkMac \notin Macs /\ BlankMac \notin Macs
  BY NodeLifeConstants
<1>2. NoRecord \notin Store!Records
  BY NodeLifeConstants, Zenon DEF Store!Records
<1>3. Store!Records = [mac : Macs \cup {JunkMac, BlankMac}, key : Keys \cup {Zero, Junk}]
  BY Zenon DEF Store!Records
<1>4. MaxPeers >= 1 /\ 1 \in 1..MaxPeers /\ 1 \in 1..Len(Defaults)
  BY <1>1
<1>5. Store!Slots = 1..MaxPeers
  BY DEF Store!Slots
<1>6. \A i \in 1..Len(Defaults) : Defaults[i] \in Macs
  BY <1>1
<1> QED
  BY <1>1, <1>2, <1>3, <1>4, <1>5, <1>6

\* The store's cardinality is cardinality.
LEMMA StoreCardinality == \A S : Store!Cardinality(S) = Cardinality(S)
BY Zenon DEF Store!Cardinality, Store!IsFiniteSet, Cardinality, IsFiniteSet

\* What loadFromEEPROM returns: records of NVS, none further down than its
\* slot, and every record that is not blank; or peers without a key.
LEMMA LoadedRecords ==
    ASSUME nvsPeers \in [Store!Slots -> Store!Records \cup {NoRecord}]
    PROVE  LET L == Store!LoadFromEEPROM
           IN  /\ L \in Seq(Store!Records) /\ Len(L) <= MaxPeers
               /\ \A i \in 1..Len(L) :
                    \/ L[i].key = Zero
                    \/ \E s \in Store!Slots : s >= i /\ nvsPeers[s] = L[i] /\ nvsPeers[s] # NoRecord
               /\ \A s \in Store!Slots : nvsPeers[s] # NoRecord /\ nvsPeers[s].mac # BlankMac =>
                    \E i \in 1..Len(L) : i <= s /\ L[i] = nvsPeers[s]
<1> DEFINE L == Store!LoadFromEEPROM
           O == Store!Occupied
           c == Store!Cardinality(O)
           P(s) == Store!Place(s)
<1>1. O \subseteq 1..MaxPeers /\ MaxPeers \in Nat
  BY RegConstants DEF Store!Occupied
<1>2. ASSUME NEW s \in O
      PROVE  s \in Store!Slots /\ nvsPeers[s] # NoRecord /\ nvsPeers[s].mac # BlankMac
             /\ nvsPeers[s] \in Store!Records
  BY <1>2 DEF Store!Occupied
<1>3. ASSUME NEW s \in Store!Slots, nvsPeers[s] # NoRecord, nvsPeers[s].mac # BlankMac
      PROVE  s \in O
  BY <1>3 DEF Store!Occupied
<1>4. /\ L = IF O # {} THEN [i \in 1..c |-> nvsPeers[CHOOSE s \in O : P(s) = i]]
             ELSE [i \in 1..Len(Defaults) |-> [mac |-> Defaults[i], key |-> Zero]]
  BY Zenon DEF Store!LoadFromEEPROM
<1> HIDE DEF O, L
<1>5. /\ c \in 0..MaxPeers
      /\ \A s \in O : P(s) \in 1..c /\ P(s) <= s
      /\ \A s, r \in O : P(s) = P(r) => s = r
      /\ \A i \in 1..c : \E s \in O : P(s) = i
      /\ c = 0 <=> O = {}
  <2>1. c = Cardinality(O) /\ \A s : P(s) = Cardinality({t \in O : t <= s})
    BY StoreCardinality, Zenon DEF Store!Place, O
  <2>2. /\ Cardinality(O) \in 0..MaxPeers
        /\ \A s \in O : /\ Cardinality({t \in O : t <= s}) \in 1..Cardinality(O)
                       /\ Cardinality({t \in O : t <= s}) <= s
        /\ \A s, r \in O :
             Cardinality({t \in O : t <= s}) = Cardinality({t \in O : t <= r}) => s = r
        /\ \A i \in 1..Cardinality(O) : \E s \in O : Cardinality({t \in O : t <= s}) = i
        /\ Cardinality(O) = 0 <=> O = {}
    BY <1>1, Places
  <2> HIDE DEF P, c
  <2> QED
    BY <2>1, <2>2, Zenon
<1> HIDE DEF P, c
<1>6. CASE O # {}
  <2>1. ASSUME NEW i \in 1..c
        PROVE  \E s \in O : P(s) = i /\ i <= s /\ L[i] = nvsPeers[s]
    <3>1. PICK s \in O : s = CHOOSE r \in O : P(r) = i
      BY <1>5
    <3>2. P(s) = i
      BY <1>5, <3>1
    <3>3. L[i] = nvsPeers[s]
      BY <1>4, <1>6, <3>1
    <3> QED
      BY <1>5, <3>2, <3>3
  <2>2. \A i \in 1..c : L[i] \in Store!Records
    BY <1>2, <2>1
  <2>3. L = [i \in 1..c |-> L[i]] /\ c \in Nat
    BY <1>4, <1>5, <1>6
  <2>4. L \in Seq(Store!Records) /\ Len(L) = c
    BY <2>2, <2>3
  <2>5. ASSUME NEW s \in O PROVE \E i \in 1..c : i <= s /\ L[i] = nvsPeers[s]
    <3>1. P(s) \in 1..c /\ P(s) <= s
      BY <1>5
    <3>2. PICK r \in O : P(r) = P(s) /\ L[P(s)] = nvsPeers[r]
      BY <2>1, <3>1
    <3>3. r = s
      BY <1>5, <3>2
    <3> QED
      BY <3>1, <3>2, <3>3
  <2>6. c <= MaxPeers
    BY <1>5
  <2>7. ASSUME NEW i \in 1..c
        PROVE  \E s \in Store!Slots : s >= i /\ nvsPeers[s] = L[i] /\ nvsPeers[s] # NoRecord
    <3>1. PICK s \in O : i <= s /\ L[i] = nvsPeers[s]
      BY <2>1
    <3>2. s \in Store!Slots /\ nvsPeers[s] # NoRecord /\ s >= i
      BY <1>1, <1>2, <3>1
    <3> QED
      BY <3>1, <3>2
  <2> QED
    BY <1>3, <2>4, <2>5, <2>6, <2>7 DEF L
<1>7. CASE O = {}
  <2>1. L = [i \in 1..Len(Defaults) |-> [mac |-> Defaults[i], key |-> Zero]]
    BY <1>4, <1>7
  <2>2. \A i \in 1..Len(Defaults) : [mac |-> Defaults[i], key |-> Zero] \in Store!Records
    BY RegConstants
  <2>3. L \in Seq(Store!Records) /\ Len(L) = Len(Defaults)
    BY <2>1, <2>2, RegConstants
  <2>4. \A i \in 1..Len(L) : L[i].key = Zero
    BY <2>1, <2>3
  <2>5. Len(L) <= MaxPeers
    BY <2>3, RegConstants
  <2> QED
    BY <1>3, <1>7, <2>3, <2>4, <2>5 DEF L
<1> QED
  BY <1>6, <1>7

\* Whatever the node is doing, NVS has every board it reported as registered.
LEMMA ToldStaysInNvs == ASSUME RegInv PROVE \A m \in told : InNvs(m)
<1> SUFFICES ASSUME NEW m \in told PROVE InNvs(m)
  OBVIOUS
<1>1. CASE step \notin LoadedSteps
  BY <1>1 DEF RegInv, ToldInv
<1>2. CASE step \in LoadedSteps
  <2>1. PICK i \in 1..Len(peers) : AtPlace(m, i)
    BY <1>2 DEF RegInv, ToldInv
  <2>2. CASE step = "save" /\ i < slot
    <3>1. i \in Store!Slots /\ i <= Len(peers)
      BY RegConstants DEF RegInv, RegTypes
    <3>2. nvsPeers[i] = peers[i]
      BY <2>2, <3>1 DEF RegInv, MirrorInv, Store!RecordAt
    <3> QED
      BY <2>1, <3>1, <3>2 DEF AtPlace, InNvs
  <2>3. CASE ~(step = "save" /\ i < slot)
    BY <2>1, <2>3 DEF AtPlace, InNvs
  <2> QED
    BY <2>2, <2>3
<1> QED
  BY <1>1, <1>2

\* A reset between any two steps (LoseRam).
LEMMA ResetKeepsPeers == ASSUME RegInv, Store!LoseRam PROVE RegInv'
<1>1. /\ nvsPeers' = nvsPeers /\ told' = told /\ peers' = << >> /\ step' = "start" /\ slot' = 1
  BY DEF Store!LoseRam
<1>2. << >> \in Seq(Store!Records) /\ Len(<< >>) = 0 /\ \A i \in 1..0 : FALSE
  OBVIOUS
<1>3. RegTypes'
  BY <1>1, <1>2, RegConstants DEF RegInv, RegTypes
<1>4. ValidInv'
  BY <1>1, <1>2 DEF RegInv, ValidInv
<1>5. ToldInv'
  <2>1. \A m \in told' : InNvs(m)'
    BY <1>1, ToldStaysInNvs DEF InNvs
  <2> QED
    BY <1>1, <2>1 DEF ToldInv, LoadedSteps
<1>6. MirrorInv'
  BY <1>1 DEF MirrorInv, LoadedSteps
<1> QED
  BY <1>3, <1>4, <1>5, <1>6 DEF RegInv

\* nvs_flash_erase, at boot.
LEMMA EraseKeepsPeers == ASSUME RegInv, Store!Erase, step = "start" PROVE RegInv'
<1>1. /\ nvsPeers' = [s \in Store!Slots |-> NoRecord] /\ told' = {}
      /\ peers' = peers /\ step' = "start" /\ slot' = slot
  BY DEF Store!Erase
<1>2. RegTypes'
  BY <1>1 DEF RegInv, RegTypes
<1>3. ValidInv'
  BY <1>1 DEF RegInv, ValidInv
<1>4. ToldInv' /\ MirrorInv'
  BY <1>1 DEF ToldInv, MirrorInv, LoadedSteps
<1> QED
  BY <1>2, <1>3, <1>4 DEF RegInv

\* initSubsystems: the default peers are for an empty store.
LEMMA DefaultsKeepPeers ==
    ASSUME RegInv, Store!HasPeers \/ Store!SaveDefault PROVE RegInv'
<1>1. CASE Store!HasPeers
  <2>1. /\ nvsPeers' = nvsPeers /\ told' = told /\ peers' = peers /\ slot' = slot
        /\ step = "start" /\ step' \in {"load", "defaults"}
    BY <1>1 DEF Store!HasPeers
  <2>2. step' = "defaults" => told = {}
    <3>1. step' = "defaults" => \A s \in Store!Slots : nvsPeers[s] = NoRecord
      BY <1>1 DEF Store!HasPeers
    <3> QED
      BY <3>1, ToldStaysInNvs DEF InNvs, Good
  <2>3. RegTypes' /\ ValidInv' /\ MirrorInv'
    BY <2>1 DEF RegInv, RegTypes, ValidInv, MirrorInv, LoadedSteps
  <2>4. ToldInv'
    <3>1. \A m \in told' : InNvs(m)'
      BY <2>1, ToldStaysInNvs DEF InNvs
    <3> QED
      BY <2>1, <2>2, <3>1 DEF ToldInv, LoadedSteps
  <2> QED
    BY <2>3, <2>4 DEF RegInv
<1>2. CASE Store!SaveDefault
  <2>1. PICK r \in Store!DefaultRecords(slot) : nvsPeers' = [nvsPeers EXCEPT ![slot] = r]
    BY <1>2 DEF Store!SaveDefault
  <2>2. told' = {} /\ told = {} /\ peers' = peers /\ step = "defaults" /\ step' \in {"defaults", "load"}
    BY <1>2 DEF Store!SaveDefault, RegInv, ToldInv
  <2>3. r \in Store!Records /\ Valid(r)
    <3>1. CASE slot = 1
      <4>1. r \in [mac : {Defaults[1]}, key : IF Len(Defaults) > 1 THEN {Junk} ELSE {Zero, Junk}]
        BY <3>1 DEF Store!DefaultRecords
      <4>2. r.mac = Defaults[1]
        BY <4>1
      <4>3. r \in [mac : {Defaults[1]}, key : {Zero, Junk}]
        BY <4>1
      <4> QED
        BY <4>2, <4>3, RegConstants DEF Valid
    <3>2. CASE slot # 1
      <4>1. r \in [mac : {JunkMac, BlankMac}, key : {Zero, Junk}]
        BY <3>2 DEF Store!DefaultRecords
      <4> QED
        BY <4>1, RegConstants DEF Valid
    <3> QED
      BY <3>1, <3>2
  <2>4. slot' \in Store!Slots
    BY <1>2, RegConstants DEF Store!SaveDefault, RegInv, RegTypes
  <2>5. RegTypes'
    BY <2>1, <2>2, <2>3, <2>4 DEF RegInv, RegTypes
  <2>6. ValidInv'
    BY <2>1, <2>2, <2>3 DEF RegInv, RegTypes, ValidInv
  <2>7. ToldInv' /\ MirrorInv'
    BY <2>2 DEF ToldInv, MirrorInv, LoadedSteps
  <2> QED
    BY <2>5, <2>6, <2>7 DEF RegInv
<1> QED
  BY <1>1, <1>2

\* Mesh::loadPersistentState: the registry is what NVS holds.
LEMMA LoadKeepsPeers == ASSUME RegInv, Store!LoadState PROVE RegInv'
<1>1. /\ nvsPeers' = nvsPeers /\ told' = told /\ slot' = slot /\ step = "load"
      /\ step' \in {"ready", "priv"} /\ peers' = Store!LoadFromEEPROM
  BY DEF Store!LoadState
<1>2. /\ peers' \in Seq(Store!Records) /\ Len(peers') <= MaxPeers
      /\ \A i \in 1..Len(peers') :
           \/ peers'[i].key = Zero
           \/ \E s \in Store!Slots : s >= i /\ nvsPeers[s] = peers'[i] /\ nvsPeers[s] # NoRecord
      /\ \A s \in Store!Slots : nvsPeers[s] # NoRecord /\ nvsPeers[s].mac # BlankMac =>
           \E i \in 1..Len(peers') : i <= s /\ peers'[i] = nvsPeers[s]
  BY <1>1, LoadedRecords DEF RegInv, RegTypes
<1>3. RegTypes'
  BY <1>1, <1>2 DEF RegInv, RegTypes
<1>4. ValidInv'
  BY <1>1, <1>2 DEF RegInv, ValidInv, Valid
<1>5. ToldInv'
  <2>1. ASSUME NEW m \in told PROVE \E i \in 1..Len(peers') : AtPlace(m, i)'
    <3>1. PICK s \in Store!Slots : Good(nvsPeers[s], m)
      BY ToldStaysInNvs DEF InNvs
    <3>2. m # BlankMac
      BY RegConstants DEF RegInv, RegTypes
    <3>3. PICK i \in 1..Len(peers') : i <= s /\ peers'[i] = nvsPeers[s]
      BY <1>2, <3>1, <3>2 DEF Good
    <3>4. Good(peers'[i], m) /\ s >= i /\ Good(nvsPeers'[s], m)
      BY <1>1, <3>1, <3>3, RegConstants
    <3> QED
      BY <1>1, <3>4 DEF AtPlace, Good
  <2> QED
    BY <1>1, <2>1 DEF ToldInv, LoadedSteps
<1>6. MirrorInv'
  BY <1>1, <1>2 DEF MirrorInv, LoadedSteps
<1> QED
  BY <1>3, <1>4, <1>5, <1>6 DEF RegInv

\* Steps that change neither the registry nor its records.
LEMMA PeersUntouched ==
    ASSUME RegInv, nvsPeers' = nvsPeers, told' = told, peers' = peers, slot' = slot,
           step' = step \/ {step, step'} \subseteq LoadedSteps \ {"save"}
    PROVE  RegInv'
<1>1. RegTypes' /\ ValidInv'
  BY DEF RegInv, RegTypes, ValidInv
<1>2. \A m : InNvs(m)' <=> InNvs(m)
  BY DEF InNvs
<1>3. \A m, i : AtPlace(m, i)' <=> AtPlace(m, i)
  BY DEF AtPlace
<1>4. ToldInv'
  BY <1>2, <1>3 DEF RegInv, ToldInv, LoadedSteps
<1>5. MirrorInv'
  BY DEF RegInv, MirrorInv, LoadedSteps, Store!RecordAt
<1> QED
  BY <1>1, <1>4, <1>5 DEF RegInv

\* registerPeerWithKey for a board with an established key: it is in NVS.
LEMMA KeepKeyKeepsPeers ==
    ASSUME RegInv, NEW m \in Macs, NEW rekey \in BOOLEAN, Store!KeepKey(m, rekey) PROVE RegInv'
<1>1. /\ nvsPeers' = nvsPeers /\ peers' = peers /\ slot' = slot /\ told' = told \cup {m}
      /\ step = "ready" /\ step' = "ready"
  BY DEF Store!KeepKey
<1>2. PICK i \in 1..Len(peers) : peers[i].mac = m /\ peers[i].key # Zero
  BY DEF Store!KeepKey, Store!At
<1>3. AtPlace(m, i)
  <2>1. PICK s \in Store!Slots : s >= i /\ nvsPeers[s] = peers[i]
    BY <1>1, <1>2 DEF RegInv, MirrorInv, LoadedSteps
  <2>2. peers[i] \in Store!Records
    BY DEF RegInv, RegTypes
  <2>3. Good(peers[i], m)
    BY <1>2, <2>2, RegConstants DEF RegInv, ValidInv, Valid, Good
  <2> QED
    BY <1>1, <2>1, <2>3 DEF AtPlace
<1>4. RegTypes' /\ ValidInv' /\ MirrorInv'
  BY <1>1 DEF RegInv, RegTypes, ValidInv, MirrorInv, LoadedSteps
<1>5. \A n, j : AtPlace(n, j)' <=> AtPlace(n, j)
  BY <1>1 DEF AtPlace
<1>6. ToldInv'
  BY <1>1, <1>2, <1>3, <1>5 DEF RegInv, ToldInv, LoadedSteps
<1> QED
  BY <1>4, <1>6 DEF RegInv

\* A save begins: the registry has changed at places where no registered board
\* was lost, and NVS is as it was.
LEMMA SaveBegins ==
    ASSUME RegInv, step = "ready", step' = "save", slot' = 1,
           nvsPeers' = nvsPeers, told' = told,
           peers' \in Seq(Store!Records), Len(peers') <= MaxPeers,
           \A i \in 1..Len(peers') : Valid(peers'[i]),
           \A i \in 1..Len(peers) : /\ i \in 1..Len(peers')
                                    /\ \A m \in told : Good(peers[i], m) => Good(peers'[i], m)
    PROVE  RegInv'
<1>1. RegTypes' /\ ValidInv'
  BY RegConstants DEF RegInv, RegTypes, ValidInv
<1>2. MirrorInv'
  BY RegConstants DEF MirrorInv
<1>3. ASSUME NEW m \in told PROVE \E i \in 1..Len(peers') : AtPlace(m, i)'
  <2>1. PICK i \in 1..Len(peers) : AtPlace(m, i)
    BY DEF RegInv, ToldInv, LoadedSteps
  <2>2. PICK s \in Store!Slots : s >= i /\ Good(nvsPeers[s], m)
    BY <2>1 DEF AtPlace
  <2>3. i \in 1..Len(peers') /\ Good(peers'[i], m)
    BY <2>1 DEF AtPlace
  <2>4. s >= slot'
    BY RegConstants
  <2> QED
    BY <2>2, <2>3, <2>4 DEF AtPlace, Good
<1>4. ToldInv'
  BY <1>3 DEF ToldInv, LoadedSteps
<1> QED
  BY <1>1, <1>2, <1>4 DEF RegInv

\* registerPeerWithKey: a new key for a known board, or a new board.
LEMMA SetKeyKeepsPeers ==
    ASSUME RegInv, NEW m \in Macs, NEW k \in Keys, NEW rekey \in BOOLEAN, Store!SetKey(m, k, rekey)
    PROVE  RegInv'
<1>1. /\ nvsPeers' = nvsPeers /\ slot' = 1 /\ told' = told /\ step = "ready" /\ step' = "save"
  BY DEF Store!SetKey
<1>2. PICK i \in 1..Len(peers) : peers' = [peers EXCEPT ![i].key = k]
  BY DEF Store!SetKey, Store!At
<1>3. peers \in Seq(Store!Records) /\ \A j \in 1..Len(peers) : peers[j] \in Store!Records
  BY DEF RegInv, RegTypes
<1>4. PICK r : r = [peers[i] EXCEPT !.key = k]
  OBVIOUS
<1>5. r \in Store!Records /\ r.mac = peers[i].mac /\ r.key = k
  BY <1>3, <1>4, RegConstants
<1>6. peers' = [peers EXCEPT ![i] = r]
  BY <1>2, <1>4
<1>7. /\ peers' \in Seq(Store!Records) /\ Len(peers') = Len(peers)
      /\ \A j \in 1..Len(peers) : peers'[j] = IF j = i THEN r ELSE peers[j]
  BY <1>3, <1>5, <1>6
<1>8. Valid(r) /\ \A n \in told : Good(peers[i], n) => Good(r, n)
  BY <1>5, RegConstants DEF Valid, Good
<1>9. \A j \in 1..Len(peers') : Valid(peers'[j])
  BY <1>7, <1>8 DEF RegInv, ValidInv
<1>10. Len(peers') <= MaxPeers
  BY <1>7 DEF RegInv, RegTypes
<1>11. \A j \in 1..Len(peers) : /\ j \in 1..Len(peers')
                                /\ \A n \in told : Good(peers[j], n) => Good(peers'[j], n)
  BY <1>7, <1>8
<1> QED
  BY <1>1, <1>7, <1>9, <1>10, <1>11, SaveBegins

LEMMA AddPeerKeepsPeers ==
    ASSUME RegInv, NEW m \in Macs, NEW k \in Keys, Store!AddPeer(m, k) PROVE RegInv'
<1>1. /\ nvsPeers' = nvsPeers /\ slot' = 1 /\ told' = told /\ step = "ready" /\ step' = "save"
      /\ Len(peers) < MaxPeers
  BY DEF Store!AddPeer
<1>2. PICK r : r = [mac |-> m, key |-> k]
  OBVIOUS
<1>3. r \in Store!Records /\ Valid(r)
  BY <1>2, RegConstants DEF Valid
<1>4. peers' = Append(peers, r) /\ peers \in Seq(Store!Records)
  BY <1>2 DEF Store!AddPeer, RegInv, RegTypes
<1>5. /\ peers' \in Seq(Store!Records) /\ Len(peers') = Len(peers) + 1
      /\ \A j \in 1..Len(peers) : peers'[j] = peers[j]
      /\ peers'[Len(peers) + 1] = r
  BY <1>3, <1>4
<1>6. Len(peers') <= MaxPeers
  BY <1>1, <1>4, <1>5, RegConstants
<1>7. ASSUME NEW j \in 1..Len(peers') PROVE Valid(peers'[j])
  <2>1. CASE j = Len(peers) + 1
    BY <1>3, <1>5, <2>1
  <2>2. CASE j # Len(peers) + 1
    <3>1. j \in 1..Len(peers)
      BY <1>4, <1>5, <2>2
    <3> QED
      BY <1>5, <3>1 DEF RegInv, ValidInv
  <2> QED
    BY <2>1, <2>2
<1>8. \A j \in 1..Len(peers) : /\ j \in 1..Len(peers')
                               /\ \A n \in told : Good(peers[j], n) => Good(peers'[j], n)
  BY <1>4, <1>5
<1> QED
  BY <1>1, <1>5, <1>6, <1>7, <1>8, SaveBegins

\* saveToEEPROM, one slot: a board's old record goes only once its new one is
\* written.
LEMMA SaveSlotKeepsPeers == ASSUME RegInv, Store!SaveSlot PROVE RegInv'
<1>1. /\ nvsPeers' = [nvsPeers EXCEPT ![slot] = Store!RecordAt(slot)] /\ peers' = peers
      /\ step = "save"
  BY DEF Store!SaveSlot
<1>2. /\ peers \in Seq(Store!Records) /\ Len(peers) \in Nat /\ Len(peers) <= MaxPeers
      /\ slot \in Store!Slots /\ slot \in 1..MaxPeers
      /\ nvsPeers \in [Store!Slots -> Store!Records \cup {NoRecord}]
      /\ \A i \in 1..Len(peers) : i \in Store!Slots /\ peers[i] \in Store!Records
  <2>1. /\ peers \in Seq(Store!Records) /\ Len(peers) <= MaxPeers /\ slot \in Store!Slots
        /\ nvsPeers \in [Store!Slots -> Store!Records \cup {NoRecord}]
    BY DEF RegInv, RegTypes
  <2>2. MaxPeers \in Nat /\ Store!Slots = 1..MaxPeers
    BY RegConstants
  <2>3. Len(peers) \in Nat /\ \A i \in 1..Len(peers) : peers[i] \in Store!Records
    BY <2>1
  <2>4. \A i \in 1..Len(peers) : i \in 1..MaxPeers
    BY <2>1, <2>2, <2>3
  <2> QED
    BY <2>1, <2>2, <2>3, <2>4
<1>3. \A i \in 1..Len(peers) : Store!RecordAt(i) = peers[i]
  BY <1>2 DEF Store!RecordAt
<1>4. \A s \in Store!Slots : Store!RecordAt(s) = NoRecord \/ s \in 1..Len(peers)
  BY <1>2, RegConstants DEF Store!RecordAt
<1>5. /\ nvsPeers' \in [Store!Slots -> Store!Records \cup {NoRecord}]
      /\ \A s \in Store!Slots : nvsPeers'[s] = IF s = slot THEN Store!RecordAt(s) ELSE nvsPeers[s]
  BY <1>1, <1>2, <1>3, <1>4
<1>6. ValidInv'
  BY <1>1, <1>3, <1>4, <1>5 DEF RegInv, ValidInv
<1>7. ASSUME NEW s \in Store!Slots, s <= slot PROVE nvsPeers'[s] = Store!RecordAt(s)
  <2>1. CASE s = slot
    BY <1>5, <2>1
  <2>2. CASE s # slot
    <3>1. s < slot
      BY <1>7, <2>2, RegConstants, <1>2
    <3> QED
      BY <1>1, <1>5, <2>2, <3>1 DEF RegInv, MirrorInv
  <2> QED
    BY <2>1, <2>2
<1>8. CASE slot < MaxPeers
  <2>1. slot' = slot + 1 /\ step' = "save" /\ told' = told
    BY <1>1, <1>8 DEF Store!SaveSlot, Store!NextSlot
  <2>2. slot' \in Store!Slots
    BY <1>2, <1>8, <2>1, RegConstants
  <2>3. RegTypes'
    BY <1>1, <1>5, <2>1, <2>2 DEF RegInv, RegTypes
  <2>4. MirrorInv'
    <3>1. ASSUME NEW s \in Store!Slots, s < slot' PROVE nvsPeers'[s] = Store!RecordAt(s)
      <4>1. s <= slot
        BY <1>2, <2>1, <3>1, RegConstants
      <4> QED
        BY <1>7, <4>1
    <3> QED
      BY <1>1, <2>1, <3>1 DEF MirrorInv, Store!RecordAt
  <2>5. ASSUME NEW m \in told PROVE \E i \in 1..Len(peers') : AtPlace(m, i)'
    <3>1. PICK i \in 1..Len(peers) : AtPlace(m, i)
      BY <1>1 DEF RegInv, ToldInv, LoadedSteps
    <3>2. Good(peers'[i], m)
      BY <1>1, <3>1 DEF AtPlace
    <3>3. CASE i <= slot
      <4>1. i < slot'
        BY <1>2, <2>1, <3>3
      <4> QED
        BY <1>1, <2>1, <3>2, <4>1 DEF AtPlace, Good
    <3>4. CASE ~(i <= slot)
      <4>1. i \in Nat /\ slot \in Nat /\ i > slot
        BY <1>2, <3>4
      <4>2. PICK s \in Store!Slots : s >= i /\ Good(nvsPeers[s], m)
        BY <3>1, <4>1 DEF AtPlace
      <4>3. s # slot /\ s >= slot'
        BY <2>1, <4>1, <4>2, RegConstants
      <4>4. Good(nvsPeers'[s], m)
        BY <1>5, <4>2, <4>3
      <4> QED
        BY <1>1, <2>1, <3>2, <4>2, <4>3, <4>4 DEF AtPlace, Good
    <3> QED
      BY <3>3, <3>4
  <2>6. ToldInv'
    BY <2>1, <2>5 DEF ToldInv, LoadedSteps
  <2> QED
    BY <1>6, <2>3, <2>4, <2>6 DEF RegInv
<1>9. CASE ~(slot < MaxPeers)
  <2>1. slot' = 1 /\ step' = "ready" /\ told' = told \cup Store!Keyed
    BY <1>1, <1>9 DEF Store!SaveSlot, Store!NextSlot
  <2>2. slot = MaxPeers
    BY <1>2, <1>9, RegConstants
  <2>3. \A i \in 1..Len(peers) : i \in Store!Slots /\ i >= i /\ nvsPeers'[i] = peers[i]
    <3>1. \A i \in 1..Len(peers) : i \in Store!Slots /\ i <= slot /\ i >= i
      BY <1>2, <2>2
    <3> QED
      BY <1>3, <1>7, <3>1
  <2>4. Store!Keyed \subseteq Macs
    BY DEF Store!Keyed
  <2>5. RegTypes'
    BY <1>1, <1>5, <2>1, <2>4, RegConstants DEF RegInv, RegTypes
  <2>6. MirrorInv'
    BY <1>1, <2>1, <2>3 DEF MirrorInv
  <2>7. ASSUME NEW m \in told' PROVE \E i \in 1..Len(peers') : AtPlace(m, i)'
    <3>1. PICK i \in 1..Len(peers) : Good(peers[i], m)
      <4>1. CASE m \in told
        BY <1>1, <4>1 DEF RegInv, ToldInv, LoadedSteps, AtPlace
      <4>2. CASE m \in Store!Keyed
        <5>1. PICK i \in 1..Len(peers) : peers[i].mac = m /\ peers[i].key \in Keys
          BY <4>2 DEF Store!Keyed, Store!At
        <5> QED
          BY <1>2, <5>1, RegConstants DEF Good
      <4> QED
        BY <2>1, <4>1, <4>2
    <3>2. i \in Store!Slots /\ i >= i /\ Good(nvsPeers'[i], m)
      BY <2>3, <3>1
    <3> QED
      BY <1>1, <2>1, <3>1, <3>2 DEF AtPlace, Good
  <2>8. ToldInv'
    BY <2>1, <2>7 DEF ToldInv, LoadedSteps
  <2> QED
    BY <1>6, <2>5, <2>6, <2>8 DEF RegInv
<1> QED
  BY <1>8, <1>9

LEMMA RegStep == ASSUME PairInv, RegInv, NodeNext PROVE RegInv'
<1>1. CASE Store!LoseRam
  BY <1>1, ResetKeepsPeers
<1>2. CASE phase = "check" /\ Store!Erase
  BY <1>2, EraseKeepsPeers DEF PairInv
<1>3. CASE Store!HasPeers \/ Store!SaveDefault
  BY <1>3, DefaultsKeepPeers
<1>4. CASE Store!SaveKeypair
  BY <1>4, PeersUntouched
     DEF Store!SaveKeypair, Store!SavePriv, Store!SavePub, Store!SaveCrc, LoadedSteps
<1>5. CASE Store!LoadState
  BY <1>5, LoadKeepsPeers
<1>6. CASE Store!Register
  BY <1>6, KeepKeyKeepsPeers, SetKeyKeepsPeers, AddPeerKeepsPeers DEF Store!Register
<1>7. CASE Store!SaveSlot
  BY <1>7, SaveSlotKeepsPeers
<1>8. CASE UNCHANGED storeVars
  BY <1>8, PeersUntouched DEF storeVars
<1> QED
  BY <1>1, <1>2, <1>3, <1>4, <1>5, <1>6, <1>7, <1>8, StoreSteps

\* The registry's invariant holds of the node.
THEOREM RegistryInvariant == NodeSpec => []RegInv
<1>1. NodeInit => RegInv
  <2> SUFFICES ASSUME Store!Init PROVE RegInv
    BY DEF NodeInit
  <2>1. /\ nvsPeers = [s \in Store!Slots |-> NoRecord] /\ peers = << >> /\ step = "start" /\ slot = 1
        /\ told = {}
    BY DEF Store!Init
  <2>2. << >> \in Seq(Store!Records) /\ Len(<< >>) = 0 /\ \A i \in 1..0 : FALSE
    OBVIOUS
  <2>3. RegTypes
    BY <2>1, <2>2, RegConstants DEF RegTypes
  <2>4. ValidInv /\ ToldInv /\ MirrorInv
    BY <2>1, <2>2 DEF ValidInv, ToldInv, MirrorInv, LoadedSteps
  <2> QED
    BY <2>3, <2>4 DEF RegInv
<1>2. PairInv /\ RegInv /\ [NodeNext]_nodeVars => RegInv'
  <2>1. ASSUME RegInv, UNCHANGED nodeVars PROVE RegInv'
    BY <2>1, PeersUntouched DEF nodeVars, storeVars
  <2> QED
    BY <2>1, RegStep
<1> QED
  BY <1>1, <1>2, PairInvariant, PTL DEF NodeSpec

\* A board that was reported as registered is in the registry of every later
\* boot, whatever write of saveToEEPROM a reset cut short, whatever the size of
\* the registry and the gaps in NVS (PeerRegistry.cpp, PeerEnrollment.cpp).
THEOREM PeersSurviveResets == NodeSpec => []RegisteredPeersKept
<1>1. RegInv => RegisteredPeersKept
  <2> SUFFICES ASSUME RegInv, step \in LoadedSteps, NEW m \in told
               PROVE  \E i \in Store!At(m) : peers[i].key \in Keys \/ m = Defaults[1]
    BY DEF RegisteredPeersKept, Store!RegisteredPeersKept, LoadedSteps
  <2>1. PICK i \in 1..Len(peers) : Good(peers[i], m)
    BY DEF RegInv, ToldInv, AtPlace
  <2> QED
    BY <2>1 DEF Good, Store!At
<1> QED
  BY <1>1, RegistryInvariant, PTL
=============================================================================
