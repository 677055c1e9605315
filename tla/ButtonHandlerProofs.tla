------------------------- MODULE ButtonHandlerProofs -------------------------
(***************************************************************************)
(* For every debounce depth and every spacing of the polls: if a hold is   *)
(* no shorter than the confirm window, the wipe is unreachable; an armed   *)
(* wipe lapses; and neither the role nor NVS changes without a full hold.  *)
(***************************************************************************)
EXTENDS ButtonHandler, TLAPS

\* What ButtonHandler keeps true: types, and the order of arming and holding.
ButtonInv == ButtonTypeOK /\ HoldAfterArming /\ NeverWiped

\* The values RAM comes up with are well typed.
LEMMA BlankTypes ==
    /\ 0 \in Times /\ 0 \in 0..(MaxTime + ConfirmMs)
    /\ [b \in Buttons |-> NoPress] \in
           [Buttons -> [highs: 0..DebounceReads, wasPressed: BOOLEAN, holdStart: Times]]
    /\ [b \in Buttons |-> Never] \in [Buttons -> Times \cup {Never}]
<1>1. NoPress \in [highs: 0..DebounceReads, wasPressed: BOOLEAN, holdStart: Times]
  BY ButtonConstants DEF NoPress, Times
<1> QED
  BY <1>1, ButtonConstants DEF Times

LEMMA BlankInv == ButtonInit => ButtonInv
  BY BlankTypes DEF ButtonInit, ButtonInv, ButtonTypeOK, HoldAfterArming, NeverWiped

\* A restart loses the press and the armed wipe together.
LEMMA AfterBoot ==
    ASSUME ButtonInv, RamAfterBoot, masterFlag' \in BOOLEAN, UNCHANGED wiped
    PROVE  ButtonInv'
  BY BlankTypes DEF RamAfterBoot, ButtonInv, ButtonTypeOK, HoldAfterArming, NeverWiped

\* detectHold leaves a well-typed record; a hold it is timing began at some
\* earlier pass or now.
LEMMA DetectHoldType ==
    ASSUME ButtonTypeOK, NEW b \in Buttons, NEW high \in BOOLEAN, NEW t \in Times
    PROVE  DetectHold(b, high, t) \in
               [highs: 0..DebounceReads, wasPressed: BOOLEAN, holdStart: Times]
<1>1. Sampled(b, high) \in 0..DebounceReads
  BY ButtonConstants DEF ButtonTypeOK, Sampled
<1>2. (Pressed(b, high) /\ ~Fires(b, high, t)) \in BOOLEAN
  BY DEF Pressed, Fires
<1>3. (IF Pressed(b, high) /\ ~btn[b].wasPressed THEN t ELSE btn[b].holdStart) \in Times
  BY DEF ButtonTypeOK
<1> QED
  BY <1>1, <1>2, <1>3 DEF DetectHold

\* A pass of the loop that does not restart keeps types.
LEMMA PassType ==
    ASSUME ButtonTypeOK, NEW cfgHigh \in BOOLEAN, NEW rstHigh \in BOOLEAN, NEW t \in Times,
           LoopPass(cfgHigh, rstHigh, t)
    PROVE  ButtonTypeOK'
<1> DEFINE high == [b \in Buttons |-> IF b = "config" THEN cfgHigh ELSE rstHigh]
<1>1. \A b \in Buttons : high[b] \in BOOLEAN
  BY DEF Buttons
<1>2. btn' \in [Buttons -> [highs: 0..DebounceReads, wasPressed: BOOLEAN, holdStart: Times]]
  BY <1>1, DetectHoldType DEF LoopPass
<1>3. highSince' \in [Buttons -> Times \cup {Never}]
  BY DEF LoopPass, ButtonTypeOK
<1>5. confirmDeadline' \in 0..(MaxTime + ConfirmMs) /\ confirmPending' \in BOOLEAN
  <2>1. t + ConfirmMs \in 0..(MaxTime + ConfirmMs)
    BY ButtonConstants DEF Times
  <2>2. CASE Arm(rstHigh, t)
    BY <2>1, <2>2 DEF Arm, ButtonTypeOK
  <2>3. CASE IgnoreLateHold(rstHigh, t)
    BY <2>3, Zenon DEF IgnoreLateHold, ButtonTypeOK
  <2>4. CASE ConfirmTimesOut(rstHigh, t)
    BY <2>4 DEF ConfirmTimesOut, ButtonTypeOK
  <2>5. CASE NothingDue(rstHigh, t)
    BY <2>5, Zenon DEF NothingDue, ButtonTypeOK
  <2> QED
    BY <2>2, <2>3, <2>4, <2>5 DEF LoopPass
<1>6. isMaster' \in BOOLEAN /\ masterFlag' \in BOOLEAN
  BY DEF LoopPass, TickConfig, ButtonTypeOK
<1> QED
  BY <1>2, <1>3, <1>5, <1>6 DEF LoopPass, ButtonTypeOK

\* A hold starts counting after the arming: detectHold clears wasPressed in
\* the pass that fires.
LEMMA PassHold ==
    ASSUME ButtonTypeOK, HoldAfterArming, NEW cfgHigh \in BOOLEAN, NEW rstHigh \in BOOLEAN,
           NEW t \in Times, now < t, LoopPass(cfgHigh, rstHigh, t),
           \* the deadline was set from an earlier pass
           confirmPending => confirmDeadline <= now + ConfirmMs
    PROVE  HoldAfterArming' /\ (confirmPending' => confirmDeadline' <= now' + ConfirmMs)
<1>1. btn'["reset"] = DetectHold("reset", rstHigh, t) /\ now' = t
  BY DEF LoopPass, Buttons
<1>2. CASE Arm(rstHigh, t)
  <2>1. ~DetectHold("reset", rstHigh, t).wasPressed
    BY <1>2 DEF Arm, DetectHold
  <2>2. confirmDeadline' = t + ConfirmMs
    BY <1>2 DEF Arm
  <2> QED
    BY <1>1, <2>1, <2>2, ButtonConstants DEF HoldAfterArming, Times
<1>3. CASE UNCHANGED <<confirmPending, confirmDeadline>>
  <2>1. /\ DetectHold("reset", rstHigh, t).wasPressed =>
             DetectHold("reset", rstHigh, t).holdStart = t \/
             (btn["reset"].wasPressed /\
              DetectHold("reset", rstHigh, t).holdStart = btn["reset"].holdStart)
    BY DEF DetectHold
  <2>2. now \in Int /\ confirmDeadline \in Int /\ ConfirmMs \in Int
    BY ButtonConstants DEF ButtonTypeOK, Times
  <2> QED
    BY <1>1, <1>3, <2>1, <2>2 DEF HoldAfterArming, Times
<1>4. CASE ConfirmTimesOut(rstHigh, t)
  BY <1>4 DEF ConfirmTimesOut, HoldAfterArming
<1> QED
  BY <1>2, <1>3, <1>4 DEF LoopPass, IgnoreLateHold, NothingDue

\* The confirmed wipe needs a hold shorter than the window.
LEMMA WipeNeedsShortHold ==
    ASSUME ButtonTypeOK, HoldAfterArming, NEW cfgHigh \in BOOLEAN, NEW rstHigh \in BOOLEAN,
           NEW t \in Times, WipeAndRestart(cfgHigh, rstHigh, t)
    PROVE  HoldMs < ConfirmMs
  BY ButtonConstants DEF WipeAndRestart, Fires, HoldAfterArming, ButtonTypeOK, Times, Buttons

\* The deadline of a pending wipe is never more than one window ahead.
DeadlineNear == confirmPending => confirmDeadline <= now + ConfirmMs

\* Debounce, holds and the confirm window keep the invariant whatever the poll
\* spacing and wherever the node restarts (ButtonHandler::tick).
THEOREM ButtonInvariant == ButtonSpec => [](ButtonInv /\ DeadlineNear)
<1>1. ButtonInit => ButtonInv /\ DeadlineNear
  BY BlankInv DEF ButtonInit, DeadlineNear
<1>2. ASSUME ButtonInv, DeadlineNear, [ButtonNext]_buttonVars
      PROVE  ButtonInv' /\ DeadlineNear'
  <2> USE <1>2
  <2>1. CASE OtherRestart
    BY <2>1, AfterBoot DEF OtherRestart, RamAfterBoot, ButtonInv, ButtonTypeOK, DeadlineNear
  <2>2. ASSUME NEW cfgHigh \in BOOLEAN, NEW rstHigh \in BOOLEAN, NEW gap \in 1..MaxGap,
               now + gap <= MaxTime, Tick(cfgHigh, rstHigh, now + gap)
        PROVE  ButtonInv' /\ DeadlineNear'
    <3>1. now + gap \in Times /\ now < now + gap
      BY <2>2, ButtonConstants DEF ButtonInv, ButtonTypeOK, Times
    <3>2. CASE ToggleAndRestart(cfgHigh, now + gap)
      <4>1. masterFlag' \in BOOLEAN
        BY <3>2 DEF ToggleAndRestart, ButtonInv, ButtonTypeOK
      <4> QED
        BY <3>2, <4>1, AfterBoot DEF ToggleAndRestart, RamAfterBoot, DeadlineNear
    <3>3. CASE WipeAndRestart(cfgHigh, rstHigh, now + gap)
      <4>1. HoldMs < ConfirmMs
        BY <3>1, <3>3, WipeNeedsShortHold DEF ButtonInv
      <4>2. NeverWiped'
        BY <4>1, ButtonConstants DEF NeverWiped
      <4>3. ButtonTypeOK' /\ HoldAfterArming' /\ DeadlineNear'
        BY <3>3, BlankTypes DEF WipeAndRestart, RamAfterBoot, ButtonInv, ButtonTypeOK,
           HoldAfterArming, DeadlineNear
      <4> QED
        BY <4>2, <4>3 DEF ButtonInv
    <3>4. CASE LoopPass(cfgHigh, rstHigh, now + gap)
      <4>1. ButtonTypeOK'
        BY <3>1, <3>4, PassType DEF ButtonInv
      <4>2. HoldAfterArming' /\ DeadlineNear'
        BY <3>1, <3>4, PassHold DEF ButtonInv, DeadlineNear
      <4>3. NeverWiped'
        BY <3>4 DEF LoopPass, ButtonInv, NeverWiped
      <4> QED
        BY <4>1, <4>2, <4>3 DEF ButtonInv
    <3> QED
      BY <2>2, <3>2, <3>3, <3>4 DEF Tick
  <2>3. CASE UNCHANGED buttonVars
    BY <2>3 DEF buttonVars, ButtonInv, ButtonTypeOK, HoldAfterArming, NeverWiped, DeadlineNear
  <2> QED
    BY <2>1, <2>2, <2>3 DEF ButtonNext
<1> QED
  BY <1>1, <1>2, PTL DEF ButtonSpec

\* The wipe of tickReset is unreachable as long as HOLD_MS is at least the
\* confirm window (ButtonHandler.h:18, 113, 117): the branch is dead code with
\* the constants of the firmware.
THEOREM WipeUnreachable == ButtonSpec => []NeverWiped
<1>1. ButtonInv /\ DeadlineNear => NeverWiped
  BY DEF ButtonInv
<1> QED
  BY <1>1, ButtonInvariant, PTL

\* The hold that armed a wipe is never the one that confirms it: detectHold
\* starts timing anew before it fires, so a hold under a pending wipe began at
\* or after the arming (ButtonHandler.h:35-52, 109-116).
THEOREM HoldsFollowArming == ButtonSpec => []HoldAfterArming
<1>1. ButtonInv /\ DeadlineNear => HoldAfterArming
  BY DEF ButtonInv
<1> QED
  BY <1>1, ButtonInvariant, PTL

-----------------------------------------------------------------------------
(***************************************************************************)
(* What the samples say of the debounced press, and what therefore lies    *)
(* behind a hold that fires.                                               *)
(***************************************************************************)

\* A press is timed only inside one unbroken run of HIGH samples, from its
\* first sample at the earliest.
PressInRun ==
    \A b \in Buttons :
        /\ btn[b].highs > 0 => highSince[b] # Never
        /\ btn[b].wasPressed => /\ highSince[b] # Never
                                /\ highSince[b] <= btn[b].holdStart

\* Outside DEV_MODE the role in RAM is the stored one.
RoleStored == ~DevButtons => isMaster = masterFlag

HoldInv == PressInRun /\ RoleStored /\ ConfirmLapses

\* A hold that fires has HOLD_MS of HIGH samples behind it.
LEMMA FiringIsHeld ==
    ASSUME ButtonTypeOK, PressInRun, NEW b \in Buttons, NEW high \in BOOLEAN,
           NEW gap \in 1..MaxGap, Fires(b, high, now + gap)
    PROVE  HeldHigh(b)
<1>1. now \in Int /\ btn[b].holdStart \in Int /\ highSince[b] \in Int
  BY ButtonConstants DEF ButtonTypeOK, Times, Never
<1>2. btn[b].wasPressed /\ now + gap - btn[b].holdStart >= HoldMs
  BY <1>1, ButtonConstants DEF Fires
<1> QED
  BY <1>1, <1>2, ButtonConstants DEF HeldHigh, PressInRun

\* A restart forgets every press.
LEMMA BootForgetsPress ==
    ASSUME RamAfterBoot PROVE PressInRun' /\ RoleStored' /\ ConfirmLapses'
<1>1. \A b \in Buttons : btn'[b].highs = 0 /\ ~btn'[b].wasPressed
  BY DEF RamAfterBoot, NoPress
<1> QED
  BY <1>1 DEF RamAfterBoot, PressInRun, RoleStored, ConfirmLapses

\* A pass of the loop times presses inside their run of samples.
LEMMA PassInRun ==
    ASSUME ButtonTypeOK, PressInRun, NEW cfgHigh \in BOOLEAN, NEW rstHigh \in BOOLEAN,
           NEW t \in Times, now < t, LoopPass(cfgHigh, rstHigh, t),
           \* no run of samples begins in the future
           \A b \in Buttons : highSince[b] <= now
    PROVE  PressInRun' /\ \A b \in Buttons : highSince'[b] <= now'
<1> SUFFICES ASSUME NEW b \in Buttons
             PROVE  /\ btn'[b].highs > 0 => highSince'[b] # Never
                    /\ btn'[b].wasPressed => /\ highSince'[b] # Never
                                             /\ highSince'[b] <= btn'[b].holdStart
                    /\ highSince'[b] <= now'
  BY DEF PressInRun
<1>1. PICK h \in BOOLEAN :
         /\ btn'[b] = DetectHold(b, h, t)
         /\ highSince'[b] = IF ~h THEN Never
                            ELSE IF highSince[b] = Never THEN t ELSE highSince[b]
  BY DEF LoopPass
<1>2. /\ now' = t /\ now \in Nat /\ t \in Nat /\ highSince[b] \in Int /\ highSince[b] <= now
      /\ btn[b].highs \in Nat /\ btn[b].holdStart \in Nat
      /\ btn[b].wasPressed \in BOOLEAN
  BY ButtonConstants DEF LoopPass, ButtonTypeOK, Times, Never
<1>3. /\ btn'[b].highs = Sampled(b, h)
      /\ btn'[b].wasPressed => Pressed(b, h)
      /\ btn'[b].holdStart = IF Pressed(b, h) /\ ~btn[b].wasPressed THEN t
                             ELSE btn[b].holdStart
  <2>1. DetectHold(b, h, t).highs = Sampled(b, h)
    BY DEF DetectHold
  <2>2. DetectHold(b, h, t).wasPressed => Pressed(b, h)
    BY DEF DetectHold
  <2>3. DetectHold(b, h, t).holdStart =
          IF Pressed(b, h) /\ ~btn[b].wasPressed THEN t ELSE btn[b].holdStart
    BY DEF DetectHold
  <2> QED
    BY <1>1, <2>1, <2>2, <2>3
<1>4. CASE ~h
  BY <1>1, <1>2, <1>3, <1>4, ButtonConstants DEF Sampled, Pressed, Never
<1>5. CASE h
  <2>1. highSince'[b] # Never /\ highSince'[b] <= t
    BY <1>1, <1>2, <1>5 DEF Never
  <2>2. btn[b].wasPressed => highSince'[b] <= btn[b].holdStart
    BY <1>1, <1>5 DEF PressInRun
  <2> QED
    BY <2>1, <2>2, <1>2, <1>3
<1> QED
  BY <1>4, <1>5

\* Past the deadline a pass leaves the wipe armed only under the finger.
LEMMA PassLapses ==
    ASSUME ButtonTypeOK, NEW cfgHigh \in BOOLEAN, NEW rstHigh \in BOOLEAN, NEW t \in Times,
           LoopPass(cfgHigh, rstHigh, t)
    PROVE  ConfirmLapses'
<1>1. btn'["reset"].highs = Sampled("reset", rstHigh) /\ now' = t
  BY DEF LoopPass, Buttons, DetectHold
<1>2. t \in Nat /\ confirmDeadline \in Nat
  BY ButtonConstants DEF ButtonTypeOK, Times
<1>3. CASE Arm(rstHigh, t)
  BY <1>1, <1>2, <1>3, ButtonConstants DEF Arm, ConfirmLapses
<1>4. CASE IgnoreLateHold(rstHigh, t)
  BY <1>1, <1>4 DEF IgnoreLateHold, Fires, Pressed, ConfirmLapses
<1>5. CASE ConfirmTimesOut(rstHigh, t)
  BY <1>5 DEF ConfirmTimesOut, ConfirmLapses
<1>6. CASE NothingDue(rstHigh, t)
  BY <1>1, <1>2, <1>6 DEF NothingDue, Pressed, ConfirmLapses
<1> QED
  BY <1>3, <1>4, <1>5, <1>6 DEF LoopPass

\* No run of HIGH samples begins in the future.
RunsBegan == \A b \in Buttons : highSince[b] <= now

LEMMA HoldStep ==
    ASSUME ButtonTypeOK, HoldInv, RunsBegan, [ButtonNext]_buttonVars
    PROVE  HoldInv' /\ RunsBegan'
<1>1. ASSUME RamAfterBoot PROVE HoldInv' /\ RunsBegan'
  <2>1. RunsBegan'
    BY <1>1 DEF RamAfterBoot, RunsBegan, Never
  <2> QED
    BY <1>1, <2>1, BootForgetsPress DEF HoldInv
<1>2. ASSUME NEW cfgHigh \in BOOLEAN, NEW rstHigh \in BOOLEAN, NEW gap \in 1..MaxGap,
             now + gap <= MaxTime, LoopPass(cfgHigh, rstHigh, now + gap)
      PROVE  HoldInv' /\ RunsBegan'
  <2>1. now + gap \in Times /\ now < now + gap
    BY <1>2, ButtonConstants DEF ButtonTypeOK, Times
  <2>2. PressInRun' /\ RunsBegan'
    BY <1>2, <2>1, PassInRun DEF HoldInv, RunsBegan
  <2>3. ConfirmLapses'
    BY <1>2, <2>1, PassLapses
  <2>4. RoleStored'
    BY <1>2 DEF LoopPass, TickConfig, HoldInv, RoleStored
  <2> QED
    BY <2>2, <2>3, <2>4 DEF HoldInv
<1>3. ASSUME UNCHANGED buttonVars PROVE HoldInv' /\ RunsBegan'
  BY <1>3 DEF buttonVars, HoldInv, PressInRun, RoleStored, ConfirmLapses, RunsBegan
<1> QED
  BY <1>1, <1>2, <1>3 DEF ButtonNext, OtherRestart, Tick, ToggleAndRestart, WipeAndRestart

\* Presses, samples and the armed wipe stay in step, whatever the poll spacing
\* (Button::isPressed, detectHold, tickReset).
THEOREM HoldInvariant == ButtonSpec => [](HoldInv /\ RunsBegan)
<1>1. ButtonInit => HoldInv /\ RunsBegan
  BY DEF ButtonInit, HoldInv, PressInRun, RoleStored, ConfirmLapses, RunsBegan, NoPress, Never
<1>2. (ButtonInv /\ DeadlineNear) /\ (HoldInv /\ RunsBegan) /\ [ButtonNext]_buttonVars
        => (HoldInv /\ RunsBegan)'
  BY HoldStep DEF ButtonInv
<1> QED
  BY <1>1, <1>2, ButtonInvariant, PTL DEF ButtonSpec

\* An armed wipe outlives its window only while the debounced button is down
\* (ButtonHandler.h:132-150).
THEOREM ArmedWipeLapses == ButtonSpec => []ConfirmLapses
<1>1. HoldInv /\ RunsBegan => ConfirmLapses
  BY DEF HoldInv
<1> QED
  BY <1>1, HoldInvariant, PTL

\* The role never changes without a full hold of the config button, or of the
\* reset button in an armed wipe (ButtonHandler.h:35-52, 57-100).
THEOREM RoleNeedsHold == ButtonSpec => ToggleNeedsHold
<1>1. ASSUME ButtonTypeOK, HoldInv, [ButtonNext]_buttonVars
      PROVE  [isMaster' /= isMaster \/ masterFlag' /= masterFlag =>
                \/ DevButtons /\ now' = 0
                \/ HeldHigh("config")
                \/ ~masterFlag' /\ confirmPending /\ HeldHigh("reset")]_buttonVars
  <2> SUFFICES ASSUME ButtonNext, isMaster' /= isMaster \/ masterFlag' /= masterFlag
               PROVE  \/ DevButtons /\ now' = 0
                      \/ HeldHigh("config")
                      \/ ~masterFlag' /\ confirmPending /\ HeldHigh("reset")
    BY <1>1
  <2>1. CASE OtherRestart
    BY <1>1, <2>1, ButtonConstants DEF OtherRestart, RamAfterBoot, HoldInv, RoleStored
  <2>2. ASSUME NEW cfgHigh \in BOOLEAN, NEW rstHigh \in BOOLEAN, NEW gap \in 1..MaxGap,
               Tick(cfgHigh, rstHigh, now + gap)
        PROVE  \/ DevButtons /\ now' = 0
               \/ HeldHigh("config")
               \/ ~masterFlag' /\ confirmPending /\ HeldHigh("reset")
    <3>1. Fires("config", cfgHigh, now + gap) => HeldHigh("config")
      BY <1>1, FiringIsHeld DEF HoldInv, Buttons
    <3>2. Fires("reset", rstHigh, now + gap) => HeldHigh("reset")
      BY <1>1, FiringIsHeld DEF HoldInv, Buttons
    <3>3. CASE ToggleAndRestart(cfgHigh, now + gap)
      BY <3>1, <3>3 DEF ToggleAndRestart
    <3>4. CASE WipeAndRestart(cfgHigh, rstHigh, now + gap)
      BY <3>2, <3>4 DEF WipeAndRestart
    <3>5. CASE LoopPass(cfgHigh, rstHigh, now + gap)
      <4>1. Fires("config", cfgHigh, now + gap)
        BY <2>2, <3>5 DEF LoopPass, TickConfig
      <4> QED
        BY <3>1, <4>1
    <3> QED
      BY <2>2, <3>3, <3>4, <3>5 DEF Tick
  <2> QED
    BY <2>1, <2>2 DEF ButtonNext
<1>2. (ButtonInv /\ DeadlineNear) /\ (HoldInv /\ RunsBegan) /\ [ButtonNext]_buttonVars
        => [isMaster' /= isMaster \/ masterFlag' /= masterFlag =>
                \/ DevButtons /\ now' = 0
                \/ HeldHigh("config")
                \/ ~masterFlag' /\ confirmPending /\ HeldHigh("reset")]_buttonVars
  BY <1>1 DEF ButtonInv
<1> QED
  BY <1>2, ButtonInvariant, HoldInvariant, PTL DEF ButtonSpec, ToggleNeedsHold

\* A wipe comes at least one full hold after its arming, with any hold time
\* and any window: the arming hold never confirms (ButtonHandler.h:109-130).
THEOREM WipeNeedsOwnHold == ButtonSpec => WipeNeedsSecondHold
<1>1. ASSUME ButtonTypeOK, HoldAfterArming, [ButtonNext]_buttonVars
      PROVE  [wiped' /= wiped =>
                now + MaxGap >= (confirmDeadline - ConfirmMs) + HoldMs]_buttonVars
  <2> SUFFICES ASSUME ButtonNext, wiped' /= wiped
               PROVE  now + MaxGap >= (confirmDeadline - ConfirmMs) + HoldMs
    BY <1>1
  <2>1. PICK cfgHigh \in BOOLEAN, rstHigh \in BOOLEAN, gap \in 1..MaxGap :
           WipeAndRestart(cfgHigh, rstHigh, now + gap)
    BY DEF ButtonNext, OtherRestart, Tick, ToggleAndRestart, LoopPass
  <2>2. now \in Int /\ btn["reset"].holdStart \in Int /\ confirmDeadline \in Int
    BY <1>1, ButtonConstants DEF ButtonTypeOK, Times, Buttons
  <2>3. /\ btn["reset"].wasPressed /\ now + gap - btn["reset"].holdStart >= HoldMs
        /\ confirmPending
    BY <2>1, <2>2, ButtonConstants DEF WipeAndRestart, Fires
  <2> QED
    BY <1>1, <2>2, <2>3, ButtonConstants DEF HoldAfterArming
<1>2. (ButtonInv /\ DeadlineNear) /\ [ButtonNext]_buttonVars
        => [wiped' /= wiped =>
                now + MaxGap >= (confirmDeadline - ConfirmMs) + HoldMs]_buttonVars
  BY <1>1 DEF ButtonInv
<1> QED
  BY <1>2, ButtonInvariant, PTL DEF ButtonSpec, WipeNeedsSecondHold
=============================================================================
