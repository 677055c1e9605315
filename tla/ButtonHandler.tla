---------------------------- MODULE ButtonHandler ----------------------------
(***************************************************************************)
(* The two buttons of a node: the debounce of Button::isPressed and the    *)
(* press-and-hold handlers of ButtonHandler (role toggle, armed EEPROM     *)
(* wipe), as the housekeeping task polls them.  Time is milliseconds since *)
(* boot in the code, an abstract unit here; a pass of the loop comes 1 to  *)
(* MaxGap units after the one before.  The loop period exceeds             *)
(* DEBOUNCE_DELAY_MS, so every pass takes one fresh sample of each pin and *)
(* the second isPressed() of tickReset reads the same history.             *)
(***************************************************************************)
EXTENDS Integers

CONSTANTS
    HoldMs,         \* HOLD_MS, 5000 in the code
    ConfirmMs,      \* the confirm window, 3000 in the code
    DebounceReads,  \* consecutive HIGH samples that make a press, 3
    DevButtons,     \* config::DEV_MODE
    MaxGap,         \* bound on the time between two passes of the loop
    MaxTime         \* bound on the time since boot

ASSUME ButtonConstants ==
    /\ HoldMs \in Nat \ {0}
    /\ ConfirmMs \in Nat \ {0}
    /\ DebounceReads \in Nat \ {0}
    /\ DevButtons \in BOOLEAN
    /\ MaxGap \in Nat \ {0}
    /\ MaxTime \in Nat

VARIABLES
    now,             \* time of the last pass
    btn,             \* per button: debounce history, wasPressed, holdStart
    confirmPending, confirmDeadline,
    isMaster,        \* Mesh::isMaster
    masterFlag,      \* NVS key master_flag
    highSince,       \* history: first sample of the current run of HIGH, or Never
    wiped            \* history: clearAll() has run

buttonVars == <<now, btn, confirmPending, confirmDeadline, isMaster, masterFlag,
                highSince, wiped>>

Buttons == {"config", "reset"}
Times == 0..MaxTime
Never == -1

ButtonTypeOK ==
    /\ now \in Times
    /\ btn \in [Buttons -> [highs: 0..DebounceReads, wasPressed: BOOLEAN, holdStart: Times]]
    /\ confirmPending \in BOOLEAN
    /\ confirmDeadline \in 0..(MaxTime + ConfirmMs)
    /\ isMaster \in BOOLEAN
    /\ masterFlag \in BOOLEAN
    /\ highSince \in [Buttons -> Times \cup {Never}]
    /\ wiped \in BOOLEAN

-----------------------------------------------------------------------------
\* Button::isPressed.  The number of trailing HIGH samples in _history is all
\* its mask looks at.
Sampled(b, high) ==
    IF ~high THEN 0
    ELSE IF btn[b].highs < DebounceReads THEN btn[b].highs + 1 ELSE btn[b].highs

Pressed(b, high) == Sampled(b, high) = DebounceReads

\* detectHold: its result ...
Fires(b, high, t) ==
    /\ Pressed(b, high)
    /\ btn[b].wasPressed
    /\ t - btn[b].holdStart >= HoldMs

\* Fault: a release does not end the hold.
HoldKeepsPress(b, high, t) ==
    [highs |-> Sampled(b, high),
     wasPressed |-> (Pressed(b, high) \/ btn[b].wasPressed) /\ ~Fires(b, high, t),
     holdStart |-> IF Pressed(b, high) /\ ~btn[b].wasPressed THEN t
                   ELSE btn[b].holdStart]

\* Fault: firing does not end the hold.
HoldKeepsFiring(b, high, t) ==
    [highs |-> Sampled(b, high),
     wasPressed |-> Pressed(b, high),
     holdStart |-> IF Pressed(b, high) /\ ~btn[b].wasPressed THEN t
                   ELSE btn[b].holdStart]

\* ... and what it leaves in the caller's wasPressed and holdStart.
DetectHold(b, high, t) ==
    [highs |-> Sampled(b, high),
     wasPressed |-> Pressed(b, high) /\ ~Fires(b, high, t),
     holdStart |-> IF Pressed(b, high) /\ ~btn[b].wasPressed THEN t
                   ELSE btn[b].holdStart]

NoPress == [highs |-> 0, wasPressed |-> FALSE, holdStart |-> 0]

-----------------------------------------------------------------------------
\* RAM after a restart; the role comes from the flag (initSubsystems), which in
\* DEV_MODE is never stored.
RamAfterBoot ==
    /\ now' = 0
    /\ btn' = [b \in Buttons |-> NoPress]
    /\ confirmPending' = FALSE
    /\ confirmDeadline' = 0
    /\ isMaster' = masterFlag'
    /\ highSince' = [b \in Buttons |-> Never]

OtherRestart ==
    /\ masterFlag' = masterFlag
    /\ RamAfterBoot
    /\ UNCHANGED wiped

\* tickConfig outside DEV_MODE: store the flipped flag and restart.  tickReset
\* does not run in this pass.
ToggleAndRestart(high, t) ==
    /\ ~DevButtons
    /\ Fires("config", high, t)
    /\ masterFlag' = ~masterFlag
    /\ RamAfterBoot
    /\ UNCHANGED wiped

\* tickConfig in DEV_MODE: flip the role in place.
TickConfig(high, t) ==
    /\ Fires("config", high, t) => DevButtons
    /\ isMaster' = IF Fires("config", high, t) THEN ~isMaster ELSE isMaster
    /\ UNCHANGED masterFlag

-----------------------------------------------------------------------------
(***************************************************************************)
(* tickReset, one action per way through it.                               *)
(***************************************************************************)
Arm(high, t) ==
    /\ Fires("reset", high, t)
    /\ ~confirmPending
    /\ confirmPending' = TRUE
    /\ confirmDeadline' = t + ConfirmMs

\* A second hold fires after the deadline: silently ignored, still armed.
IgnoreLateHold(high, t) ==
    /\ Fires("reset", high, t)
    /\ confirmPending
    /\ t >= confirmDeadline
    /\ UNCHANGED <<confirmPending, confirmDeadline>>

\* Fault: the lapse is reported but the wipe stays armed.
TimesOutStillArmed(high, t) ==
    /\ ~Fires("reset", high, t)
    /\ ~Pressed("reset", high)
    /\ confirmPending
    /\ t > confirmDeadline
    /\ UNCHANGED <<confirmPending, confirmDeadline>>

ConfirmTimesOut(high, t) ==
    /\ ~Fires("reset", high, t)
    /\ ~Pressed("reset", high)
    /\ confirmPending
    /\ t > confirmDeadline
    /\ confirmPending' = FALSE
    /\ UNCHANGED confirmDeadline

NothingDue(high, t) ==
    /\ ~Fires("reset", high, t)
    /\ Pressed("reset", high) \/ ~confirmPending \/ t <= confirmDeadline
    /\ UNCHANGED <<confirmPending, confirmDeadline>>

\* The confirmed wipe: clearAll(), then restart as a blank node.
WipeAndRestart(cfgHigh, high, t) ==
    /\ Fires("config", cfgHigh, t) => DevButtons
    /\ Fires("reset", high, t)
    /\ confirmPending
    /\ t < confirmDeadline
    /\ masterFlag' = FALSE
    /\ RamAfterBoot
    /\ wiped' = TRUE

\* One pass of the loop through ButtonHandler::tick in which nothing restarts.
LoopPass(cfgHigh, rstHigh, t) ==
    /\ TickConfig(cfgHigh, t)
    /\ \/ Arm(rstHigh, t)
       \/ IgnoreLateHold(rstHigh, t)
       \/ ConfirmTimesOut(rstHigh, t)
       \/ NothingDue(rstHigh, t)
    /\ LET high == [b \in Buttons |-> IF b = "config" THEN cfgHigh ELSE rstHigh]
       IN  /\ btn' = [b \in Buttons |-> DetectHold(b, high[b], t)]
           /\ highSince' = [b \in Buttons |->
                  IF ~high[b] THEN Never
                  ELSE IF highSince[b] = Never THEN t ELSE highSince[b]]
    /\ now' = t
    /\ UNCHANGED wiped

Tick(cfgHigh, rstHigh, t) ==
    \/ ToggleAndRestart(cfgHigh, t)
    \/ WipeAndRestart(cfgHigh, rstHigh, t)
    \/ LoopPass(cfgHigh, rstHigh, t)

ButtonInit ==
    /\ now = 0
    /\ btn = [b \in Buttons |-> NoPress]
    /\ confirmPending = FALSE
    /\ confirmDeadline = 0
    /\ masterFlag \in BOOLEAN
    /\ DevButtons => masterFlag = FALSE
    /\ isMaster = masterFlag
    /\ highSince = [b \in Buttons |-> Never]
    /\ wiped = FALSE

ButtonNext ==
    \/ OtherRestart
    \/ \E cfgHigh, rstHigh \in BOOLEAN, gap \in 1..MaxGap :
         now + gap <= MaxTime /\ Tick(cfgHigh, rstHigh, now + gap)

ButtonSpec == ButtonInit /\ [][ButtonNext]_buttonVars

-----------------------------------------------------------------------------
(***************************************************************************)
(* Properties.                                                             *)
(***************************************************************************)

\* The pin of b has read HIGH in every sample for HOLD_MS when the pass at
\* hand is over.
HeldHigh(b) == highSince[b] /= Never /\ now + MaxGap - highSince[b] >= HoldMs

\* The role changes, in RAM or in NVS, only while the config pin has read HIGH
\* in every sample for at least HOLD_MS (detectHold), or is cleared while the
\* reset pin has in an armed wipe: no bounce and no two short presses flip a
\* node's role.
ToggleNeedsHold ==
    [][isMaster' /= isMaster \/ masterFlag' /= masterFlag =>
         \/ DevButtons /\ now' = 0
         \/ HeldHigh("config")
         \/ ~masterFlag' /\ confirmPending /\ HeldHigh("reset")]_buttonVars

\* An armed wipe outlives its window only under the finger: past the deadline
\* it is still pending only while the debounced button is down
\* (ButtonHandler.h:132-150).
ConfirmLapses ==
    confirmPending /\ now > confirmDeadline => btn["reset"].highs = DebounceReads

\* The hold being timed on the reset button began no earlier than the arming
\* of the pending wipe (detectHold resets wasPressed before it fires).
HoldAfterArming ==
    confirmPending /\ btn["reset"].wasPressed =>
        btn["reset"].holdStart + ConfirmMs >= confirmDeadline

\* With a hold time no shorter than the confirm window, nothing pressed in
\* whatever way clears NVS.  The firmware has 5 s and 3 s (ButtonHandler.h:117),
\* while README.md:179 describes a second hold "starting within a 3 s confirm
\* window" as the way to wipe a node.
NeverWiped == HoldMs >= ConfirmMs => ~wiped

\* A wipe comes at least one full hold after the arming: the hold that armed
\* it is never counted again as the confirming one.
WipeNeedsSecondHold ==
    [][wiped' /= wiped =>
         now + MaxGap >= (confirmDeadline - ConfirmMs) + HoldMs]_buttonVars
=============================================================================
