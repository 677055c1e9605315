----------------------------- MODULE PirAdapter -----------------------------
(***************************************************************************)
(* The motion sensor: an interrupt handler that signals motion once and    *)
(* detaches itself, and the loop of the housekeeping task that reports it, *)
(* lets the cooldown pass and attaches the handler again (PirAdapter.cpp,  *)
(* Pir.cpp).  Handler and loop may run on different cores.                 *)
(*                                                                         *)
(* Time is counted from the events it is compared with and stops once the  *)
(* cooldown is over.  The health report of the loop is left out.           *)
(***************************************************************************)
EXTENDS Integers

CONSTANT Cooldown   \* _cooldownSeconds, 3 in the code

VARIABLES
    attached,   \* the handler is in place and the pin's interrupt enabled
    enabled,    \* _interruptEnabled
    motion,     \* _motionDetected
    state,      \* _state; PENDING_SEND does not outlive a pass of the loop
    trigger,    \* now - _lastTrigger
    isr,        \* detectMotion: "idle" | "signal" | "disable"
    loop,       \* init and loop: "top" | "attach" | "enable"
    report      \* history: time since the last report of this boot

vars == <<attached, enabled, motion, state, trigger, isr, loop, report>>

Ages == 0..(Cooldown + 1)
Older(d) == IF d > Cooldown THEN d ELSE d + 1

TypeOK ==
    /\ attached \in BOOLEAN /\ enabled \in BOOLEAN /\ motion \in BOOLEAN
    /\ state \in {"IDLE", "COOLDOWN"}
    /\ trigger \in Ages /\ report \in Ages
    /\ isr \in {"idle", "signal", "disable"}
    /\ loop \in {"top", "attach", "enable"}

\* The constructor; init() goes on to attach and enable like the loop does.
Init ==
    /\ attached = FALSE /\ enabled = FALSE /\ motion = FALSE
    /\ state = "IDLE"
    /\ trigger = 0
    /\ isr = "idle"
    /\ loop = "attach"
    /\ report = Cooldown + 1

LoseRam ==
    /\ attached' = FALSE /\ enabled' = FALSE /\ motion' = FALSE
    /\ state' = "IDLE"
    /\ trigger' = 0
    /\ isr' = "idle"
    /\ loop' = "attach"
    /\ report' = Cooldown + 1

-----------------------------------------------------------------------------
\* A rising edge calls detectMotion, which returns at once unless enabled.
Edge ==
    /\ isr = "idle"
    /\ attached /\ enabled
    /\ isr' = "signal"
    /\ UNCHANGED <<attached, enabled, motion, state, trigger, loop, report>>

Signal ==
    /\ isr = "signal"
    /\ motion' = TRUE
    /\ isr' = "disable"
    /\ UNCHANGED <<attached, enabled, state, trigger, loop, report>>

\* Fault: the handler stays in place during the cooldown.
DisableNothing ==
    /\ isr = "disable"
    /\ isr' = "idle"
    /\ UNCHANGED <<attached, enabled, motion, state, trigger, loop, report>>

Disable ==
    /\ isr = "disable"
    /\ enabled' = FALSE
    /\ attached' = FALSE
    /\ isr' = "idle"
    /\ UNCHANGED <<motion, state, trigger, loop, report>>

\* Fault: the loop looks at the sensor only while its interrupt is enabled.
ReportMotionIfEnabled ==
    /\ loop = "top"
    /\ motion /\ enabled
    /\ motion' = FALSE
    /\ state' = "COOLDOWN"
    /\ trigger' = 0
    /\ report' = 0
    /\ UNCHANGED <<attached, enabled, isr, loop>>

\* loop(): take the motion, send it, start the cooldown.
ReportMotion ==
    /\ loop = "top"
    /\ motion
    /\ motion' = FALSE
    /\ state' = "COOLDOWN"
    /\ trigger' = 0
    /\ report' = 0
    /\ UNCHANGED <<attached, enabled, isr, loop>>

\* Fault: waits for an interrupt that is disabled.
CooldownOverIfEnabled ==
    /\ loop = "top"
    /\ ~motion
    /\ state = "COOLDOWN" /\ trigger > Cooldown /\ enabled
    /\ state' = "IDLE"
    /\ loop' = "attach"
    /\ UNCHANGED <<attached, enabled, motion, trigger, isr, report>>

\* loop(): the cooldown has passed; attach and enable follow.
CooldownOver ==
    /\ loop = "top"
    /\ ~motion
    /\ state = "COOLDOWN" /\ trigger > Cooldown
    /\ state' = "IDLE"
    /\ loop' = "attach"
    /\ UNCHANGED <<attached, enabled, motion, trigger, isr, report>>

\* Pir::attachInterrupt.  (If it fails the node restarts.)
Attach ==
    /\ loop = "attach"
    /\ attached' = TRUE
    /\ loop' = "enable"
    /\ UNCHANGED <<enabled, motion, state, trigger, isr, report>>

Enable ==
    /\ loop = "enable"
    /\ enabled' = TRUE
    /\ loop' = "top"
    /\ UNCHANGED <<attached, motion, state, trigger, isr, report>>

Handler == Signal \/ Disable
Arming == Attach \/ Enable
Polling == ReportMotion \/ CooldownOver

\* The handler ends long before a unit of time has passed.
Tick ==
    /\ isr = "idle"
    /\ trigger' = Older(trigger)
    /\ report' = Older(report)
    /\ UNCHANGED <<attached, enabled, motion, state, isr, loop>>

-----------------------------------------------------------------------------
\* Within one boot, reports are more than the cooldown apart, however the
\* handler and the loop interleave (PirAdapter.cpp:58-64, 99-109).
ReportsSpaced == [][report' = 0 /\ report /= 0 => report > Cooldown]_vars
=============================================================================
