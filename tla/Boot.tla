-------------------------------- MODULE Boot --------------------------------
(***************************************************************************)
(* What a node does between a reset and service: BootManager::check counts *)
(* watchdog resets in NVS and halts at the fifth; err_core::init signals   *)
(* an unexpected reset, which for a hardware error is esp_restart;         *)
(* initSubsystems builds the adapter and the mesh.  The order is that of   *)
(* initHardwareOutputs: the check first, the error core after it.          *)
(***************************************************************************)
EXTENDS Integers

CONSTANTS
    WdtLimit,   \* watchdog resets in a row that halt the node, 5 in the code
    MaxHangs    \* bound on hangs

ASSUME BootConstants == WdtLimit \in Nat \ {0, 1} /\ MaxHangs \in Nat

VARIABLES
    reason,       \* esp_reset_reason() of this boot: a Watchdogs, an Expected or "PANIC"
    rebootCount,  \* NVS: saveRebootCount
    phase,        \* "check" | "errors" | "subsystems" | "service" | "halted" | "stuck"
    hangs,        \* history: watchdog resets before err_core::init was done, since
                  \*   the check last found another reason
    crashes       \* history: watchdog resets with no other reset between them but the
                  \*   firmware's own restarts, up to WdtLimit

vars == <<reason, rebootCount, phase, hangs, crashes>>
history == <<hangs, crashes>>

Watchdogs == {"TASK_WDT", "INT_WDT", "WDT"}
Expected == {"POWERON", "SW", "EXT"}

TypeOK ==
    /\ reason \in Watchdogs \cup Expected \cup {"PANIC"}
    /\ rebootCount \in 0..255
    /\ phase \in {"check", "errors", "subsystems", "service", "halted", "stuck"}
    /\ hangs \in 0..MaxHangs /\ crashes \in 0..WdtLimit

Init ==
    /\ reason = "POWERON"
    /\ rebootCount = 0
    /\ phase = "check"
    /\ hangs = 0 /\ crashes = 0

Boots(r) == reason' = r /\ phase' = "check"

\* saveRebootCount: a uint8_t in NVS.
SaveRebootCount(n) == rebootCount' = n % 256

\* BootManager::check, after the first eeprom::init.
Check ==
    /\ phase = "check"
    /\ IF reason \in Watchdogs
       THEN /\ SaveRebootCount(rebootCount + 1)
            /\ phase' = IF rebootCount' >= WdtLimit THEN "halted" ELSE "errors"
            /\ UNCHANGED hangs
       ELSE SaveRebootCount(0) /\ phase' = "errors" /\ hangs' = 0
    /\ UNCHANGED <<reason, crashes>>

\* signalError(HARDWARE, ...) or signalError(MEMORY, ...): esp_restart.
RestartDevice == Boots("SW") /\ UNCHANGED <<rebootCount, history>>

\* The red LED cannot be set up: blink the green one forever.
RedLedFails ==
    /\ phase = "errors"
    /\ phase' = "stuck"
    /\ UNCHANGED <<reason, rebootCount, history>>

\* Fault: a watchdog reset is an expected one, left to BootManager.
InitErrorsTrusting ==
    /\ phase = "errors"
    /\ \/ reason \notin Expected \cup Watchdogs /\ RestartDevice
       \/ /\ reason \in Expected \cup Watchdogs
          /\ phase' = "subsystems"
          /\ UNCHANGED <<reason, rebootCount, history>>

\* err_core::init.
InitErrors ==
    /\ phase = "errors"
    /\ \/ reason \notin Expected /\ RestartDevice
       \/ /\ reason \in Expected
          /\ phase' = "subsystems"
          /\ UNCHANGED <<reason, rebootCount, history>>

\* The rest of initHardwareOutputs, initSubsystems.  A button, an LED, the NVS
\* or the adapter failing restarts; the mesh failing does not (err::fatal of
\* a COMM error loops).
SubsystemsFail ==
    /\ phase = "subsystems"
    /\ \/ RestartDevice
       \/ phase' = "stuck" /\ UNCHANGED <<reason, rebootCount, history>>

\* The end of initSubsystems, and spawnTasks.
SubsystemsUp ==
    /\ phase = "subsystems"
    /\ phase' = "service"
    /\ UNCHANGED <<reason, rebootCount, history>>

\* The watchdogs run from the start of the chip (sdkconfig.defaults:88-90);
\* housekeeping_task_fn adds itself to those the task watchdog watches.  The
\* loops of a node that has halted or is stuck give way to the idle task.
WatchdogFires ==
    /\ phase \notin {"halted", "stuck"}
    /\ \E w \in Watchdogs : Boots(w)
    /\ \/ /\ phase \in {"check", "errors"}
          /\ hangs < MaxHangs
          /\ hangs' = hangs + 1
       \/ phase \in {"subsystems", "service"} /\ UNCHANGED hangs
    /\ crashes' = IF crashes < WdtLimit THEN crashes + 1 ELSE crashes
    /\ UNCHANGED rebootCount

\* A crash, or a restart the node was asked for (buttons, CONFIG_SET).
OtherReset ==
    /\ \/ phase \notin {"halted", "stuck"} /\ Boots("PANIC")
       \/ phase = "service" /\ Boots("SW")
    /\ crashes' = 0
    /\ UNCHANGED <<rebootCount, hangs>>

\* Power or the reset pin, at any time.
ManualReset ==
    /\ Boots("POWERON") \/ Boots("EXT")
    /\ crashes' = 0
    /\ UNCHANGED <<rebootCount, hangs>>

BootOrReset ==
    \/ Check \/ RedLedFails \/ InitErrors \/ SubsystemsFail
    \/ WatchdogFires \/ OtherReset \/ ManualReset

\* The node by its boot alone; NodeLife says what happens meanwhile.
Next == BootOrReset \/ SubsystemsUp

Spec == Init /\ [][Next]_vars

-----------------------------------------------------------------------------
\* Only hangs early in boot add up to a halt, at least all but one of the
\* limit: a node that gets as far as err_core::init after a watchdog reset is
\* restarted there, and the restart clears the count (BootManager.h:15-30,
\* ErrorCore.cpp:73-75).
HaltNeedsHangs == phase = "halted" => hangs >= WdtLimit - 1

\* What REFACTORING_GUIDE.md:419-420 says of the check, "WDT crash-loop halt
\* after 5 consecutive watchdog resets": a node that the watchdog has reset that
\* often, with only the firmware's own restarts in between, is not in service.
\* (The restart by which err_core::init answers each of these resets clears the
\* count, and the node serves until the next one.)
CrashLoopHalts == phase = "service" => crashes < WdtLimit
=============================================================================
