------------------------------ MODULE RecvPath ------------------------------
(***************************************************************************)
(* From the radio to the handler: the ESP-NOW receive callback (WiFi task) *)
(* puts a frame into a ring buffer of a few entries and notifies the mesh  *)
(* task, which waits for the notification and drains the buffer until it   *)
(* is empty (MeshTransport::onDataRecvCallback, MeshTransport::drain,      *)
(* mesh_task_fn).  The callback's two effects, and every load the draining *)
(* task makes, are steps of their own: the tasks preempt each other.       *)
(*                                                                         *)
(* The callback is registered in Mesh::init, before initSubsystems creates *)
(* the task and hands its handle to the transport.                         *)
(***************************************************************************)
EXTENDS Integers, Sequences, FiniteSets

CONSTANTS
    Capacity,   \* entries of recvQueue, 4 in the code
    MaxFrames   \* bound on the frames received; frames are numbered

ASSUME RecvConstants ==
    /\ Capacity \in Nat \ {0}
    /\ MaxFrames \in Nat

VARIABLES
    queue,      \* recvQueue
    pending,    \* the mesh task's notification is pending
    task,       \* mesh_task_fn: "none" | "wait" | "drain" | "handle"
    entry,      \* the frame drain() has taken out, 0 for none
    handleSet,  \* drainNotifyHandle_ is set
    callback,   \* "idle" | "notify": between the push and the notification
    arrived,    \* number of the last frame received
    dropped,    \* history: frames that found the buffer full
    early,      \* history: frames queued while there was no handle to notify
    handled     \* history: frames handed to handleReceivedMessage, in order

vars == <<queue, pending, task, entry, handleSet, callback, arrived, dropped, early, handled>>

FrameIds == 1..MaxFrames

TypeOK ==
    /\ queue \in Seq(FrameIds) /\ Len(queue) <= Capacity
    /\ pending \in BOOLEAN
    /\ task \in {"none", "wait", "drain", "handle"}
    /\ entry \in 0..MaxFrames
    /\ handleSet \in BOOLEAN
    /\ callback \in {"idle", "notify"}
    /\ arrived \in 0..MaxFrames
    /\ dropped \subseteq FrameIds
    /\ early \subseteq FrameIds
    /\ handled \in Seq(FrameIds)

Init ==
    /\ queue = << >>
    /\ pending = FALSE
    /\ task = "none"
    /\ entry = 0
    /\ handleSet = FALSE
    /\ callback = "idle"
    /\ arrived = 0
    /\ dropped = {}
    /\ early = {}
    /\ handled = << >>

-----------------------------------------------------------------------------
(***************************************************************************)
(* The WiFi task.                                                          *)
(***************************************************************************)

\* xRingbufferSendFromISR: a full buffer drops the frame without a word.
Receive ==
    /\ callback = "idle"
    /\ arrived < MaxFrames
    /\ arrived' = arrived + 1
    /\ IF Len(queue) < Capacity
       THEN queue' = Append(queue, arrived + 1) /\ UNCHANGED dropped
       ELSE dropped' = dropped \cup {arrived + 1} /\ UNCHANGED queue
    /\ callback' = "notify"
    /\ UNCHANGED <<pending, task, entry, handleSet, early, handled>>

\* Fault: only a frame that finds the buffer empty wakes the task.
NotifyWhenFirst ==
    /\ callback = "notify"
    /\ pending' = (pending \/ (handleSet /\ Len(queue) = 1))
    /\ early' = IF handleSet THEN early ELSE early \cup {queue[i] : i \in 1..Len(queue)}
    /\ callback' = "idle"
    /\ UNCHANGED <<queue, task, entry, handleSet, arrived, dropped, handled>>

\* vTaskNotifyGiveFromISR, if there is a handle.
Notify ==
    /\ callback = "notify"
    /\ pending' = (pending \/ handleSet)
    /\ early' = IF handleSet THEN early ELSE early \cup {queue[i] : i \in 1..Len(queue)}
    /\ callback' = "idle"
    /\ UNCHANGED <<queue, task, entry, handleSet, arrived, dropped, handled>>

-----------------------------------------------------------------------------
(***************************************************************************)
(* Boot and the mesh task.                                                 *)
(***************************************************************************)

\* xTaskCreateStaticPinnedToCore, then setDrainNotifyHandle.
CreateTask ==
    /\ task = "none"
    /\ task' = "wait"
    /\ UNCHANGED <<queue, pending, entry, handleSet, callback, arrived, dropped, early, handled>>

SetHandle ==
    /\ task /= "none"
    /\ ~handleSet
    /\ handleSet' = TRUE
    /\ UNCHANGED <<queue, pending, task, entry, callback, arrived, dropped, early, handled>>

\* xTaskNotifyWait(0, ULONG_MAX, ...): returns at once when a notification
\* came in while the task was draining.
WaitReturns ==
    /\ task = "wait"
    /\ pending
    /\ pending' = FALSE
    /\ task' = "drain"
    /\ UNCHANGED <<queue, entry, handleSet, callback, arrived, dropped, early, handled>>

\* Fault: takes a copy but leaves the item in the buffer.
TakeEntryTwice ==
    /\ task = "drain"
    /\ queue /= << >>
    /\ entry' = Head(queue)
    /\ task' = "handle"
    /\ UNCHANGED <<queue, pending, handleSet, callback, arrived, dropped, early, handled>>

\* The loop of drain(): take, return the item, handle.
TakeEntry ==
    /\ task = "drain"
    /\ queue /= << >>
    /\ entry' = Head(queue)
    /\ queue' = Tail(queue)
    /\ task' = "handle"
    /\ UNCHANGED <<pending, handleSet, callback, arrived, dropped, early, handled>>

HandleEntry ==
    /\ task = "handle"
    /\ handled' = Append(handled, entry)
    /\ entry' = 0
    /\ task' = "drain"
    /\ UNCHANGED <<queue, pending, handleSet, callback, arrived, dropped, early>>

\* xRingbufferReceive finds nothing.
DrainEnds ==
    /\ task = "drain"
    /\ queue = << >>
    /\ task' = "wait"
    /\ UNCHANGED <<queue, pending, entry, handleSet, callback, arrived, dropped, early, handled>>

MeshTask == WaitReturns \/ TakeEntry \/ HandleEntry \/ DrainEnds

Next == Receive \/ Notify \/ CreateTask \/ SetHandle \/ MeshTask

Spec == Init /\ [][Next]_vars

\* The callback runs to its end, boot goes on, and the mesh task is the
\* highest-priority task of its core, so it runs when it can.
FairSpec ==
    /\ Spec
    /\ WF_vars(Notify)
    /\ WF_vars(CreateTask)
    /\ WF_vars(SetHandle)
    /\ WF_vars(MeshTask)

-----------------------------------------------------------------------------
(***************************************************************************)
(* Properties.                                                             *)
(***************************************************************************)

InQueue(f) == \E i \in 1..Len(queue) : queue[i] = f

\* No lost wake-up: when the task sleeps over a frame that was queued with a
\* handle in place, the notification is pending or about to be given.
NoLostWakeup ==
    task = "wait" /\ ~pending /\ callback = "idle" =>
        \A f \in FrameIds : InQueue(f) => f \in early

\* Frames are handled in the order they arrived, each at most once, and none
\* is missing but the ones a full buffer dropped.
InOrderNoLoss ==
    /\ \A i, j \in 1..Len(handled) : i < j => handled[i] < handled[j]
    /\ \A f \in 1..arrived :
         \/ f \in dropped
         \/ f = entry
         \/ InQueue(f)
         \/ \E i \in 1..Len(handled) : handled[i] = f

\* Every frame that is queued once the handle is in place gets handled, with
\* no further frame to wake the task: the last frame of a burst is not left
\* lying.
QueuedGetsHandled ==
    \A f \in FrameIds :
        (InQueue(f) /\ f \notin early /\ handleSet) ~>
            (f \in early \/ \E i \in 1..Len(handled) : handled[i] = f)
=============================================================================
