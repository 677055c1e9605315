--------------------------- MODULE MeshTasksProofs ---------------------------
(***************************************************************************)
(* What the receive path promises holds in the node with its other task at *)
(* work, for every size of the ring buffer, number of frames and set of    *)
(* masters.                                                                *)
(***************************************************************************)
EXTENDS MeshTasks, TLAPS

\* The place of the draining task: a frame is in its hands only while it
\* handles it.
EntryInv == IF task = "handle" THEN entry \in 1..arrived ELSE entry = 0

\* Nobody sleeps over a frame, the time before the task exists included: the
\* inductive form of NoLostWakeup.
WakeupInv ==
    task \in {"none", "wait"} /\ ~pending /\ callback = "idle" =>
        \A i \in 1..Len(queue) : queue[i] \in early

\* Handled frames come before the one in hand, that one before the queued
\* ones, and those before what will arrive; each part is in order.
OrderInv ==
    /\ \A i \in 1..Len(queue) : queue[i] <= arrived
    /\ \A i, j \in 1..Len(queue) : i < j => queue[i] < queue[j]
    /\ \A i \in 1..Len(queue) : entry < queue[i]
    /\ \A i \in 1..Len(handled) : handled[i] <= arrived
    /\ \A i \in 1..Len(handled) : entry = 0 \/ handled[i] < entry
    /\ \A i \in 1..Len(handled), j \in 1..Len(queue) : handled[i] < queue[j]

RecvInv == TypeOK /\ EntryInv /\ WakeupInv /\ OrderInv /\ InOrderNoLoss

\* Boot starts with an empty buffer.
LEMMA RecvInit == Init => RecvInv
<1> SUFFICES ASSUME Init PROVE RecvInv
  OBVIOUS
<1> USE RecvConstants DEF Init
<1>1. Len(queue) = 0 /\ Len(handled) = 0
  OBVIOUS
<1>2. TypeOK
  <2>1. queue \in Seq(FrameIds) /\ handled \in Seq(FrameIds) /\ Len(queue) <= Capacity
    BY <1>1
  <2>2. entry \in 0..MaxFrames /\ arrived \in 0..MaxFrames
    OBVIOUS
  <2> QED
    BY <2>1, <2>2 DEF TypeOK
<1>3. EntryInv /\ WakeupInv
  BY <1>1 DEF EntryInv, WakeupInv
<1>4. OrderInv /\ InOrderNoLoss
  BY <1>1 DEF OrderInv, InOrderNoLoss
<1> QED
  BY <1>2, <1>3, <1>4 DEF RecvInv

\* Queued and handled frames are numbers that can be compared.
LEMMA QueueTypes ==
    ASSUME TypeOK
    PROVE  /\ \A i \in 1..Len(queue) : queue[i] \in Nat /\ queue[i] \in FrameIds
           /\ \A i \in 1..Len(handled) : handled[i] \in Nat /\ handled[i] \in FrameIds
BY RecvConstants DEF TypeOK, FrameIds

\* A new frame goes to the end of the buffer, or is dropped
\* (MeshTransport::onDataRecvCallback).
LEMMA ReceiveStep == ASSUME RecvInv, Receive PROVE RecvInv'
<1> USE RecvConstants DEF RecvInv, FrameIds
<1>1. CASE Len(queue) < Capacity
  <2>1. queue' = Append(queue, arrived + 1) /\ dropped' = dropped /\ arrived + 1 \in FrameIds
    BY <1>1 DEF Receive, TypeOK
  <2>2. /\ queue' \in Seq(FrameIds) /\ Len(queue') = Len(queue) + 1
        /\ \A i \in 1..Len(queue) : queue'[i] = queue[i]
        /\ queue'[Len(queue) + 1] = arrived + 1
    BY <2>1 DEF TypeOK
  <2>3. TypeOK'
    BY <1>1, <2>2, <2>1 DEF Receive, TypeOK
  <2>4. EntryInv' /\ WakeupInv'
    BY DEF Receive, EntryInv, WakeupInv, TypeOK
  <2>5. OrderInv'
    <3>1. \A i \in 1..Len(queue') : i \in 1..Len(queue) \/ (i = Len(queue) + 1 /\ queue'[i] = arrived + 1)
      BY <2>2 DEF TypeOK
    <3>2. /\ arrived' = arrived + 1 /\ entry' = entry /\ handled' = handled
          /\ arrived \in Nat /\ entry \in Nat /\ entry <= arrived /\ Len(queue) \in Nat
      BY DEF Receive, EntryInv, TypeOK
    <3>3. ASSUME NEW i \in 1..Len(queue')
          PROVE  /\ queue'[i] <= arrived + 1 /\ entry < queue'[i]
                 /\ \A k \in 1..Len(handled) : handled[k] < queue'[i]
      <4>1. CASE i \in 1..Len(queue)
        BY <4>1, <2>2, <3>2, QueueTypes, SMTT(30) DEF OrderInv
      <4>2. CASE i = Len(queue) + 1 /\ queue'[i] = arrived + 1
        BY <4>2, <3>2, QueueTypes DEF OrderInv
      <4> QED
        BY <3>1, <4>1, <4>2
    <3>4. ASSUME NEW i \in 1..Len(queue'), NEW j \in 1..Len(queue'), i < j
          PROVE  queue'[i] < queue'[j]
      <4>1. i \in 1..Len(queue) /\ queue'[i] = queue[i]
        BY <2>2, <3>2, <3>4
      <4>2. CASE j \in 1..Len(queue)
        BY <4>1, <4>2, <2>2, <3>4 DEF OrderInv
      <4>3. CASE j = Len(queue) + 1 /\ queue'[j] = arrived + 1
        BY <4>1, <4>3, <3>2, QueueTypes DEF OrderInv
      <4> QED
        BY <3>1, <4>2, <4>3
    <3>5. \A i \in 1..Len(handled) : handled[i] <= arrived + 1
      BY QueueTypes DEF OrderInv, TypeOK
    <3> QED
      BY <3>2, <3>3, <3>4, <3>5 DEF OrderInv
  <2>6. InOrderNoLoss'
    <3>1. \A f \in 1..arrived : InQueue(f) => InQueue(f)'
      BY <2>2, SMTT(30) DEF InQueue, TypeOK
    <3>2. \E i \in 1..Len(queue') : queue'[i] = arrived + 1
      <4>1. Len(queue) + 1 \in 1..Len(queue')
        BY <2>2 DEF TypeOK
      <4> QED
        BY <4>1, <2>2
    <3>3. /\ \A f \in 1..arrived' : f \in 1..arrived \/ f = arrived + 1
          /\ entry' = entry /\ handled' = handled
      BY DEF Receive, TypeOK
    <3>4. ASSUME NEW f \in 1..arrived'
          PROVE  f \in dropped \/ f = entry \/ InQueue(f)' \/ \E i \in 1..Len(handled) : handled[i] = f
      BY <3>1, <3>2, <3>3 DEF InOrderNoLoss, InQueue
    <3> QED
      BY <3>3, <3>4, <2>1 DEF InOrderNoLoss
  <2> QED
    BY <2>3, <2>4, <2>5, <2>6
<1>2. CASE ~(Len(queue) < Capacity)
  <2>1. /\ queue' = queue /\ dropped' = dropped \cup {arrived + 1}
        /\ arrived' = arrived + 1 /\ arrived + 1 \in FrameIds
        /\ callback' = "notify"
        /\ UNCHANGED <<pending, task, entry, handleSet, early, handled>>
    BY <1>2 DEF Receive, TypeOK
  <2>2. TypeOK'
    BY <2>1 DEF TypeOK
  <2>3. EntryInv' /\ WakeupInv'
    BY <2>1 DEF EntryInv, WakeupInv, TypeOK
  <2>4. OrderInv'
    <3>1. /\ \A i \in 1..Len(queue) : queue[i] <= arrived + 1
          /\ \A i \in 1..Len(handled) : handled[i] <= arrived + 1
      BY QueueTypes, SMTT(30) DEF OrderInv, TypeOK
    <3> QED
      BY <2>1, <3>1 DEF OrderInv
  <2>5. InOrderNoLoss'
    <3>1. \A f \in 1..arrived' : f \in 1..arrived \/ f = arrived + 1
      BY <2>1 DEF TypeOK
    <3> QED
      BY <2>1, <3>1 DEF InOrderNoLoss, InQueue
  <2> QED
    BY <2>2, <2>3, <2>4, <2>5
<1> QED
  BY <1>1, <1>2

\* The notification follows, if there is somebody to notify.
LEMMA NotifyStep == ASSUME RecvInv, Notify PROVE RecvInv'
<1> USE RecvConstants DEF RecvInv, FrameIds
<1>1. TypeOK'
  <2>1. pending' \in BOOLEAN
    BY DEF Notify, TypeOK
  <2>2. early' \subseteq FrameIds
    BY QueueTypes DEF Notify, TypeOK
  <2> QED
    BY <2>1, <2>2 DEF Notify, TypeOK
<1>2. WakeupInv'
  BY DEF Notify, WakeupInv, TypeOK
<1>3. EntryInv' /\ OrderInv' /\ InOrderNoLoss'
  BY DEF Notify, EntryInv, OrderInv, InOrderNoLoss, InQueue
<1> QED
  BY <1>1, <1>2, <1>3

\* drain() takes the oldest frame.
LEMMA TakeStep == ASSUME RecvInv, TakeEntry PROVE RecvInv'
<1> USE RecvConstants DEF RecvInv, FrameIds
<1>1. /\ queue' = Tail(queue) /\ entry' = queue[1] /\ entry = 0
      /\ Len(queue) > 0 /\ queue[1] \in FrameIds
  BY DEF TakeEntry, TypeOK, EntryInv
<1>2. /\ queue' \in Seq(FrameIds) /\ Len(queue') = Len(queue) - 1
      /\ \A i \in 1..Len(queue') : queue'[i] = queue[i + 1]
  BY <1>1 DEF TypeOK
<1>3. TypeOK'
  BY <1>1, <1>2 DEF TakeEntry, TypeOK
<1>4. EntryInv' /\ WakeupInv'
  BY <1>1 DEF TakeEntry, EntryInv, WakeupInv, OrderInv, TypeOK
<1>5. OrderInv'
  BY <1>1, <1>2, SMTT(30) DEF TakeEntry, OrderInv, TypeOK
<1>6. InOrderNoLoss'
  <2>1. ASSUME NEW f \in 1..arrived, InQueue(f), f # queue[1] PROVE InQueue(f)'
    <3>1. PICK i \in 1..Len(queue) : queue[i] = f
      BY <2>1 DEF InQueue
    <3>2. i # 1 /\ i - 1 \in 1..Len(queue')
      BY <2>1, <3>1, <1>2 DEF TypeOK
    <3>3. queue'[i - 1] = f
      BY <3>1, <3>2, <1>2, SMTT(30) DEF TypeOK
    <3> QED
      BY <3>2, <3>3 DEF InQueue
  <2> QED
    BY <2>1, <1>1 DEF TakeEntry, InOrderNoLoss, TypeOK
<1> QED
  BY <1>3, <1>4, <1>5, <1>6

\* handleReceivedMessage returns.
LEMMA HandleStep == ASSUME RecvInv, HandleEntry PROVE RecvInv'
<1> USE RecvConstants DEF RecvInv, FrameIds
<1>1. /\ handled' = Append(handled, entry) /\ entry' = 0 /\ entry \in 1..arrived
      /\ entry \in FrameIds
  BY DEF HandleEntry, EntryInv, TypeOK
<1>2. /\ handled' \in Seq(FrameIds) /\ Len(handled') = Len(handled) + 1
      /\ \A i \in 1..Len(handled) : handled'[i] = handled[i]
      /\ handled'[Len(handled) + 1] = entry
  BY <1>1 DEF TypeOK
<1>3. TypeOK'
  BY <1>1, <1>2 DEF HandleEntry, TypeOK
<1>4. EntryInv' /\ WakeupInv'
  BY <1>1 DEF HandleEntry, EntryInv, WakeupInv
<1>5. OrderInv'
  BY <1>1, <1>2 DEF HandleEntry, OrderInv, TypeOK
<1>6. InOrderNoLoss'
  <2>1. \A i, j \in 1..Len(handled') : i < j => handled'[i] < handled'[j]
    BY <1>1, <1>2, SMTT(30) DEF InOrderNoLoss, OrderInv, TypeOK
  <2>2. \A f \in 1..arrived :
          f = entry \/ (\E i \in 1..Len(handled) : handled[i] = f)
            => \E i \in 1..Len(handled') : handled'[i] = f
    <3>1. Len(handled) + 1 \in 1..Len(handled') /\ 1..Len(handled) \subseteq 1..Len(handled')
      BY <1>2 DEF TypeOK
    <3> QED
      BY <1>2, <3>1
  <2> QED
    BY <2>1, <2>2 DEF HandleEntry, InOrderNoLoss, InQueue
<1> QED
  BY <1>3, <1>4, <1>5, <1>6

\* Boot, waking up and falling asleep.
LEMMA OtherStep ==
    ASSUME RecvInv, CreateTask \/ SetHandle \/ WaitReturns \/ DrainEnds \/ UNCHANGED vars
    PROVE  RecvInv'
<1> USE DEF RecvInv, TypeOK, EntryInv, WakeupInv, OrderInv, InOrderNoLoss, InQueue
<1>1. CASE CreateTask
  BY <1>1 DEF CreateTask
<1>2. CASE SetHandle
  BY <1>2 DEF SetHandle
<1>3. CASE WaitReturns
  BY <1>3 DEF WaitReturns
<1>4. CASE DrainEnds
  BY <1>4 DEF DrainEnds
<1>5. CASE UNCHANGED vars
  BY <1>5 DEF vars
<1> QED
  BY <1>1, <1>2, <1>3, <1>4, <1>5

\* The receive path keeps its invariant by itself.
LEMMA RecvStep == RecvInv /\ [Next]_vars => RecvInv'
BY ReceiveStep, NotifyStep, TakeStep, HandleStep, OtherStep DEF Next, MeshTask

\* What the rest of the node does is a step of the receive path or none: a
\* beacon is processed while the frame is in hand, and the housekeeping task
\* does not touch the buffer.
LEMMA TasksStep == [NodeNext]_nodeVars => [Next]_vars
BY DEF NodeNext, nodeVars, Alone, Watch, BootAndCallback, MeshSteps, HousekeepingSteps,
   StartHandling, HandleOther, EndHandling, Next, MeshTask

\* The node implements the receive path: adding the processing of beacons and
\* the housekeeping task restricts what the path does and adds nothing
\* (mesh_task_fn, MeshTransport::drain).
THEOREM TasksImplementRecvPath == NodeSpec => Spec
<1>1. NodeInit => Init
  BY DEF NodeInit
<1> QED
  BY <1>1, TasksStep, PTL DEF NodeSpec, Spec

\* In the whole node frames are handled in the order of their arrival, each at
\* most once, and none is missing but the ones a full buffer dropped
\* (MeshTransport::drain).
THEOREM FramesInOrder == NodeSpec => []InOrderNoLoss
<1>1. RecvInv => InOrderNoLoss
  BY DEF RecvInv
<1> QED
  BY <1>1, RecvInit, RecvStep, TasksImplementRecvPath, PTL DEF Spec

\* The mesh task never sleeps over a frame that was queued with a handle in
\* place unless a notification is pending or about to be given
\* (MeshTransport.cpp:106).
THEOREM WakeupsKept == NodeSpec => []NoLostWakeup
<1>1. RecvInv => NoLostWakeup
  BY DEF RecvInv, WakeupInv, NoLostWakeup, InQueue
<1> QED
  BY <1>1, RecvInit, RecvStep, TasksImplementRecvPath, PTL DEF Spec

-----------------------------------------------------------------------------
(***************************************************************************)
(* The master a node follows, with checkTimeout and process() at work side *)
(* by side.                                                                *)
(***************************************************************************)

\* Distances in time are what MasterWatch says they are.
ClockInv ==
    /\ age \in 0..(Stale + MaxLag + 1) /\ uptime \in 0..(Stale + MaxLag + 1)
    /\ quiet \in 0..(Stale + 1) /\ lag \in 0..MaxLag

\* The age of the last beacon is the true silence until checkTimeout writes
\* it; checkTimeout is past its test, or has written, only after silence or
\* if the last beacon came in between; and between its two loads a beacon
\* that did not come in between is no younger than the clock it read.
SilenceInv ==
    /\ ~cleared => quiet = IF age > Stale THEN Stale + 1 ELSE age
    /\ cleared \/ hk \in {"mac", "distance", "time"} => quiet > Stale \/ raced
    /\ hk = "compare" /\ ~raced => age >= lag

\* A pinned node knows no other master, and a beacon that got past the pin is
\* the pinned master's.
PinInv ==
    pin # NoMac =>
        /\ known \in {NoMac, pin} /\ mac \in {NoMac, pin} /\ lastSeen \in {NoMac, pin}
        /\ mesh \in {"seen", "route"} => msg.origin = pin

WatchInv == ClockInv /\ SilenceInv /\ PinInv

\* What a step of the node does to the watch.
LEMMA WatchSteps ==
    ASSUME [NodeNext]_nodeVars
    PROVE  \/ W!Judge(radio[entry]) \/ W!Process \/ W!Returns
           \/ W!Housekeeping \/ W!Tick \/ UNCHANGED watchVars
BY DEF NodeNext, nodeVars, Alone, Watch, BootAndCallback, MeshSteps, HousekeepingSteps,
   StartHandling, HandleOther, EndHandling

\* process() judges a beacon by the pin first.
LEMMA JudgeStep ==
    ASSUME WatchInv, NEW b, W!Judge(b)
    PROVE  WatchInv'
<1>1. UNCHANGED <<pin, mac, hasRoute, lastSeen, age, uptime, hk, lag, quiet, cleared, raced>>
  BY DEF W!Judge, W!build, W!master, W!hkLocal
<1>2. ClockInv' /\ SilenceInv'
  BY <1>1 DEF WatchInv, ClockInv, SilenceInv
<1>3. CASE W!Ignore(b)
  BY <1>1, <1>2, <1>3 DEF W!Ignore, WatchInv, PinInv
<1>4. ASSUME NEW x \in {b.origin, known}, NEW y, W!Adopt(b, x, y), pin \in {NoMac, b.origin}
      PROVE  WatchInv'
  BY <1>1, <1>2, <1>4 DEF W!Adopt, WatchInv, PinInv
<1> QED
  BY <1>3, <1>4 DEF W!Judge

\* process() then takes note of the beacon, step by step.
LEMMA ProcessStep ==
    ASSUME WatchInv, W!Process \/ W!Returns PROVE WatchInv'
<1> USE MeshTasksConstants DEF WatchInv
<1>1. CASE W!SetSeen
  <2>1. ClockInv' /\ PinInv'
    BY <1>1 DEF W!SetSeen, W!build, W!chosen, W!hkLocal, ClockInv, PinInv
  <2>2. /\ quiet' = 0 /\ age' = 0 /\ cleared' = FALSE /\ hk' = hk
        /\ hk \in {"compare", "mac", "distance", "time"} => raced'
    BY <1>1 DEF W!SetSeen, W!hkLocal
  <2>3. SilenceInv'
    BY <2>2 DEF SilenceInv
  <2> QED
    BY <2>1, <2>3
<1>2. CASE W!SetRoute \/ W!Mark \/ W!WriteHead \/ W!WriteTailAndFlag \/ W!Returns
  <2>1. /\ UNCHANGED <<pin, known, lastSeen, age, uptime, hk, lag, quiet, cleared, raced>>
        /\ mesh' \notin {"seen", "route"}
    BY <1>2 DEF W!SetRoute, W!Mark, W!WriteHead, W!WriteTailAndFlag, W!Returns,
       W!build, W!chosen, W!master, W!hkLocal
  <2>2. mac' = mac \/ (mesh = "route" /\ mac' = msg.origin)
    BY <1>2 DEF W!SetRoute, W!Mark, W!WriteHead, W!WriteTailAndFlag, W!Returns, W!master
  <2> QED
    BY <2>1, <2>2 DEF ClockInv, SilenceInv, PinInv
<1> QED
  BY <1>1, <1>2 DEF W!Process

\* The housekeeping task gives a master up in four steps.
LEMMA HousekeepingStep == ASSUME WatchInv, W!Housekeeping PROVE WatchInv'
<1> USE MeshTasksConstants DEF WatchInv
<1>1. UNCHANGED <<pin, known, uptime, mesh, msg, quiet, raced>>
  BY DEF W!Housekeeping, W!RelayNotDue, W!RelayDue, W!ClaimRelay, W!CopyHead, W!SendRelay,
     W!NoMasterKnown, W!ReadClock, W!Compare, W!ClearMac, W!ClearDistance, W!ClearTime,
     W!build, W!chosen, W!meshLocal
<1>2. mac' \in {mac, NoMac} /\ lastSeen' \in {lastSeen, NoMac}
  BY DEF W!Housekeeping, W!RelayNotDue, W!RelayDue, W!ClaimRelay, W!CopyHead, W!SendRelay,
     W!NoMasterKnown, W!ReadClock, W!Compare, W!ClearMac, W!ClearDistance, W!ClearTime,
     W!master
<1>3. PinInv'
  BY <1>1, <1>2 DEF PinInv
<1>4. CASE W!RelayNotDue \/ W!RelayDue \/ W!ClaimRelay \/ W!CopyHead \/ W!SendRelay \/ W!NoMasterKnown
  <2>1. /\ UNCHANGED <<age, lag, cleared>>
        /\ hk' \notin {"compare", "mac", "distance", "time"}
    BY <1>4 DEF W!RelayNotDue, W!RelayDue, W!ClaimRelay, W!CopyHead, W!SendRelay,
       W!NoMasterKnown, W!At
  <2> QED
    BY <1>1, <1>3, <2>1 DEF ClockInv, SilenceInv
<1>5. CASE W!ReadClock
  <2>1. UNCHANGED <<age, cleared>> /\ hk' = "compare" /\ lag' = 0
    BY <1>5 DEF W!ReadClock, W!At
  <2> QED
    BY <1>1, <1>3, <2>1 DEF ClockInv, SilenceInv
<1>6. CASE W!Compare
  <2>1. /\ UNCHANGED <<age, cleared>> /\ lag' = 0 /\ hk = "compare"
        /\ hk' = IF W!TimedOut THEN "mac" ELSE "loop"
    BY <1>6 DEF W!Compare, W!At
  <2>2. W!TimedOut => quiet > Stale \/ raced
    BY <2>1 DEF W!TimedOut, ClockInv, SilenceInv
  <2> QED
    BY <1>1, <1>3, <2>1, <2>2 DEF ClockInv, SilenceInv
<1>7. CASE W!ClearMac
  <2>1. UNCHANGED <<age, lag, cleared>> /\ hk = "mac" /\ hk' = "distance"
    BY <1>7 DEF W!ClearMac, W!At
  <2> QED
    BY <1>1, <1>3, <2>1 DEF ClockInv, SilenceInv
<1>8. CASE W!ClearDistance \/ W!ClearTime
  <2>1. /\ age' \in {age, uptime} /\ lag' = lag /\ cleared' = TRUE
        /\ hk \in {"distance", "time"} /\ hk' \in {"time", "loop"}
    BY <1>8 DEF W!ClearDistance, W!ClearTime, W!At
  <2> QED
    BY <1>1, <1>3, <2>1 DEF ClockInv, SilenceInv
<1> QED
  BY <1>4, <1>5, <1>6, <1>7, <1>8 DEF W!Housekeeping

\* Time passes for every distance alike.
LEMMA TickStep == ASSUME WatchInv, W!Tick PROVE WatchInv'
<1> USE MeshTasksConstants DEF WatchInv
<1>1. /\ UNCHANGED <<pin, known, mac, lastSeen, mesh, msg, hk, cleared, raced>>
      /\ hk = "compare" => lag < MaxLag
      /\ lag' = IF hk = "compare" THEN lag + 1 ELSE lag
      /\ age' = IF age > Stale + MaxLag THEN age ELSE age + 1
      /\ uptime' = IF uptime > Stale + MaxLag THEN uptime ELSE uptime + 1
      /\ quiet' = IF quiet > Stale THEN quiet ELSE quiet + 1
  BY DEF W!Tick, W!Older, W!build, W!chosen, W!master, W!meshLocal
<1>2. PinInv'
  BY <1>1 DEF PinInv
<1>3. ClockInv'
  BY <1>1 DEF ClockInv
<1>4. SilenceInv'
  BY <1>1 DEF ClockInv, SilenceInv
<1> QED
  BY <1>2, <1>3, <1>4

LEMMA WatchStep == WatchInv /\ [NodeNext]_nodeVars => WatchInv'
<1>1. WatchInv /\ UNCHANGED watchVars => WatchInv'
  BY DEF watchVars, WatchInv, ClockInv, SilenceInv, PinInv
<1> QED
  BY <1>1, WatchSteps, JudgeStep, ProcessStep, HousekeepingStep, TickStep

\* Silence, pin and timeout stay in step while both tasks run without a lock
\* (MasterBeacon::process, MasterBeacon::checkTimeout).
THEOREM WatchInvariant == NodeSpec => []WatchInv
<1>1. NodeInit => WatchInv
  BY MeshTasksConstants DEF NodeInit, W!Init, WatchInv, ClockInv, SilenceInv, PinInv
<1> QED
  BY <1>1, WatchStep, PTL DEF NodeSpec

\* A node gives up its master only after the stale threshold, or when the
\* master's last beacon came while checkTimeout was at work
\* (MasterBeacon.cpp:41-48).
THEOREM MasterDroppedOnlyIfSilentOrRaced == NodeSpec => DroppedOnlyIfSilentOrRaced
<1>1. ASSUME WatchInv, [NodeNext]_nodeVars
      PROVE  [hasRoute /\ ~hasRoute' => quiet > Stale \/ raced]_(W!vars)
  <2> SUFFICES ASSUME hasRoute, ~hasRoute' PROVE quiet > Stale \/ raced
    OBVIOUS
  <2>1. W!ClearDistance
    <3>1. ~W!Judge(radio[entry]) /\ ~W!Process /\ ~W!Returns /\ ~W!Tick /\ ~UNCHANGED watchVars
      BY DEF W!Judge, W!Process, W!Returns, W!Tick, watchVars, W!SetSeen, W!SetRoute, W!Mark,
         W!WriteHead, W!WriteTailAndFlag, W!master
    <3>2. W!Housekeeping
      BY <1>1, <3>1, WatchSteps
    <3> QED
      BY <3>2 DEF W!Housekeeping, W!RelayNotDue, W!RelayDue, W!ClaimRelay, W!CopyHead,
         W!SendRelay, W!NoMasterKnown, W!ReadClock, W!Compare, W!ClearMac, W!ClearTime, W!master
  <2> QED
    BY <1>1, <2>1 DEF W!ClearDistance, W!At, WatchInv, SilenceInv
<1> QED
  BY <1>1, WatchInvariant, PTL DEF NodeSpec, DroppedOnlyIfSilentOrRaced, W!DroppedOnlyIfSilentOrRaced

\* Another board takes the primary's place only after silence or once the
\* master was given up (MasterBeacon.cpp:95-113).
THEOREM MasterReplacedOnlyAfterSilence == NodeSpec => ReplacedOnlyAfterSilence
<1>1. ASSUME WatchInv, [NodeNext]_nodeVars
      PROVE  [known # NoMac /\ known' # known => quiet >= Stale \/ cleared]_(W!vars)
  <2> SUFFICES ASSUME known # NoMac, known' # known PROVE quiet >= Stale \/ cleared
    OBVIOUS
  <2>1. W!Judge(radio[entry])
    BY <1>1, WatchSteps DEF W!Process, W!Returns, W!Tick, watchVars, W!SetSeen,
         W!SetRoute, W!Mark, W!WriteHead, W!WriteTailAndFlag, W!chosen, W!Housekeeping,
         W!RelayNotDue, W!RelayDue, W!ClaimRelay, W!CopyHead, W!SendRelay, W!NoMasterKnown,
         W!ReadClock, W!Compare, W!ClearMac, W!ClearDistance, W!ClearTime
  <2>2. age >= Stale
    BY <2>1 DEF W!Judge, W!Adopt, W!Ignore
  <2> QED
    BY <1>1, <2>2, MeshTasksConstants DEF WatchInv, ClockInv, SilenceInv
<1> QED
  BY <1>1, WatchInvariant, PTL DEF NodeSpec, ReplacedOnlyAfterSilence, W!ReplacedOnlyAfterSilence
=============================================================================
