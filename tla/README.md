# Lattice node firmware in TLA+

TLA+ models of the firmware under `firmware/main/` (paths below are relative to
`firmware/main/src/` unless they start with `docs/` or `main.cpp`): an ESP32
mesh over ESP-NOW in which leaf nodes report sensor data to a master that talks
to a server over UART. Each model is checked with TLC on a small instance, and
the results that matter most are proved with TLAPS for every value of the
constants. `PROJECT.json` maps every definition to the lines it models.

## 1. The system

Two FreeRTOS tasks run the node. The **mesh task** (`mesh_task_fn`,
`main.cpp:92`) sleeps until the ESP-NOW receive callback notifies it, then
drains the receive ring buffer through `Mesh::handleReceivedMessage`. The
**housekeeping task** (`housekeeping_task_fn`, `main.cpp:117`) runs every 10 ms:
buttons, `Mesh::loop` (beacons, timeouts, enrolment retries, route reports) and
the adapter's `loop`. They share `Mesh` and its members without a lock. Settings,
keys and counters that have to survive a restart are NVS keys, written one at a
time.

| Part | State it keeps | Operations | Talks to | What makes it correct |
|---|---|---|---|---|
| Outbound sequence (`mesh/ReplayCache.h`, `OutboundSequenceState`) | boot epoch (RAM, NVS), sequence number, last sealed pair | draw a number, wrap into a new epoch, seal-time guard | both tasks; NVS | an (epoch, seq) pair, which is the AEAD nonce, is used once |
| Replay cache (`ReplayCache`) | newest (epoch, seq) for each remembered origin | `isReplay` | every frame received | no frame twice, the newest one never dropped |
| Buttons (`app/ButtonHandler.h`, `hardware/input/Button.cpp`) | debounce, hold timers, armed wipe | `tickConfig`, `tickReset` | NVS, restart | role and NVS change only by deliberate holds |
| Enrolment (`mesh/Enrollment.cpp`, `PeerEnrollment.cpp`, `PendingRelayQueue.cpp`, `MeshMessenger::enrollPeer`) | node: key, enrolled flag, registry, known masters; master: key for each peer, relay queue | request, relay to hub, approve, JOIN_ACK | radio, server, NVS | both sides agree on the key; everyone gets in |
| Peer table (`DownlinkRouter.cpp`, `UplinkRouter.cpp`, `MeshTransport.cpp`) | driver's peer table, downlink LRU, uplink relay | register, track, evict | ESP-NOW driver; both tasks | what can pile up in the driver's table is known |
| Receive path (`MeshTransport.cpp`) | ring buffer, notification | callback, drain | WiFi task, mesh task | no frame left lying, order kept |
| Routing (`MasterBeacon.cpp`, `NeighborTable.h`, `UplinkRouter.cpp`, `RouteReportHandler.cpp`, `RouteTable.h`, `DownlinkRouter.cpp`) | neighbour distances, current master, pending relay, master's routes | beacon, relay, report, uplink, downlink | radio | distances not below the truth, no loops, usable routes |
| Serial link (`adapter/serial/`, `adapter/Adapter.cpp`) | framing state, pending writes, adapter config | read bytes, dispatch commands, write frames | UART, mesh, NVS | frames neither merged nor split, buffer not overrun |
| Boot (`app/BootManager.h`, `error/ErrorCore.cpp`, `main.cpp`) | watchdog count (NVS) | check, init, restart, halt | every `esp_restart` | which crash loops halt |
| Node store (`persistence/eeprom/`, `mesh/PeerRegistry.cpp`) | NVS: key pair with its check sum, peer records | default peers, load, save, register | boot, mesh task | one identity for life, registered peers kept |
| Frame authorization (`FrameAuthorizer.cpp`) | none | `authorize` | receive path | who may send which control op |
| Dual master and pin (`MasterBeacon.cpp`, `EepromSecurity.cpp`) | current and secondary master, pin | beacon, timeout | both tasks | failover to a live master |
| PIR adapter (`adapter/pir/`) | interrupt flag, cooldown | interrupt handler, loop | ISR, housekeeping | motion is reported, once per cooldown |
| Message encoding (`mesh/serialization/`, nanopb) | none | encode, decode | serial link | decoding undoes encoding, other versions are understood |
| Crypto, displays, logging | keys; none | - | - | outside these models |

The hard behaviours: two tasks on unlocked state; resets between NVS writes; a
radio that loses, delays, repeats and reorders; fixed-size tables everywhere;
polled timers; a byte stream without resynchronisation. `PROJECT.json` lists
each as a hazard at the line where it bites, with the properties that guard it.

## 2. Modules

Each component is one module; its `Proofs` module holds the theorems (`PeerProofs`
those of `Enrollment` and of `PeerTable`, `OutboundProofs` those of `TxSequence` and
of `MessageCodec`); an `MC` module and its `.cfg` give the instance for TLC.
Components that share state are composed (`MeshTasks`, `NodeLife`). Those that share
none are checked side by side in one instance: `MCNodeParts` has `TxSequence`,
`ReplayCache`, `MessageCodec` and `ButtonHandler`, `MCMeshParts` has `Enrollment`,
`Routing` and `PeerTable`. A variable `part`, chosen in the initial state, says which
of them moves. Each property there is about one component's variables and, as an
invariant or an action property, about single states or steps of it, so interleaving
the components would show nothing more. The names of modules that are extended
together differ (`CacheSpec`, `ButtonSpec`, `CodecSpec`, `JoinSpec`, `TableSpec`).

| Module | Models | State and actions |
|---|---|---|
| `TxSequence` | `OutboundSequenceState`, its callers in `MeshMessenger`, `Mesh::init` | A `pc` for each task walks through `nextSeqGuarded`, epoch stamp, `checkEpochRollback` and use, one step per access to shared state. `Restart` may come between any two; `EraseNvs` starts a new identity. `used` is the history of consumed pairs. |
| `ReplayFilter` | abstract promise of the filter | A set of marks, one per origin, moved forward or forgotten. |
| `ReplayCache` | `ReplayCache::isReplay`, `mac_table.h` | Slot array with timestamps; origins boot, send, and every frame ever sent may arrive again. |
| `ButtonHandler` | `ButtonHandler.h`, `Button.cpp` | Each poll samples two pins at an arbitrary gap and performs the whole of `tick`. Time is in seconds. |
| `Enrollment` | joining through one master | The NVS writes of `processJoinAck` are steps of their own (`step`): register the master, which fails when the node's registry is full, set the flag, learn the address, then the same for the secondary master if the ACK names one. Frames, relay queue and hub are explicit; `Lose`, restarts and `WipeNode` are actions. |
| `PeerTable` | everything that changes the ESP-NOW table | `espNow` is the driver's table, against its owners: registry, LRU, uplink relay, masters. `findNextHopToMaster` runs in both tasks, one step for each access to `forwardingPeer` or to the driver (`call`); the copy of an address has two halves, so that a torn one is possible. `overlaps` counts the calls that ran beside another. |
| `RecvPath` | callback and mesh task | Push and notification are separate steps; so are task creation and `setDrainNotifyHandle`. |
| `Routing` | beacons, neighbours, reports, downlinks | Frames in `air` stay there, so they can be delivered late, again, or never. `marks` is the replay mark of each origin, without eviction (`ReplayCache` has that). `sealed` is what a leaf sealed last since it booted: its own frame coming back restarts it, or, if it has sealed nothing yet, is sealed and sent again. |
| `SerialLink` | framing, dispatch, UART writes | Bytes are digits of radix `Radix`; a command is a byte sequence with the fields dispatch reads; the two `uart_write_bytes` of a frame are two steps. |
| `Boot` | boot order around the watchdog count | Phases of `app_main` with their restarts; a watchdog may reset the node in each of them. By itself it has the code's limit of five; as part of `NodeLife` a smaller one. `hangs` and `crashes` are histories of the watchdog resets. |
| `MasterWatch` | `MasterBeacon`, the deferred relay of `Mesh::loop` | `process` (mesh task) and relay plus `checkTimeout` (housekeeping) as two program counters over the shared members, one step for each group of accesses the other task can see. `relayPendingMsg` has two halves, so that a torn copy is possible. Times are distances from now. |
| `MeshTasks` | `RecvPath` and `MasterWatch` composed | The mesh task takes a frame out of the ring buffer and processes its beacon while the other task runs. |
| `PirAdapter` | `PirAdapter.cpp`, `Pir.cpp` | The interrupt handler (`isr`) and the loop (`loop`), each with its own steps. |
| `NodeStore` | key pair and peer records in NVS, registry in RAM | Every NVS write is a step (`step`, `slot`); peers loaded and appended as in `PeerRegistry`. |
| `NodeLife` | `Boot`, `NodeStore` and `PirAdapter` composed | A node from reset to reset, in the order of `initSubsystems`; a reset loses the RAM at any step. |
| `Nanopb` | the parts of nanopb that a mesh message uses | Operators on byte sequences: varints, tags, the field descriptor of `mesh.pb.h`, encoding and decoding of one field. |
| `MessageCodec` | `SerialFraming::encode` and `decode` | One step per field; between the two the line cuts or garbles the frame, or the sender is of another version. |

Fault definitions beside an action (for example `TrackKeepsOldest`) are the
mutants of `PROJECT.json`: what the action would be with a plausible bug in it.
No specification uses them.

What the data abstractions keep: MAC addresses are model values; keys are
generation numbers (only equality matters); sequence numbers wrap at `SeqMod`
instead of 2^16; payloads are the fields that decide control flow. The AEAD is
ideal: a sealed frame opens under the matching key only.

## 3. Runs

| Run | Checks | Shows |
|---|---|---|
| `node_parts` | PairFresh, GuardNeverTrips | Sequence numbers, one drawing task: pairs are fresh across resets, wraps and erased NVS; the guard restarts the node only over its own echo. |
| | ForgottenOnlyByLRU, AtMostOnce, NewestNeverDropped, ImplementsFilter | Replay cache: the slot table implements the filter; forgetting needs `Slots` other origins heard since. |
| | MembersFit, EncodeFits, RoundTrip, CutNoticed | Encoding: decoding undoes encoding at the edges of every field; fields of other versions and other field orders do no harm; a cut frame is noticed unless it is cut between fields. |
| | ConfirmLapses, HoldAfterArming, ToggleNeedsHold, WipeNeedsSecondHold | Buttons: with a window longer than the hold (so the wipe is reachable) role and NVS change only after full holds. |
| `mesh_parts` | EnrolledHasUplink, KeysAgree | Joining: safe at every restart point, with a registry that has room for both masters, for one or for none. |
| | NeverUnderestimates, ReportsDoNotLoop, SourceRouteUsable | Routing: distances, reports and source routes hold up under stale tables and restarts. |
| | TableBounded | Peer table: with two tasks at work the driver's table holds one relay beside its other owners, and one more for each overlapping call. |
| `tx_sequence_tasks` | PairNotReused, **violated** | Both tasks draw: one pair is used twice. |
| `enrollment_retry` | EventuallyEnrolled | Without wipes, and with room in their registries, two nodes that compete for the relay queue are both enrolled in the end. |
| `enrollment_wipe` | WipedNodeReenrolls, **violated** | A wiped node never enrols again. |
| `peer_table_lru` | EnrolledKeepEntry, **violated** | A tracked hop that enrols loses its entry when the LRU evicts it. |
| `serial_link` | FrameInBuffer, InboundExact, PowerDoesNotCirculate, CommandsGetHandled | Framing is exact while the line is intact and safe when it is not. |
| `serial_link_tasks` | WholeFrames, **violated** | Two tasks write at once: the server reads a frame with another one's bytes in it. |
| `mesh_tasks` | InOrderNoLoss, QueuedGetsHandled, DroppedOnlyIfSilentOrRaced, ReplacedOnlyAfterSilence, SilentMasterDropped, BeaconsRelayed | No frame is left lying for want of a wake-up; the two tasks' unlocked accesses can drop a live master only when a beacon and the timeout race; a silent master is given up and every accepted beacon is relayed, or a newer one is. |
| `mesh_tasks_secondary` | SecondaryTrusted, **violated** | An enrolled production node drops the beacons of the secondary master that its JOIN_ACK named. |
| `node_life` | HaltNeedsHangs, OneIdentity, RegisteredPeersKept, ReportsSpaced, MotionReported, SensorRearms | Over resets of every kind at any step only watchdog resets before `err_core::init` add up to the halt; the node keeps one identity and its registered peers; the sensor reports with the cooldown in between and is always armed again. |
| `boot_crash_loop` | CrashLoopHalts, **violated** | Five watchdog resets in a row, and the node is in service again. |

The types of a module's variables are stated in its `TypeOK` (`CacheTypeOK` and so
on). They are not
listed among the runs' properties, where only what is about the code is.
`MembersFit` of `node_parts` is there because it says that no member of the
decoded struct is written past its end. `TypeOK` of the modules with proofs is a part of the
inductive invariants.

### Bounds

- `node_parts`, sequence numbers: `SeqMod = 3`, `EpochMax = 4`: several boots and wraps in any
  order. `EpochMax` itself is the "nothing sealed" mark (0xFFFFFFFF in the code)
  and is not reached. `MaxIdentity = 1`: one erase of NVS.
- `node_parts`, replay cache: three origins for two slots, so that eviction happens; two
  epochs, so that frames of two boots mix; equal timestamps occur.
- `node_parts`, buttons: debounce depth 2, polls 1 or 2 apart, 16 time units: enough for an
  arming hold, a lapse or a second hold.
- `mesh_parts`, joining: one node (nodes share nothing but queue and registry of the
  master), with two places in its registry of which none, one or both are taken;
  four restarts, of which two may be wipes. `enrollment_retry`: two nodes for a queue
  of one, so that it overflows, one with room for both masters and one with less;
  one restart or wipe.
- `mesh_parts`, peer table: five addresses for a registry and an LRU of one; three overlapping
  calls, so that a task can overlap with two calls of the other.
- `mesh_parts`, routing: a relay that hears the master and two leaves behind it that hear
  each other, so that a next-hop loop can form; tables smaller than the mesh; one
  leaf (`Unstable`) that may lose its power once, besides the restarts the code
  itself decides on, which are not bounded.
- `serial_link`: `Radix = 3` with `MaxPayload = 3` keeps the code's 256 to 256,
  so a full payload has a low length byte of 0; one command is too long; one lost
  byte, one delivery from the mesh, one local frame, two commands.
- `node_parts`, encoding: `Width = 15` bits stand for the 32 of a field, so that a varint
  takes one, two or three bytes (TLC's own integers end at 2^31 - 1); the messages
  have the smallest and the largest value of every field and the buffer sizes of
  the two callers; a byte is lost, garbled or the frame cut at every position. The
  theorems hold for 32 bits as well, for every message and every unknown field.
- `mesh_tasks`: three frames for a buffer of two; two boards, a pinned one that
  hears a foreign master between two beacons of its own, and a development board
  in dual mode that hears a second and a third master; for
  `mesh_tasks_secondary` a pinned board in dual mode that has learned a secondary. `Stale = 1` and
  `MaxLag = 1` let a beacon arrive between `checkTimeout`'s two loads. Times stop
  at `Stale + MaxLag + 1`, where nothing tells them apart any more, so time itself
  is not bounded.
- `boot_crash_loop`: the code's limit of 5, and no hang before `err_core::init`
  (`MaxHangs = 0`), so that nothing but crashes past it is in the trace.
- `node_life`: a watchdog limit of 2 and one hang, with which a node halts: the
  reset that the hang follows counts too (`HaltOnlyByHangs` is for every limit); two default peers and one more
  board in a registry of three; three key pairs, so that two attempts at saving
  one are cut short; a cooldown of one unit. Resets are not bounded.

`CHECK_DEADLOCK FALSE` is in the configurations whose instances end at their
counters' bounds; the firmware itself does not stop there. `boot_crash_loop`, where
power can always be cycled, checks for deadlock.

### Fairness

- `MeshTasks`: weak fairness of the callback's second half and of boot, of the
  mesh task, which has the highest priority of the firmware's own tasks on its
  core, of the housekeeping task, which is woken every 10 ms, and of time; strong
  fairness of finding a relay due, because the jitter is at most 73 ms and the
  test is made again in every pass. Arrival of frames is not fair. `RecvPath` has
  the first three in a `FairSpec` of its own.
- `NodeLife`: weak fairness of the adapter's loop, of an interrupt handler that
  has begun, and of time. Boot, resets, failures, sensor edges and joins are not
  fair: the properties end at a reset.
- `Enrollment`: weak fairness of the housekeeping loop (retry every 10 s, drain)
  and of the node's own join steps; strong fairness of *receiving* a request or
  an ACK and of the operator's approval: what is repeated for ever gets through
  some time. Loss, restarts and wipes are not fair, and restarts are bounded.
- `SerialLink`: weak fairness of the reading loop and of the tasks' writes; the
  server need not send anything.

The other specifications state safety only.

## 4. Proofs

No theorem bounds the constants beyond the named assumptions of the modules
(`TxConstants`, `ReplayConstants` and so on), which TLC evaluates in the runs.
Beyond types and distinct
values the assumptions ask that `Origins` and `Macs` are finite (there are finitely
many boards), that links go both ways (`Routing`), that commands have distinct codes
whose lengths fit the two length bytes (`SerialLink`), that a pinned board starts
knowing no other master than its own (`MeshTasks`), that the
watchdog limit is at least 2 (5 in the code), and, for `MessageCodec`
(`WidthAssumption`, `CodecAssumption`), that integers have 32 bits or TLC's 15,
that a buffer has the 256 bytes of `onMeshDataImpl` or, for a relayed enrollment
request with a protocol version below 128, the 128 bytes of
`relayEnrollmentToServer`, and that an unknown field has a tag this version does
not use and a value that its wire type allows.

Nearly all properties are about states in which nothing is in progress, and so
are not inductive; what the invariants add is where each thing in progress
stands.

- **`OutboundProofs`**: of `TxSequence` the theorems `TypeCorrect`,
  `SeqInvariant`, `PairsFresh`, `GuardSilent`. "No pair twice" says nothing of a task in
  the middle of a draw. `SeqInv` relates the consumed pairs to the persisted
  epoch (write-ahead) and to the place of the drawing task: below the counter
  while idle, below the whole epoch between wrap and bump, strictly below the
  drawn pair from then on. The results assume one drawing task; with two
  they are false (`tx_sequence_tasks`).
  Of `MessageCodec`: `MembersFitAlways`, `EncodeFitsAlways`, `RoundTripAlways`,
  `CutNoticedAlways`, in three layers. *Operators*: a varint of up to 32 bits, a
  zigzag number, a tag and a string are decoded to what was encoded whatever bytes
  follow, and a beginning of one that is not all of it is refused (`VarintRoundTrip`,
  `ZigZagRoundTrip`, `TagRoundTrip`, `FieldRoundTrip`, `CutField`); on any bytes at
  all every decoder returns a value of its member or fails (`DecodeValueType`).
  *Encoding*: `Layout` says that the frame is the bytes of the fields so far, each
  beginning where the one before ends, and `Most` how late a field can begin; both
  are in `CodecInv`, and `EncodeFits` follows because the last field ends at 149, or
  at 128 in a relayed request. *Decoding*: neither `RoundTrip` nor `CutNoticed` says
  anything while a frame is being read. For a frame that lost nothing `Undone` says
  that what is left are two stretches of whole fields with at most one unknown field
  between them, and that the struct holds exactly the other fields, zero elsewhere;
  two stretches cover a rotated frame, where the second holds the fields before the
  first. For a cut frame `CutPart` says that what is left begins with a field. A
  round then takes the next field that has bytes, passes over the unknown one, or
  meets the cut and refuses. `DecodeInv` is the conjunction of all of this.
- **`ReplayCacheProofs`**: `SlotsUnique`, `CacheImplementsFilter`: the mapping
  takes the marks from the used slots; each accepted frame replaces or adds a
  mark, an eviction forgets one, everything else stutters. It needs one slot per
  origin, else replacing a slot would leave an older mark behind.
  `CacheInvariant`, `PassesOnce`, `NewestPasses`, `ForgettingNeedsOthers`:
  `CacheInv` ties the slots to the histories of the model. A used slot is a frame that passed,
  with the time its origin was last heard; nothing sent is newer than its origin;
  and an origin that was heard and has no slot left a full table of origins heard
  no earlier. From the last one, counting the slots (one origin each) gives
  `Slots` other origins.
- **`ButtonHandlerProofs`**: `ButtonInvariant`, `HoldsFollowArming`,
  `WipeUnreachable`. A hold under a pending wipe began no earlier than the
  arming; so a firing hold is at least `HoldMs` past the arming, and if
  `HoldMs >= ConfirmMs` it is past the deadline. `HoldInvariant`,
  `ArmedWipeLapses` and the action properties `RoleNeedsHold` and
  `WipeNeedsOwnHold`: the press being timed lies within the run of HIGH samples,
  so `HoldMs` of press is `HoldMs` of pin.
- **`PeerProofs`**, the join: `JoinInvariant`, `JoinSafe`, `FlagAfterUplink`.
  `EnrollInv` adds what is in flight: every JOIN_ACK on the air carries the key on record, and a node within
  `processJoinAck` has a key the master holds, and past the registration the
  master in its registry, whether or not there was room when it began. It also
  covers wipes: the master never overwrites a key, and a wiped node's old ACKs no
  longer match.
  The driver's table: `TableInvariant`, `RelaysCounted`, `DriverTableBounded`. With
  two tasks the table is not accounted for address by address. `TableInv` counts
  instead: with no call under way, one by itself, or several that race, how many
  addresses may be there for a relay only, given what `forwardingPeer` names (or, torn, does not name)
  and the calls that overlapped so far. A call by itself deletes one before it
  adds one; a call that overlapped adds one at most, and was counted. The
  capacities of the owners then bound the whole table, up to that count: the
  code gives no bound on it, short of a restart.
- **`MeshTasksProofs`**: `TasksImplementRecvPath`, `FramesInOrder`, `WakeupsKept`.
  Every step of the composed node is a step of the receive path or leaves it alone,
  so `NodeSpec => Spec` of `RecvPath`, and the path's invariant carries over. That
  invariant orders the whole pipeline (handled, in hand, queued, still to arrive),
  without which `InOrderNoLoss` says nothing about the frame that is handled next;
  for the wake-ups it includes the time before the mesh task exists.
  `WatchInvariant` and the action properties `MasterDroppedOnlyIfSilentOrRaced` and
  `MasterReplacedOnlyAfterSilence`: for each place of `checkTimeout`, what it has
  read against the true silence, and for a pinned node, that nothing of another
  master gets past the pin, the secondary's beacons included (against which
  `mesh_tasks_secondary` holds what the design says).
- **`SerialLinkProofs`**: `FramingStaysInBuffer`, over any byte sequence, radix
  and buffer size. `InboundInvariant`, `InboundStaysExact`:
  while the line is intact there are offsets at which the frames sent and not yet
  handled lie end to end, the first of them begun in the parser, the rest on the
  wire, with the parser's length and buffer a prefix of the first one's code.
  Offsets are a function rather than the sum of the lengths, so that no induction
  over the sequence is needed: reading a byte shifts them by one, sending a command
  appends one. `PresetsDoNotCirculate`: the requests to the mesh against the
  commands handled, by cardinality of the two sets of places.
- **`NodeLifeProofs`**: `HaltOnlyByHangs`, for every limit: the count in NVS is at
  most the number of hangs before `err_core::init` (one more once the check has
  counted the reset that began the boot), because past `err_core::init` the
  boot's reason is one that cleared the count. `SensorInvariant`, `MotionReportsSpaced` (an action
  property): for each pair of places of handler and loop, who may still signal
  motion; while the cooldown runs nobody can. `PairInvariant`, `IdentityKept`:
  for each of the three writes of `saveKeypair`, what NVS holds by then; a check
  sum is there only with the two halves it was made for. `RegistryInvariant`,
  `PeersSurviveResets`: outside of a save every peer in RAM is in NVS at its own slot
  or a later one, because loading keeps the order and closes the gaps. So a save, which
  goes from the first slot to the last, writes a peer's new record before it
  overwrites the old one, and a reset in between finds one of the two.
- **`RoutingProofs`**: for every set of links. `DistanceInvariant`,
  `DistancesNeverUnderestimated`: every distance anywhere, in a table, in a node, in
  a relay that waits and in a beacon on the air, is the length of a walk from the
  master, so whatever is late or overtaken is still true as a bound. `ReportInvariant`,
  `RouteReportsDoNotLoop`: the relays in a report's path have marked the report
  (or have restarted), so one that would see it again drops it; marks only grow.
  The origin is among them only if it has restarted: as long as it has not, it
  has sealed a number no lower than that of any frame of its own, and
  `checkEpochRollback` refuses the frame. After a restart it may seal the frame
  again and pass it on, which the invariant allows.
  `DownlinkInvariant`, `SourceRoutesUsable`: a recorded path is a chain of links
  that ends at a neighbour of the master and does not contain the node it leads
  to (a report sealed twice does not open at the master), and what is left of it
  in a downlink leads from the next hop to the target.

Only model-checked: liveness (`EventuallyEnrolled`, `QueuedGetsHandled`,
`SilentMasterDropped`, `BeaconsRelayed`, `MotionReported`, `SensorRearms`,
`CommandsGetHandled`), which is beyond the prover. Every invariant and every action
property of the passing runs is a theorem.

Some definitions have the form they have for the proofs' sake: walks instead of a
recursive distance (`Walks`, `Within` of `Routing`), the slot a route is recorded in
(`RouteSlot`), sets of places instead of `SelectSeq`
(`PowerDoesNotCirculate`, `Tracked` and `Untracked` of `PeerTable`), the n-th
occupied record instead of a filter (`Occupied` and `Place` of `NodeStore`), the
value of a varint as one sum of its ten groups and its length as a choice
(`Groups`, `VarintSize` of `Nanopb`) instead of recursion over the bytes.

## 5. Where the code and its documents disagree

With a run (section 3) and an entry under `findings`, which quotes the text:

1. Two tasks can draw one sequence number (`ReplayCache.h:125`): the mesh task for
   the health report of a node with a serial adapter, the housekeeping task for
   everything else.
2. A wiped node cannot enrol again (`PeerEnrollment.cpp:25`), against
   `docs/getting_started.md:640-641`.
3. A hop that enrols after it was tracked can be evicted by the downlink LRU
   (`DownlinkRouter.cpp:108`); `DownlinkRouter.h:101-102` says enrolled peers never
   are.
4. A production build ignores the beacons of the secondary master that a JOIN_ACK
   has named (`MasterBeacon.cpp:70`) and never fails over, against the design of
   the pin and `docs/server_requirements.md:431-433`.
5. The frames of two tasks can interleave on the serial line
   (`SerialAdapter.cpp:114`); `docs/server_requirements.md:92-93` describes
   consecutive frames.
6. `REFACTORING_GUIDE.md:419-420` promises a halt after five watchdog resets in a
   row; the error core's own restart clears the count (`BootManager.h:29`,
   `ErrorCore.cpp:73-75`), and a node that hangs in service never halts. One that
   hangs before `err_core::init` does (`HaltNeedsHangs`).

Shown by a theorem or by a property that states what the code does:

7. The factory reset of `README.md:179` cannot be carried out
   (`ButtonHandler.h:117`): the second hold must *fire* inside a window shorter
   than a hold (theorem `WipeUnreachable`).
8. A default peer has no key yet: `PeerEnrollment.cpp:28-31` and
   `PeerRegistry.cpp:123` take an all-zero one for a placeholder. But
   `main.cpp:433-436` passes a table of 6-byte addresses (`project_config.h:75`) to
   `savePeerList`, which reads 38-byte records (`EepromPeers.cpp:76-93`): the
   first default peer is stored with the bytes that follow for a key, the other
   records come from beyond the table. `RegisteredPeersKept` excepts that peer.
9. `checkTimeout` subtracts a time that the other task may have written after the
   clock was read; the unsigned difference is huge and a live master is dropped
   (`MasterBeacon.cpp:41`; the "raced" of `DroppedOnlyIfSilentOrRaced`).
10. Two tasks in `findNextHopToMaster` leave a relay in the driver's table for good
    (`UplinkRouter.cpp:50`); the comment above it speaks of exactly one (the
    `overlaps` of `TableBounded`).

Met while modelling, without a property of their own:

- `CompactMessage`'s `toCompact` and `toWire` have no caller.
- `detectHold` fires again every 5 s while the button stays down; the comment at
  `ButtonHandler.h:29` speaks of one firing.
- A node whose registry is full (a former master) asks to be enrolled for ever,
  because `processJoinAck` cannot register the master; its requests take places in
  the relay queue.
- A node with erased NVS starts at epoch 1 again; neighbours that remember it
  drop its frames as replays. Its endless requests can hold places in the relay
  queue.
- A frame that comes back to its origin is resealed with its old pair; the guard
  then restarts the node (`MeshMessenger.cpp:53-72`), unless the node has sealed
  nothing since it booted: then the frame goes out once more, sealed twice, and
  the master cannot open it (`Refused` and `SealedTwice` of `Routing`).
- A relay that restarted may stand twice in a report's path, and an origin that
  restarted in the path of its own report (`ReportsDoNotLoop` excepts both).
- A downlink overtaken by a later beacon of the master is dropped as a replay.
- Without a route a downlink reaches only the master's neighbours;
  `MeshMessenger.cpp:206-207` speaks of unknown-route nodes in general.
- A TX_POWER_SET broadcast from the server goes out twice
  (`PowerDoesNotCirculate` allows two); leaves without a serial adapter
  ignore it.
- A broadcast CONFIG_SET is applied by the master itself, which may thereby lose
  its serial adapter, and refused by the nodes (`FrameAuthorizer.cpp:77`).
- The framing has no resynchronisation after a lost byte or a refused frame.

## 6. Not modelled, and what is left

Left out: cryptographic primitives (ideal) and the storage of the mesh key;
callbacks, submessages, extensions and repeated fields of nanopb, which
`mesh.proto` does not use; displays, LEDs and logging (output only); host tests
and tools; the health frame's contents. An NVS read that fails for a moment is
not modelled either: a value that was written reads back, or NVS is erased as a
whole. `PeerRegistry`'s append is one step; on a master the mesh task and the
serial adapter may both run it. `TxSequence` takes it that no frame of a node is
still on its way when the node has booted again; what comes of one that is, the
first seal after a boot not being compared with anything (`ReplayCache.h:145-149`),
is in `Routing`. Builds in development mode are modelled in `MasterWatch` only;
`SerialLink` leaves out what they skip of a CONFIG_SET (`AdapterFactory.cpp:65-67`).

What a next step would add:

1. `FrameAuthorizer` as a module: which control op is accepted from whom, against
   a declarative table of permissions.
2. `TxSequence` composed with `ReplayCache`: what an origin with erased NVS gets
   through.
3. Multi-hop relay of enrolment.
4. Proofs: that the bounds in `Routing`'s `TypeOK` suffice (the sequence numbers stay
   within `MaxSeq + MaxUplinks`), and that `TxSequence` with `ReplayCache` lets every
   new frame of an origin through whose NVS was not erased.
