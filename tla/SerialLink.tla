----------------------------- MODULE SerialLink -----------------------------
(***************************************************************************)
(* The UART between a node and its server.  Inbound, the housekeeping task *)
(* feeds the bytes it reads to SerialFraming::injectByte one at a time and *)
(* handles every completed frame (SerialAdapter::loop,                     *)
(* handleCompleteFrame), control opcodes included (Adapter's dispatch      *)
(* table).  Outbound, a frame is a length and a payload in two calls of    *)
(* uart_write_bytes; the housekeeping task writes health reports and       *)
(* enrollment requests, the mesh task what it receives from the mesh.      *)
(*                                                                         *)
(* A byte is a number below Radix.  Nanopb models the encoding; here Code  *)
(* gives the payload of a message, and a payload that encodes none is one  *)
(* that pb_decode refuses.  The driver's lock makes one uart_write_bytes a *)
(* single step.  The node is a production node: in dev mode CONFIG_SET     *)
(* saves no adapter, and every boot makes a PIR of the node.               *)
(***************************************************************************)
EXTENDS Integers, Sequences, FiniteSets

CONSTANTS
    Radix,       \* values of a byte, 256 in the code
    MaxPayload,  \* SerialFraming::MAX_PAYLOAD, 256 in the code
    IsMaster,    \* the node's role
    Commands,    \* names of the messages the server sends
    FromMesh,    \* names of the messages the mesh task delivers to the adapter
    Fields,      \* the fields of every message
    Code,        \* the payload of every command
    OutLen(_),   \* encoded length of a message sent to the server
    MaxSent,     \* bound: commands the server sends
    MaxMesh,     \* bound: messages from the mesh
    MaxLocal,    \* bound: health ticks and enrollment requests
    MaxLost      \* bound: bytes the line loses

\* Messages the node makes itself, and what a payload that does not decode is.
Health == "health report"
EnrollRequest == "enrollment request"
Garbage == "undecodable"

\* The fields of a command: type, serial (data_type is SERIAL_ADAPTER), bcast
\* (target is FF:..:FF), op, aimed (data[1..6] is this node or FF:..:FF), arg,
\* key and second.  A message from the mesh has serial, op, aimed and arg.
ASSUME SerialConstants ==
    /\ Radix \in Nat /\ Radix > 1
    /\ MaxPayload \in 1..(Radix * Radix - 1)
    /\ IsMaster \in BOOLEAN
    /\ \A m \in Commands :
         /\ Code[m] \in Seq(0..Radix - 1)
         /\ Len(Code[m]) \in 1..(Radix * Radix - 1)  \* a length is two bytes
    /\ \A m, n \in Commands : Code[m] = Code[n] => m = n
    /\ \A m \in FromMesh \cup {Health, EnrollRequest} : OutLen(m) \in Nat \ {0}
    /\ {MaxSent, MaxMesh, MaxLocal, MaxLost} \subseteq Nat

Tasks == {"hk", "mesh"}

VARIABLES
    wire,         \* bytes the server has written and the node has not read
    parser,       \* SerialFraming: [state, length, index, buffer]
    out,          \* per task: frames it has still to write
    half,         \* per task: the length of Head(out) is written, not the payload
    server,       \* the server's reader: [owed, whole], see ServerReads
    config,       \* NVS: [adapter, nodeId, power]
    toMesh,       \* history: what the adapter asked the mesh to do, in order
    sent,         \* history: commands sent by the server
    handled,      \* history: frames handed to handleCompleteFrame
    rxIntact,     \* history: no inbound byte was lost or refused
    delivered, local, lost   \* counters for the bounds

vars == <<wire, parser, out, half, server, config, toMesh, sent, handled,
          rxIntact, delivered, local, lost>>

Parser(state, length, index, buffer) ==
    [state |-> state, length |-> length, index |-> index, buffer |-> buffer]

Idle == Parser("Len1", 0, 0, << >>)

Init ==
    /\ wire = << >>
    /\ parser = Idle
    /\ out = [t \in Tasks |-> << >>]
    /\ half = [t \in Tasks |-> FALSE]
    /\ server = [owed |-> 0, whole |-> TRUE]
    /\ config = [adapter |-> "SERIAL", nodeId |-> 0, power |-> 1]
    /\ toMesh = << >>
    /\ sent = << >>
    /\ handled = << >>
    /\ rxIntact = TRUE
    /\ delivered = 0 /\ local = 0 /\ lost = 0

-----------------------------------------------------------------------------
(***************************************************************************)
(* The line.                                                               *)
(***************************************************************************)

\* What the server writes for a command: length, little-endian, and payload.
Bytes(m) == <<Len(Code[m]) % Radix, Len(Code[m]) \div Radix>> \o Code[m]

\* A command longer than MaxPayload is refused, and its payload is then read
\* as lengths: the framing has nothing to recover with.
ServerSends(m) ==
    /\ Len(sent) < MaxSent
    /\ sent' = Append(sent, m)
    /\ wire' = wire \o Bytes(m)
    /\ rxIntact' = (rxIntact /\ Len(Code[m]) <= MaxPayload)
    /\ UNCHANGED <<parser, out, half, server, config, toMesh, handled,
                   delivered, local, lost>>

\* The receive buffer overran while the task was busy: the byte to be read
\* next is not there.
LoseByte ==
    /\ lost < MaxLost
    /\ wire /= << >>
    /\ lost' = lost + 1
    /\ wire' = Tail(wire)
    /\ rxIntact' = FALSE
    /\ UNCHANGED <<parser, out, half, server, config, toMesh, sent, handled,
                   delivered, local>>

-----------------------------------------------------------------------------
(***************************************************************************)
(* Framing.                                                                *)
(***************************************************************************)

\* Fault: the length is read high byte first.
InjectBigEndian(p, b) ==
    CASE p.state = "Len1" -> Parser("Len2", b, 0, << >>)
      [] p.state = "Len2" ->
            IF b + Radix * p.length \in 1..MaxPayload
            THEN Parser("Payload", b + Radix * p.length, 0, << >>)
            ELSE Idle
      [] p.state = "Payload" ->
            IF p.index + 1 >= p.length
            THEN Parser("Len1", 0, p.index + 1, Append(p.buffer, b))
            ELSE Parser("Payload", p.length, p.index + 1, Append(p.buffer, b))

\* Fault: the length is checked only against zero.
InjectUnbounded(p, b) ==
    CASE p.state = "Len1" -> Parser("Len2", b, 0, << >>)
      [] p.state = "Len2" ->
            IF p.length + Radix * b /= 0
            THEN Parser("Payload", p.length + Radix * b, 0, << >>)
            ELSE Idle
      [] p.state = "Payload" ->
            IF p.index + 1 >= p.length
            THEN Parser("Len1", 0, p.index + 1, Append(p.buffer, b))
            ELSE Parser("Payload", p.length, p.index + 1, Append(p.buffer, b))

\* injectByte.  The buffer keeps a completed frame until the next one starts.
InjectByte(p, b) ==
    CASE p.state = "Len1" -> Parser("Len2", b, 0, << >>)
      [] p.state = "Len2" ->
            IF p.length + Radix * b \in 1..MaxPayload
            THEN Parser("Payload", p.length + Radix * b, 0, << >>)
            ELSE Idle
      [] p.state = "Payload" /\ p.index >= MaxPayload -> Idle
      [] p.state = "Payload" /\ p.index < MaxPayload ->
            IF p.index + 1 >= p.length
            THEN Parser("Len1", 0, p.index + 1, Append(p.buffer, b))
            ELSE Parser("Payload", p.length, p.index + 1, Append(p.buffer, b))

FrameReady(p, q) == p.state = "Payload" /\ q.state = "Len1" /\ q.index > 0

\* SerialFraming::decode.
Decode(payload) ==
    IF \E m \in Commands : Code[m] = payload
    THEN CHOOSE m \in Commands : Code[m] = payload
    ELSE Garbage

-----------------------------------------------------------------------------
(***************************************************************************)
(* Handling a frame.  A handler's effect is a record: the configuration,   *)
(* the requests to the mesh, the frames for the server, and whether it     *)
(* ends in esp_restart.                                                    *)
(***************************************************************************)

NoEffect == [config |-> config, toMesh |-> << >>, out |-> << >>, restart |-> FALSE]

\* sendSelfHealthReport: a master broadcasts the report and hands it to its
\* own adapter, which writes it out; any other node sends it uplink.
SelfHealth ==
    IF IsMaster THEN [NoEffect EXCEPT !.toMesh = <<"broadcast health">>, !.out = <<Health>>]
                ELSE [NoEffect EXCEPT !.toMesh = <<"uplink health">>]

\* Fault: a preset from the mesh is broadcast again.
TxPowerSetEchoes(m, rebroadcast) ==
    IF config.adapter /= "SERIAL" \/ m.arg > 2 THEN NoEffect
    ELSE [NoEffect EXCEPT !.config = [config EXCEPT !.power = m.arg],
                          !.toMesh = IF IsMaster THEN <<"broadcast power">> ELSE << >>]

\* opTxPowerSet: saved and set, and sent on when it came from the server.
OpTxPowerSet(m, rebroadcast) ==
    IF config.adapter /= "SERIAL" \/ m.arg > 2 THEN NoEffect
    ELSE [NoEffect EXCEPT !.config = [config EXCEPT !.power = m.arg],
                          !.toMesh = IF rebroadcast /\ IsMaster
                                     THEN <<"broadcast power">> ELSE << >>]

\* dispatchControlOp with the handlers it looks up.
DispatchControlOp(m, rebroadcast) ==
    CASE m.op = "CONFIG_SET" /\ m.aimed ->
            [NoEffect EXCEPT !.config = [config EXCEPT !.adapter = m.arg], !.restart = TRUE]
      [] m.op = "NODE_ID_SET" /\ m.aimed ->
            [NoEffect EXCEPT !.config = [config EXCEPT !.nodeId = m.arg]]
      [] m.op = "HEALTH_REQ" /\ config.adapter = "SERIAL" -> SelfHealth
      [] m.op = "TX_POWER_SET" -> OpTxPowerSet(m, rebroadcast)
      [] OTHER -> NoEffect

\* The request a frame makes of the mesh before its opcode is looked at.
MeshRequest(m) ==
    CASE m.type = "ADAPTER_DATA" -> <<"transmit">>
      [] m.type = "CMD" /\ m.bcast ->
            <<IF m.op = "TX_POWER_SET" THEN "broadcast power" ELSE "broadcast">>
      [] m.type = "CMD" /\ ~m.bcast -> <<"downlink">>
      [] OTHER -> << >>

\* handleCompleteFrame.  A JOIN_ACK without a key is the server's refusal.
HandleCompleteFrame(m) ==
    CASE m.type = "JOIN_ACK" ->
            [NoEffect EXCEPT !.toMesh =
                IF ~m.key THEN << >>
                ELSE <<IF m.second THEN "enroll with secondary" ELSE "enroll">>]
      [] m.type /= "JOIN_ACK" ->
            LET control == IF m.serial THEN DispatchControlOp(m, TRUE) ELSE NoEffect
            IN  [control EXCEPT !.toMesh = MeshRequest(m) \o control.toMesh]

\* The effect e takes hold, its frames queued with task t.  A restart loses
\* what is in the receive buffer and in RAM, and the boot text goes out on the
\* same line.
Apply(e, t, rest) ==
    /\ config' = e.config
    /\ toMesh' = toMesh \o e.toMesh
    /\ IF e.restart
       THEN /\ wire' = << >>
            /\ out' = [u \in Tasks |-> << >>]
            /\ half' = [u \in Tasks |-> FALSE]
            /\ rxIntact' = (rxIntact /\ rest = << >>)
       ELSE /\ wire' = rest
            /\ out' = [out EXCEPT ![t] = @ \o e.out]
            /\ UNCHANGED <<half, rxIntact>>

\* Fault: the read waits for a chunk of several bytes.
ReadableByChunk == Len(wire) >= 2

\* uart_read_bytes without waiting, whatever the number of bytes.
Readable == wire /= << >>

\* SerialAdapter::loop, one byte of it; a completed frame is handled at once,
\* and the frames that makes are written before the next byte is read.
ReadByte ==
    /\ Readable
    /\ config.adapter = "SERIAL"
    /\ out["hk"] = << >>
    /\ LET next  == InjectByte(parser, Head(wire))
           ready == FrameReady(parser, next)
           frame == Decode(next.buffer)
           e     == IF ready /\ frame /= Garbage
                    THEN HandleCompleteFrame(Fields[frame]) ELSE NoEffect
       IN  /\ parser' = IF e.restart THEN Idle ELSE next
           /\ handled' = IF ready THEN Append(handled, frame) ELSE handled
           /\ Apply(e, "hk", Tail(wire))
    /\ UNCHANGED <<server, sent, delivered, local, lost>>

-----------------------------------------------------------------------------
(***************************************************************************)
(* Towards the server.                                                     *)
(***************************************************************************)

\* loop()'s health report, on the interval or a change of hop count.
HealthTick ==
    /\ local < MaxLocal
    /\ config.adapter = "SERIAL"
    /\ out["hk"] = << >>
    /\ local' = local + 1
    /\ toMesh' = toMesh \o SelfHealth.toMesh
    /\ out' = [out EXCEPT !["hk"] = SelfHealth.out]
    /\ UNCHANGED <<wire, parser, half, server, config, sent, handled, rxIntact,
                   delivered, lost>>

\* relayEnrollmentToServer, static: it writes whatever the adapter is.
RelayEnrollment ==
    /\ local < MaxLocal
    /\ IsMaster
    /\ out["hk"] = << >>
    /\ local' = local + 1
    /\ out' = [out EXCEPT !["hk"] = <<EnrollRequest>>]
    /\ UNCHANGED <<wire, parser, half, server, config, toMesh, sent, handled, rxIntact,
                   delivered, lost>>

\* onMeshData on the mesh task: control opcodes first, then the message goes
\* to the server.
MeshDelivers(m) ==
    /\ delivered < MaxMesh
    /\ out["mesh"] = << >>
    /\ delivered' = delivered + 1
    /\ LET control == IF Fields[m].serial THEN DispatchControlOp(Fields[m], FALSE)
                      ELSE NoEffect
           forward == IF config.adapter = "SERIAL" THEN <<m>> ELSE << >>
       IN  /\ Apply([control EXCEPT !.out = @ \o forward], "mesh", wire)
           /\ parser' = IF control.restart THEN Idle ELSE parser
    /\ UNCHANGED <<server, sent, handled, local, lost>>

\* The server at the other end, as docs/server_requirements.md describes the
\* framing: owed is the length of the payload it waits for, 0 between frames;
\* whole is lost with the first frame that is not a length and a payload of
\* that length.
ServerReads(chunk, n) ==
    IF chunk = "length"
    THEN [owed |-> n, whole |-> server.whole /\ server.owed = 0]
    ELSE [owed |-> 0, whole |-> server.whole /\ server.owed = n]

\* The two writes of onMeshDataImpl and relayEnrollmentToServer.
WriteLength(t) ==
    /\ out[t] /= << >> /\ ~half[t]
    /\ server' = ServerReads("length", OutLen(Head(out[t])))
    /\ half' = [half EXCEPT ![t] = TRUE]
    /\ UNCHANGED <<wire, parser, out, config, toMesh, sent, handled, rxIntact, delivered,
                   local, lost>>

WritePayload(t) ==
    /\ half[t]
    /\ server' = ServerReads("payload", OutLen(Head(out[t])))
    /\ out' = [out EXCEPT ![t] = Tail(@)]
    /\ half' = [half EXCEPT ![t] = FALSE]
    /\ UNCHANGED <<wire, parser, config, toMesh, sent, handled, rxIntact, delivered,
                   local, lost>>

Next ==
    \/ \E m \in Commands : ServerSends(m)
    \/ LoseByte
    \/ ReadByte
    \/ HealthTick
    \/ RelayEnrollment
    \/ \E m \in FromMesh : MeshDelivers(m)
    \/ \E t \in Tasks : WriteLength(t) \/ WritePayload(t)

Spec == Init /\ [][Next]_vars

\* Both tasks run: housekeeping every 10 ms, the mesh task above it.
FairSpec ==
    /\ Spec
    /\ WF_vars(ReadByte)
    /\ \A t \in Tasks : WF_vars(WriteLength(t) \/ WritePayload(t))

-----------------------------------------------------------------------------
(***************************************************************************)
(* Properties.                                                             *)
(***************************************************************************)

TypeOK ==
    /\ wire \in Seq(0..Radix - 1)
    /\ parser.state \in {"Len1", "Len2", "Payload"}
    /\ Len(parser.buffer) = parser.index
    /\ config.nodeId \in Nat /\ config.power \in 0..2
    /\ \A t \in Tasks : half[t] => out[t] /= << >>
    /\ server.owed \in Nat
    /\ rxIntact \in BOOLEAN

\* Whatever bytes come in, lost and out of step ones too, the framing stores
\* only inside its buffer and never waits for more than fits into it; the
\* overflow branch of injectByte is never taken.
FrameInBuffer ==
    /\ parser.index \in 0..MaxPayload
    /\ parser.state = "Payload" => parser.length \in 1..MaxPayload /\ parser.index < parser.length

\* While no byte was lost or refused, the frames handled are the commands the
\* server sent, in order, none merged, split or skipped; and when the line is
\* read to its end between frames, all of them.
InboundExact ==
    rxIntact =>
        /\ Len(handled) <= Len(sent) /\ handled = SubSeq(sent, 1, Len(handled))
        /\ wire = << >> => handled = sent

\* What docs/server_requirements.md says of the framing, "a 2-byte little-endian
\* length prefix, followed by that many bytes ... Applies in both directions"
\* (docs/server_requirements.md:92-93): every payload the server reads has the
\* length announced just before it.
WholeFrames == server.whole

\* A power preset is broadcast at most twice for every TX_POWER_SET the server
\* sent, never for one the mesh delivered: presets do not circulate between
\* two masters.
PowerDoesNotCirculate ==
    Cardinality({i \in 1..Len(toMesh) : toMesh[i] = "broadcast power"}) <=
        2 * Cardinality({i \in 1..Len(handled) :
               handled[i] /= Garbage /\ Fields[handled[i]].op = "TX_POWER_SET"})

\* A command on an intact line is handled, also when the task is kept busy
\* writing in between, until the node is made something other than a serial
\* node.
CommandsGetHandled ==
    \A k \in 1..MaxSent :
        Len(sent) >= k ~> \/ Len(handled) >= k
                          \/ ~rxIntact
                          \/ config.adapter /= "SERIAL"
=============================================================================
