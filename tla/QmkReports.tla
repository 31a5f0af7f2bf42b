----------------------------- MODULE QmkReports ------------------------------
(***************************************************************************)
(* The 32 bytes of an OpenControl Raw HID report: the host's codec         *)
(* (src/src/input/qmk-protocol.ts), the same layout written and read by    *)
(* the keyboard (opencontrol.c), and one exchange at a time between them   *)
(* over a cable that may change a byte.  QmkLink moves these reports as    *)
(* records; here the bytes are checked to say what the records say.        *)
(*                                                                         *)
(* A byte is a number; report[i + 1] is the code's report[i].  A call that *)
(* throws, or a report that is not sent, is None.                          *)
(***************************************************************************)
EXTENDS QmkFirmware, QmkMessages, SequencesExt

VARIABLES setup,      \* how the keyboard is built and the host configured
          keyboard,   \* the keyboard's statics, as in QmkFirmware
          meant,      \* what the sender of this exchange has to say
          wire,       \* the report on its way, or None
          to,         \* the end it is on its way to
          damaged,    \* the damage done in this exchange: {} or {[to, byte]}
          harms,      \* how many reports have been damaged
          heard       \* what the host made of the last report it read, or None

bytesVars == <<setup, keyboard, meant, wire, to, damaged, harms, heard>>

HeaderSize == 8
MaxPayload == ReportSize - HeaderSize
Magic      == <<224, 79, 67>>     \* OPENCONTROL_QMK_NAMESPACE, "OC"
Major      == 1
ControlCount == 19

MessageType == [HELLO |-> 1, HELLO_ACK |-> 2, CONTROL_EVENT |-> 3, TASK_STATES |-> 4,
                PING |-> 5, ACK |-> 6, ERROR |-> 127]
RESPONSE == 1
ASYNC    == 2
Capability == [press_release |-> 1, rgb |-> 2, encoder |-> 8, usb |-> 16, dynamic_map |-> 32]
ErrorCode  == [version |-> 1, unknown |-> 2, malformed |-> 3, state |-> 4]

\* QMK_CONTROL_CODES: four groups of codes, 0x01, 0x10, 0x20 and 0x30.
CodeOfId(n) == CASE n <= 6         -> n
                 [] n \in 7 .. 12  -> 16 + n - 7
                 [] n \in 13 .. 16 -> 32 + n - 13
                 [] OTHER          -> 48 + n - 17

DecodeTable(table, code) ==
  IF \E name \in DOMAIN table : table[name] = code
  THEN CHOOSE name \in DOMAIN table : table[name] = code ELSE None
DecodePhase(code)     == DecodeTable(PhaseCode, code)
DecodeTaskState(code) == DecodeTable(StateCode, code)
DecodeControlId(code) ==
  IF \E n \in DOMAIN CONTROL_IDS : CodeOfId(n) = code
  THEN CONTROL_IDS[CHOOSE n \in DOMAIN CONTROL_IDS : CodeOfId(n) = code] ELSE None

Bit(n, i)     == (n \div 2 ^ i) % 2 = 1
BitsOf(n)     == {i \in 0 .. 7 : Bit(n, i)}
MaskOf(bits)  ==
  LET weight(i) == IF i \in bits THEN 2 ^ i ELSE 0 IN
  weight(0) + weight(1) + weight(2) + weight(3) + weight(4) + weight(5) + weight(6) + weight(7)

\* A mistaken variant: the higher byte first.
BE16(n)       == <<n \div 256, n % 256>>
LE16(n)       == <<n % 256, n \div 256>>
FromLE16(b)   == b[1] + 256 * b[2]

(***************************************************************************)
(* Packets.  encodeQmkPacket; opencontrol_init_packet and _send_packet     *)
(* write the same.                                                         *)
(***************************************************************************)
EncodeQmkPacket(type, seq, flags, payload) ==
  IF Len(payload) > MaxPayload THEN None
  ELSE Magic \o <<Major, type, seq, Len(payload), flags>> \o payload \o
       [i \in 1 .. MaxPayload - Len(payload) |-> 0]

IsOpenControlReport(report) == SubSeq(report, 1, 3) = Magic

DecodeQmkPacket(report) ==
  IF Len(report) # ReportSize \/ ~IsOpenControlReport(report) \/ report[7] > MaxPayload
  THEN None
  ELSE [major |-> report[4], type |-> report[5], seq |-> report[6], flags |-> report[8],
        payload |-> SubSeq(report, HeaderSize + 1, HeaderSize + report[7])]

\* Some platforms hand over the report ID, zero, before the report.
NormalizeNodeHidReport(data) ==
  CASE Len(data) = ReportSize                      -> data
    [] Len(data) = ReportSize + 1 /\ data[1] = 0   -> Tail(data)
    [] OTHER                                       -> None

Holds(packet, type, length) == packet # None /\ packet.type = type /\ Len(packet.payload) = length

(***************************************************************************)
(* Host to keyboard.                                                       *)
(***************************************************************************)
EncodeHello(seq, minor) == EncodeQmkPacket(MessageType.HELLO, seq, 0, <<minor>>)
EncodePing(seq, opaque) == EncodeQmkPacket(MessageType.PING, seq, 0, opaque)

\* The six slots in their order, those the list leaves out being off.
NormalizeFeedback(slots) ==
  IF \/ \E i \in DOMAIN slots : slots[i].slot \notin Agents
     \/ \E i, j \in DOMAIN slots : i # j /\ slots[i].slot = slots[j].slot
  THEN None
  ELSE [a \in Agents |->
          IF \E i \in DOMAIN slots : slots[i].slot = a
          THEN slots[CHOOSE i \in DOMAIN slots : slots[i].slot = a]
          ELSE [slot |-> a, state |-> "off", unread |-> FALSE]]

EncodeTaskStatesReport(seq, frame) ==
  LET known == NormalizeFeedback(frame.slots) IN
  IF known = None \/ frame.selected \notin Agents \cup {None} THEN None
  ELSE EncodeQmkPacket(MessageType.TASK_STATES, seq, 0,
         <<IF frame.selected = None THEN SelectedNone ELSE frame.selected - 1>> \o
         [a \in Agents |-> StateCode[known[a].state]] \o
         <<MaskOf({a - 1 : a \in {s \in Agents : known[s].unread}})>>)

\* The host's own reading of a TASK_STATES report, the twin of the keyboard's.
DecodeTaskStates(packet) ==
  IF \/ ~Holds(packet, MessageType.TASK_STATES, AgentCount + 2)
     \/ packet.payload[1] # SelectedNone /\ packet.payload[1] >= AgentCount
     \/ \E a \in Agents : DecodeTaskState(packet.payload[a + 1]) = None
  THEN None
  ELSE [selected |-> IF packet.payload[1] = SelectedNone THEN None ELSE packet.payload[1] + 1,
        states   |-> [a \in Agents |-> DecodeTaskState(packet.payload[a + 1])],
        unread   |-> {a \in Agents : Bit(packet.payload[AgentCount + 2], a - 1)}]

HostEncode(message, seq) ==
  CASE message.kind = "HELLO"       -> EncodeHello(seq, 0)
    [] message.kind = "PING"        -> EncodePing(seq, message.opaque)
    [] message.kind = "TASK_STATES" -> EncodeTaskStatesReport(seq, message.frame)

(***************************************************************************)
(* Keyboard to host.                                                       *)
(***************************************************************************)
Capabilities(s) ==
  Capability.press_release + Capability.usb + Capability.dynamic_map +
  (IF s.rgb THEN Capability.rgb ELSE 0) + (IF s.encoder THEN Capability.encoder ELSE 0)

EncodeHelloAck(seq, s) ==
  EncodeQmkPacket(MessageType.HELLO_ACK, seq, RESPONSE,
    <<0>> \o LE16(Capabilities(s)) \o
    <<AgentCount, ControlCount, ReportSize, s.layer, s.timeout \div 1000>>)

EncodeControlEvent(seq, control, phase, origin, layer) ==
  EncodeQmkPacket(MessageType.CONTROL_EVENT, seq, ASYNC,
    <<control, PhaseCode[phase], origin.row, origin.column, origin.event, layer>> \o
    LE16(origin.time[1]) \o LE16(origin.time[2]))

EncodeAcknowledgement(seq, type) ==
  EncodeQmkPacket(MessageType.ACK, seq, RESPONSE, <<type, seq>>)

\* A mistaken variant: an error carries the keyboard's own number.
EncodeErrorUnnumbered(seq, code, type, detail) ==
  EncodeQmkPacket(MessageType.ERROR, 7, RESPONSE, <<code, type, detail>>)

EncodeDeviceError(seq, code, type, detail) ==
  EncodeQmkPacket(MessageType.ERROR, seq, RESPONSE, <<code, type, detail>>)

DecodeHelloAck(packet) ==
  IF ~Holds(packet, MessageType.HELLO_ACK, 8) THEN None
  ELSE LET p == packet.payload IN
       [capabilities |-> FromLE16(SubSeq(p, 2, 3)), agents |-> p[4], controls |-> p[5],
        size |-> p[6], layer |-> p[7], heartbeat |-> p[8]]

ValidHelloAck(ack) ==
  /\ ack.size = ReportSize
  /\ ack.agents = AgentCount
  /\ ack.controls >= ControlCount
  /\ ack.heartbeat # 0

DecodeControlEvent(packet) ==
  IF ~Holds(packet, MessageType.CONTROL_EVENT, 10) THEN None
  ELSE LET p == packet.payload IN
       IF DecodeControlId(p[1]) = None \/ DecodePhase(p[2]) = None THEN None
       ELSE [control |-> DecodeControlId(p[1]), phase |-> DecodePhase(p[2]),
             origin  |-> [row |-> p[3], column |-> p[4], event |-> p[5],
                          time |-> <<FromLE16(SubSeq(p, 7, 8)), FromLE16(SubSeq(p, 9, 10))>>],
             layer   |-> p[6]]

DecodeAcknowledgement(packet) ==
  IF ~Holds(packet, MessageType.ACK, 2) THEN None
  ELSE [type |-> packet.payload[1], seq |-> packet.payload[2]]

DecodeDeviceError(packet) ==
  IF ~Holds(packet, MessageType.ERROR, 3) THEN None
  ELSE [code |-> packet.payload[1], type |-> packet.payload[2], detail |-> packet.payload[3]]

(***************************************************************************)
(* opencontrol_via_command, byte by byte: the board afterwards and the     *)
(* report it answers with, or None.                                        *)
(***************************************************************************)
Answer(b, report) == [board |-> b, reply |-> report]

\* A mistaken variant: a frame of the right length is believed.
ReadTaskStatesUnchecked(b, seq, payload) ==
  IF Len(payload) # AgentCount + 2
  THEN Answer(b, EncodeDeviceError(seq, ErrorCode.malformed, MessageType.TASK_STATES, Len(payload)))
  ELSE Answer(InstallTaskStates(b, [selected |-> payload[1],
                                    codes    |-> [i \in 0 .. AgentCount - 1 |-> payload[i + 2]],
                                    unread   |-> BitsOf(payload[AgentCount + 2])]),
              EncodeAcknowledgement(seq, MessageType.TASK_STATES))

ReadTaskStates(b, seq, payload) ==
  LET wrong == {i \in 0 .. AgentCount - 1 : payload[i + 2] > 5} IN
  IF \/ Len(payload) # AgentCount + 2
     \/ payload[1] # SelectedNone /\ payload[1] >= AgentCount
  THEN Answer(b, EncodeDeviceError(seq, ErrorCode.malformed, MessageType.TASK_STATES, Len(payload)))
  ELSE IF wrong # {}
  THEN Answer(b, EncodeDeviceError(seq, ErrorCode.state, MessageType.TASK_STATES, Min(wrong)))
  ELSE Answer(InstallTaskStates(b, [selected |-> payload[1],
                                    codes    |-> [i \in 0 .. AgentCount - 1 |-> payload[i + 2]],
                                    unread   |-> BitsOf(payload[AgentCount + 2])]),
              EncodeAcknowledgement(seq, MessageType.TASK_STATES))

ReadReport(s, b, report) ==
  LET type == report[5]  seq == report[6]  length == report[7]
      payload == SubSeq(report, HeaderSize + 1, HeaderSize + length) IN
  IF ~IsOpenControlReport(report) THEN Answer(b, None)
  ELSE IF length > MaxPayload
  THEN Answer(b, EncodeDeviceError(seq, ErrorCode.malformed, type, ReportSize))
  ELSE IF report[4] # Major
  THEN Answer(b, EncodeDeviceError(seq, ErrorCode.version, type, report[4]))
  ELSE CASE type = MessageType.HELLO       -> Answer(InputSeen(b), EncodeHelloAck(seq, s))
         [] type = MessageType.TASK_STATES -> ReadTaskStates(b, seq, payload)
         [] type = MessageType.PING        -> Answer(InputSeen(b), EncodeAcknowledgement(seq, type))
         [] type = MessageType.ACK         -> Answer(InputSeen(b), None)
         [] OTHER -> Answer(b, EncodeDeviceError(seq, ErrorCode.unknown, type, 0))

(***************************************************************************)
(* The host's reading.  A probe waits for the HELLO_ACK of its HELLO and   *)
(* derives the cadence of the connection; a claimed keyboard's reports are *)
(* control events, acknowledgements and errors, and a malformed one is a   *)
(* protocol error.                                                         *)
(***************************************************************************)
MinimumHeartbeat == 100
MaximumRetries   == 2

HeartbeatFor(s, seconds) == Max({MinimumHeartbeat, Min({s.wanted, (seconds * 1000) \div 2})})

\* A mistaken variant: the acknowledgement timeout takes no share of the heartbeat.
TimeoutAsWanted(s, heartbeat) == s.patience
AcknowledgementTimeout(s, heartbeat) ==
  Min({s.patience, Max({25, heartbeat \div (MaximumRetries + 1)})})

Ignored == [kind |-> "nothing"]
Refused == [kind |-> "protocolError"]

Connection(s, ack) ==
  LET bits == BitsOf(ack.capabilities % 256)
      heartbeat == HeartbeatFor(s, ack.heartbeat) IN
  [kind |-> "connection", heartbeat |-> heartbeat,
   patience |-> AcknowledgementTimeout(s, heartbeat),
   pressRelease |-> 0 \in bits, rgb |-> 1 \in bits, encoder |-> 3 \in bits,
   usb |-> 4 \in bits, slots |-> ack.agents]

ProbeHears(s, seq, packet) ==
  IF packet = None THEN Refused
  ELSE IF \/ packet.major # Major \/ packet.type # MessageType.HELLO_ACK
          \/ packet.seq # seq \/ 0 \notin BitsOf(packet.flags)
  THEN Ignored
  ELSE LET ack == DecodeHelloAck(packet) IN
       IF ack = None THEN Refused
       ELSE IF ~ValidHelloAck(ack) \/ HeartbeatFor(s, ack.heartbeat) >= ack.heartbeat * 1000
       THEN Refused
       ELSE Connection(s, ack)

HostHears(packet) ==
  IF packet = None THEN Refused
  ELSE IF packet.major # Major THEN Refused
  ELSE CASE packet.type = MessageType.CONTROL_EVENT ->
              IF DecodeControlEvent(packet) = None THEN Refused
              ELSE [kind |-> "control", event |-> DecodeControlEvent(packet)]
         [] packet.type = MessageType.ACK ->
              IF DecodeAcknowledgement(packet) = None THEN Refused
              ELSE [kind |-> "ACK", of |-> DecodeAcknowledgement(packet)]
         [] packet.type = MessageType.ERROR ->
              IF DecodeDeviceError(packet) = None THEN Refused
              ELSE [kind |-> "ERROR",
                    of   |-> [type |-> DecodeDeviceError(packet).type, seq |-> packet.seq]]
         [] OTHER -> Ignored

Hears(data) ==
  LET report == NormalizeNodeHidReport(data) IN
  IF report = None THEN Ignored
  ELSE IF ~IsOpenControlReport(report) THEN Ignored
  ELSE IF meant.kind = "HELLO" THEN ProbeHears(setup, meant.seq, DecodeQmkPacket(report))
  ELSE HostHears(DecodeQmkPacket(report))

(***************************************************************************)
(* An exchange: what one end has to say, its report on the cable, and the  *)
(* answer.  At most MaxDamage reports of a behaviour are damaged.          *)
(***************************************************************************)
BytesInit ==
  /\ setup \in Setups
  /\ keyboard = BootedBoard
  /\ meant = None /\ wire = None /\ heard = None
  /\ to = "host"
  /\ damaged = {} /\ harms = 0

\* An exchange begins when nothing is on the cable; a report that throws is not sent.
Begins(end, what, report) ==
  /\ wire = None
  /\ meant' = what /\ wire' = report /\ to' = end
  /\ heard' = None /\ damaged' = {}
  /\ UNCHANGED <<setup, keyboard, harms>>

HostSends ==
  \E message \in Messages, seq \in Numbers :
    Begins("board", [kind |-> message.kind, seq |-> seq, message |-> message],
           HostEncode(message, seq))

KeyRecorded ==
  \E code \in Keycaps, phase \in DOMAIN PhaseCode, seq \in Numbers, origin \in Origins :
    /\ keyboard.input
    /\ harms = 0     \* bound: what a key record says does not depend on older damage
    /\ ControlForKeycode(code) # ControlNone
    /\ Begins("host", [kind |-> "CONTROL_EVENT", seq |-> seq, code |-> code, phase |-> phase,
                       origin |-> origin],
              EncodeControlEvent(seq, ControlForKeycode(code), phase, origin, setup.layer))

Damage ==
  /\ wire # None /\ harms < MaxDamage
  /\ \E i \in 1 .. ReportSize, byte \in NewBytes :
       /\ wire[i] # byte
       /\ wire' = [wire EXCEPT ![i] = byte]
       /\ damaged' = damaged \cup {[to |-> to, byte |-> i]}
  /\ harms' = harms + 1
  /\ UNCHANGED <<setup, keyboard, meant, to, heard>>

BoardReads ==
  /\ wire # None /\ to = "board"
  /\ LET answer == ReadReport(setup, keyboard, wire) IN
       keyboard' = answer.board /\ wire' = answer.reply
  /\ to' = "host"
  /\ UNCHANGED <<setup, meant, damaged, harms, heard>>

HostReads ==
  /\ wire # None /\ to = "host"
  /\ \E data \in {wire, <<0>> \o wire} : heard' = Hears(data)
  /\ wire' = None
  /\ UNCHANGED <<setup, keyboard, meant, to, damaged, harms>>

BytesNext == HostSends \/ KeyRecorded \/ Damage \/ BoardReads \/ HostReads

BytesSpec == BytesInit /\ [][BytesNext]_bytesVars

(***************************************************************************)
(* Properties.                                                             *)
(***************************************************************************)
\* The frame a list of slots stands for, whatever its order and its gaps.
FrameOf(frame) ==
  LET of(a) == {s \in Range(frame.slots) : s.slot = a} IN
  [selected |-> frame.selected,
   states   |-> [a \in Agents |-> IF of(a) = {} THEN "off" ELSE (CHOOSE s \in of(a) : TRUE).state],
   unread   |-> {a \in Agents : \E s \in of(a) : s.unread}]

\* A frame that arrives is on the board slot by slot, as the records of QmkLink
\* have it; only a list that names a slot twice, or a slot that is not there, is
\* never sent.
FramesAsMeant ==
  (meant # None /\ meant.kind = "TASK_STATES") =>
    LET frame == meant.message.frame IN
    /\ (to = "board" /\ wire = None) <=>
         \/ ~\A s \in Range(frame.slots) : s.slot \in Agents
         \/ Cardinality({s.slot : s \in Range(frame.slots)}) # Len(frame.slots)
    /\ to = "host" => keyboard = InstallTaskStates(keyboard, EncodeTaskStates(FrameOf(frame)))

\* The n-th keycode of the OpenControl layer is heard as the n-th control, with
\* its phase, place and time; a handshake tells the host what the keyboard was
\* built with; and every other report is acknowledged by type and number.
KeycodeNumber(code) == IF code.shift THEN code.f ELSE code.f - 12

HeardAsMeant ==
  heard # None =>
    CASE meant.kind = "CONTROL_EVENT" ->
           heard = [kind  |-> "control",
                    event |-> [control |-> CONTROL_IDS[KeycodeNumber(meant.code)],
                               phase |-> meant.phase, origin |-> meant.origin,
                               layer |-> setup.layer]]
      [] meant.kind = "HELLO" ->
           /\ heard.kind = "connection"
           /\ heard.pressRelease /\ heard.usb /\ heard.slots = AgentCount
           /\ heard.rgb = setup.rgb /\ heard.encoder = setup.encoder
      [] OTHER -> heard = [kind |-> "ACK", of |-> [type |-> MessageType[meant.kind], seq |-> meant.seq]]

\* A report that is not damaged says at the other end what its sender meant:
\* the frame on the board, and the control, the handshake or the
\* acknowledgement the host hears (qmk-protocol.ts against opencontrol.c).
ReportsArriveAsMeant == damaged = {} => FramesAsMeant /\ HeardAsMeant

\* Whatever byte of a frame is damaged, other than those that say whose it is,
\* its type and its number, the keyboard's answer names the frame that was
\* sent, so the host retires the right one (PROTOCOL.md: a packet of the
\* namespace "is always consumed and receives an error response").
AnswersNameTheFrame ==
  (/\ heard # None /\ meant.kind \in {"PING", "TASK_STATES"}
   /\ \A d \in damaged : d.to = "board" /\ d.byte \notin {1, 2, 3, 5, 6})
  => /\ heard.kind \in {"ACK", "ERROR"}
     /\ heard.of = [type |-> MessageType[meant.kind], seq |-> meant.seq]

\* The two implementations agree on every TASK_STATES report that may come
\* over the cable, damaged ones too: what the host's decoder refuses the
\* keyboard refuses, leaving no trace, and what it accepts the keyboard installs
\* (PROTOCOL.md: acknowledged "only after the complete state vector has been
\* validated and installed").
TwinsAgree ==
  (/\ to = "board" /\ wire # None
   /\ IsOpenControlReport(wire) /\ wire[4] = Major /\ wire[5] = MessageType.TASK_STATES) =>
      LET frame == DecodeTaskStates(DecodeQmkPacket(wire)) IN
      ReadReport(setup, keyboard, wire).board =
        IF frame = None THEN keyboard ELSE InstallTaskStates(keyboard, EncodeTaskStates(frame))

\* The cadence of every connection lets the keyboard hear from the host in
\* time even if the first two sendings of a heartbeat are lost, whatever
\* timeout the keyboard was built with and whatever cadence was asked for.
KeepAliveInTime ==
  (heard # None /\ damaged = {} /\ meant.kind = "HELLO") =>
    heard.heartbeat + MaximumRetries * heard.patience < setup.timeout
=============================================================================
