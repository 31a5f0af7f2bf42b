---------------------------- MODULE QmkAdapter -----------------------------
(***************************************************************************)
(* The Raw HID adapter of the host (QmkRawHidAdapter,                      *)
(* src/src/input/qmk-raw-hid-adapter.ts) as operations on the value of its *)
(* fields.  Each operation runs to the next point where the code returns   *)
(* to the event loop: a promise continuation is part of the step that      *)
(* resolved it.  "out" holds the reports written and "emitted" the control *)
(* events delivered during a step; QmkLink moves both on and empties them. *)
(* Health and error events, which only report, are left out.               *)
(***************************************************************************)
EXTENDS QmkProtocol, Sequences, FiniteSetsExt

CONSTANTS Board,       \* the enrolled keyboard
          Strangers,   \* other Raw HID candidates on the machine
          SeqCount,    \* sequence numbers: 256 in the product
          MaxRetries   \* MAXIMUM_RETRIES, two in the product

ASSUME AdapterAssumption ==
  SeqCount \in Nat \ {0} /\ MaxRetries \in Nat /\ Board \notin Strangers

Devices == {Board} \cup Strangers
Seqs    == 0 .. SeqCount - 1

ASSUME NoneIsNoDevice == None \notin Devices

\* Reports to the keyboard, and from it.
Packets == [type : {"HELLO", "TASK_STATES", "PING"}, seq : Seqs,
            body : TaskStates \cup {None}, garbled : BOOLEAN]
Reports == Events \cup [type : {"HELLO_ACK"}, seq : Seqs] \cup [type : {"MALFORMED"}] \cup
           [type : {"ACK"}, of : {"TASK_STATES", "PING"}, seq : Seqs, body : TaskStates \cup {None}] \cup
           [type : {"ERROR"}, of : {"HELLO", "TASK_STATES", "PING"}, seq : Seqs]

Pendings == [type : {"TASK_STATES", "PING"}, seq : Seqs, body : TaskStates \cup {None},
             attempts : 0 .. MaxRetries + 1, wait : {"ack", "retry"}]
Tombstones == [type : {"TASK_STATES", "PING"}, seq : Seqs]
Scans == [left : Seq(Devices), probing : Devices \cup {None}, seq : Seqs,
          compatible : SUBSET Devices]

Adapters ==
  [stopped : BOOLEAN, poll : BOOLEAN, scan : Scans, active : BOOLEAN,
   handles : SUBSET Devices, gone : BOOLEAN, sequence : Seqs,
   pending : SUBSET Pendings, done : SUBSET Tombstones,
   last : Frame \cup {None}, displayed : Frame \cup {None},
   pressed : SUBSET ControlCodes, recent : SUBSET Events,
   out : Seq(Packets), emitted : Seq(Events)]

NoScan == [left |-> <<>>, probing |-> None, seq |-> 0, compatible |-> {}]

\* A freshly constructed adapter.  "handles" are the HID handles it has open;
\* "gone": the device behind the open handle of the keyboard was unplugged.
NewAdapter ==
  [stopped |-> TRUE, poll |-> FALSE, scan |-> NoScan, active |-> FALSE, handles |-> {},
   gone |-> FALSE, sequence |-> 0, pending |-> {}, done |-> {}, last |-> None,
   displayed |-> None, pressed |-> {}, recent |-> {}, out |-> <<>>, emitted |-> <<>>]

Write(a, packet) == [a EXCEPT !.out = Append(@, packet)]
Close(a, devices) == [a EXCEPT !.handles = @ \ devices, !.gone = @ /\ Board \notin devices]

(***************************************************************************)
(* Sequence numbers: the next one that is neither pending nor tombstoned.  *)
(***************************************************************************)
InUse(a) == {p.seq : p \in a.pending} \cup {d.seq : d \in a.done}

FreeOffsets(a) == {k \in Seqs : (a.sequence + k) % SeqCount \notin InUse(a)}

\* A mistaken variant: a number is free again as soon as it is acknowledged.
NextSequenceAnyDone(a) ==
  LET taken == {p.seq : p \in a.pending} IN
  IF a.sequence \in taken THEN (a.sequence + 1) % SeqCount ELSE a.sequence

NextSequence(a) == (a.sequence + Min(FreeOffsets(a))) % SeqCount

\* A mistaken variant: the counter is not masked to eight bits.
TakeSequenceUnmasked(a) == [a EXCEPT !.sequence = NextSequence(a) + 1]

TakeSequence(a) == [a EXCEPT !.sequence = (NextSequence(a) + 1) % SeqCount]

SchedulePoll(a) == [a EXCEPT !.poll = @ \/ (~a.stopped /\ ~a.active)]

(***************************************************************************)
(* disconnect(true): everything that belongs to the connection goes.       *)
(* stop() has already set "stopped", so the same body serves               *)
(* disconnect(false).                                                      *)
(***************************************************************************)
\* A mistaken variant: only start() schedules the poll.
DisconnectForGood(a) ==
  Close([a EXCEPT !.active = FALSE, !.pressed = {}, !.recent = {},
                  !.displayed = None, !.pending = {}, !.done = {}], {Board})

Disconnect(a) ==
  SchedulePoll(Close([a EXCEPT !.active = FALSE, !.pressed = {}, !.recent = {},
                               !.displayed = None, !.pending = {}, !.done = {}], {Board}))

(***************************************************************************)
(* sendReliable, transmitPending, retryOrFailAcknowledgement.              *)
(***************************************************************************)
Packet(p) == [type |-> p.type, seq |-> p.seq, body |-> p.body, garbled |-> FALSE]

Replace(a, p, q) == [a EXCEPT !.pending = (@ \ {p}) \cup {q}]

TransmitPending(a, p) ==
  LET tried == p.attempts + 1 IN
  IF ~a.gone THEN Write(Replace(a, p, [p EXCEPT !.attempts = tried, !.wait = "ack"]), Packet(p))
  ELSE IF tried <= MaxRetries THEN Replace(a, p, [p EXCEPT !.attempts = tried, !.wait = "retry"])
  ELSE Disconnect(a)

RetryOrFail(a, p) == IF p.attempts <= MaxRetries THEN TransmitPending(a, p) ELSE Disconnect(a)

SendReliable(a, type, body) ==
  IF FreeOffsets(a) = {} THEN a
  ELSE LET p == [type |-> type, seq |-> NextSequence(a), body |-> body,
                 attempts |-> 0, wait |-> "ack"]
       IN  TransmitPending([TakeSequence(a) EXCEPT !.pending = @ \cup {p}], p)

SendFeedback(a, frame) == SendReliable(a, "TASK_STATES", EncodeTaskStates(frame))
SendPing(a)            == SendReliable(a, "PING", None)

UpdateFeedback(a, frame) ==
  LET b == [a EXCEPT !.last = frame] IN
  IF a.active /\ a.displayed = None THEN SendFeedback(b, frame) ELSE b

\* The interval timer of startHeartbeat.
Heartbeat(a) ==
  IF a.displayed # None THEN SendFeedback(a, a.displayed)
  ELSE IF a.last # None THEN SendFeedback(a, a.last)
  ELSE SendPing(a)

\* showProtocolErrorFeedback, and its timer.
ShowError(a) ==
  IF ~a.active \/ a.last = None THEN a
  ELSE SendFeedback([a EXCEPT !.displayed = ErrorFrame(a.last)], ErrorFrame(a.last))

ErrorShown(a) == SendFeedback([a EXCEPT !.displayed = None], a.last)

(***************************************************************************)
(* scanOnce: probe one candidate after the other, then claim the enrolled  *)
(* keyboard if it answered.  Proceed runs from the resolution of a probe   *)
(* (or the start of the scan) to the next HELLO or the end of the scan.    *)
(***************************************************************************)
Claim(a) ==
  LET b == [a EXCEPT !.poll = FALSE, !.active = TRUE, !.scan = NoScan, !.pressed = {},
                     !.recent = {}]
  IN  IF b.last # None THEN SendFeedback(b, b.last) ELSE b

GiveUpScan(a) == SchedulePoll([Close(a, a.scan.compatible) EXCEPT !.scan = NoScan])

\* A mistaken variant: the other keyboards that answered stay open.
ClaimAndKeep(a) == Claim(a)

ClaimSelected(a) == Claim(Close(a, a.scan.compatible \ {Board}))

Probe(a, i) ==
  LET device == a.scan.left[i]
      b == [TakeSequence(a) EXCEPT
              !.handles = @ \cup {device},
              !.scan.probing = device, !.scan.seq = NextSequence(a),
              !.scan.left = SubSeq(@, i + 1, Len(@))]
  IN  IF device = Board
      THEN Write(b, [type |-> "HELLO", seq |-> NextSequence(a), body |-> None, garbled |-> FALSE])
      ELSE b

Proceed(a, plugged) ==
  LET openable == {i \in DOMAIN a.scan.left : a.scan.left[i] # Board \/ plugged} IN
  IF a.stopped /\ a.scan.left # <<>> THEN GiveUpScan(a)
  ELSE IF openable # {} THEN Probe(a, Min(openable))
  ELSE IF Board \in a.scan.compatible THEN ClaimSelected(a)
  ELSE GiveUpScan(a)

Scan(a, candidates, plugged) == Proceed([a EXCEPT !.poll = FALSE, !.scan.left = candidates], plugged)

\* finish(result) and finish(null) of probe.
Answered(a, plugged) ==
  LET b == [a EXCEPT !.scan.probing = None, !.scan.compatible = @ \cup {a.scan.probing}] IN
  IF a.stopped THEN GiveUpScan(b) ELSE Proceed(b, plugged)

Unanswered(a, plugged) ==
  Proceed([Close(a, {a.scan.probing}) EXCEPT !.scan.probing = None], plugged)

Start(a, candidates, plugged) == Scan([a EXCEPT !.stopped = FALSE], candidates, plugged)

\* stop(): the probe it cancels resolves with null, and scanOnce goes on from there.
Stop(a, plugged) ==
  LET halted == [a EXCEPT !.stopped = TRUE, !.poll = FALSE, !.displayed = None]
      closed == IF halted.active THEN Disconnect(halted) ELSE halted
  IN  IF a.scan.probing # None THEN Unanswered(closed, plugged) ELSE closed

(***************************************************************************)
(* receive: one report of the keyboard on the active handle.               *)
(***************************************************************************)
RememberPacket(a, report) == [a EXCEPT !.recent = @ \cup {report}]
Emit(a, report)     == [a EXCEPT !.emitted = Append(@, report)]

ForgetControl(a, control) == [a EXCEPT !.recent = {r \in @ : r.control # control}]

\* A mistaken variant: nothing remembers the packets already seen.
ReceiveUnseen(a, report) ==
  CASE report.phase = "press" ->
         IF report.control \in a.pressed THEN a
         ELSE Emit([a EXCEPT !.pressed = @ \cup {report.control}], report)
    [] report.phase = "release" ->
         IF report.control \notin a.pressed THEN a
         ELSE Emit([a EXCEPT !.pressed = @ \ {report.control}], report)
    [] report.phase = "repeat" -> Emit(a, report)

ReceiveControl(a, report) ==
  LET seen == RememberPacket(a, report) IN
  CASE report \in a.recent -> a
    [] report \notin a.recent /\ report.phase = "press" ->
         IF report.control \in a.pressed THEN seen
         ELSE Emit([seen EXCEPT !.pressed = @ \cup {report.control}], report)
    [] report \notin a.recent /\ report.phase = "release" ->
         IF report.control \notin a.pressed THEN seen
         ELSE Emit(ForgetControl([seen EXCEPT !.pressed = @ \ {report.control}], report.control),
                   report)
    [] report \notin a.recent /\ report.phase = "repeat" -> Emit(seen, report)

PendingOf(a, report) == {p \in a.pending : p.type = report.of /\ p.seq = report.seq}

ReceiveAck(a, report) ==
  LET tombstone == [type |-> report.of, seq |-> report.seq] IN
  IF PendingOf(a, report) # {}
  THEN [a EXCEPT !.pending = @ \ PendingOf(a, report), !.done = @ \cup {tombstone}]
  ELSE IF tombstone \in a.done THEN a
  ELSE ShowError(a)

ReceiveError(a, report) ==
  LET failed == [a EXCEPT !.pending = @ \ PendingOf(a, report)] IN
  IF report.of = "TASK_STATES" THEN failed ELSE ShowError(failed)

Receive(a, report) ==
  CASE report.type = "CONTROL_EVENT" -> ReceiveControl(a, report)
    [] report.type = "ACK"           -> ReceiveAck(a, report)
    [] report.type = "ERROR"         -> ReceiveError(a, report)
    [] report.type = "MALFORMED"     -> ShowError(a)
    [] OTHER                         -> a
=============================================================================
