------------------------------ MODULE QmkLink ------------------------------
(***************************************************************************)
(* The enhanced QMK path end to end: the registry status a host publishes  *)
(* (cli.ts, task-feedback-scheduler.ts), the Raw HID adapter               *)
(* (QmkAdapter), the two report pipes, and the keyboard (QmkFirmware) with *)
(* the fingers on it.  The pipes are FIFO but for copies: the environment  *)
(* may lose or damage a report, hand one over again however late, unplug   *)
(* the keyboard, change the keymap through VIA, suspend the machine, and   *)
(* stop or kill the host process.  What it may still do is counted in      *)
(* "budget".                                                               *)
(***************************************************************************)
EXTENDS QmkFirmware, QmkAdapter

CONSTANTS Statuses,    \* the registry statuses the tasks can be in
          FirstStatus, \* the one a behaviour starts with
          Keymap,      \* the keymap of OPENCONTROL_LAYER at boot: key -> keycode or None
          Keycodes,    \* the keycodes VIA may assign
          Candidates,  \* the devices findQmkRawHidCandidates lists, in order
          Compatible,  \* the strangers that answer HELLO with a valid HELLO_ACK
          Budgets,     \* what the environment may do in a behaviour
          MaxPending,  \* bound: unacknowledged reports when a heartbeat goes out
          MaxUp        \* bound: reports on their way to the host when a key moves

\* What the lights need of a task.
TaskViews == [state  : {"idle", "executing", "waiting", "complete", "error", "disconnected"},
              conn   : {"connected", "reconnecting"},
              unread : BOOLEAN]

ASSUME StatusesAssumption ==
  /\ Statuses \subseteq [selected : Agents \cup {None}, tasks : [Agents -> TaskViews \cup {None}]]
  /\ FirstStatus \in Statuses
ASSUME KeymapAssumption ==
  /\ Keycodes \subseteq [f : 13 .. 24, shift : BOOLEAN]
  /\ Keymap \in [Keys -> Keycodes \cup {None}]
\* The system lists an interface once.
ASSUME CandidatesAssumption ==
  /\ Candidates \in Seq(Devices)
  /\ \A i, j \in DOMAIN Candidates : Candidates[i] = Candidates[j] => i = j
  /\ \E i \in DOMAIN Candidates : Candidates[i] = Board
  /\ Compatible \subseteq Strangers

VARIABLES status,    \* TaskStatus of the registry
          due,       \* the debounce timer of the feedback scheduler runs
          host,      \* "down", "product" (the host process) or "doctor" (no feedback yet)
          adapter,   \* the fields of the QmkRawHidAdapter
          asleep,    \* the machine is suspended
          down, up,  \* reports in transit to and from the keyboard
          late,      \* copies of reports from the keyboard that will come later
          plugged, board, keymap,
          finger,    \* key -> Up, or the control (ControlNone for a plain key) it went down as
          layer,     \* OPENCONTROL_LAYER is on
          clock,     \* number of control reports sent: their sequence and timestamp
          budget,
          journal,   \* ghost: the control events delivered, newest last
          missed     \* ghost: controls whose release never reached the pipe intact,
                     \* or came before a copy of their press

hostVars  == <<status, due, host, adapter, asleep>>
boardVars == <<plugged, board, keymap, finger, layer, clock>>
vars == <<hostVars, boardVars, down, up, late, budget, journal, missed>>

Up == -1

TypeOK ==
  /\ status \in Statuses /\ due \in BOOLEAN /\ host \in {"down", "product", "doctor"}
  /\ adapter \in Adapters /\ asleep \in BOOLEAN
  /\ down \in Seq(Packets) /\ up \in Seq(Reports) /\ late \subseteq Reports
  /\ plugged \in BOOLEAN /\ board \in Boards /\ keymap \in [Keys -> Keycodes \cup {None}]
  /\ finger \in [Keys -> {Up, ControlNone} \cup ControlCodes]
  /\ layer \in BOOLEAN /\ clock \in Nat
  /\ journal \in Seq(Events) /\ missed \subseteq ControlCodes

Init ==
  /\ status = FirstStatus /\ due = FALSE /\ host = "down" /\ adapter = NewAdapter
  /\ asleep = FALSE /\ down = <<>> /\ up = <<>> /\ late = {}
  /\ plugged = TRUE /\ board = BootedBoard /\ keymap = Keymap
  /\ finger = [k \in Keys |-> Up] /\ layer = TRUE /\ clock = 0
  /\ budget \in Budgets /\ journal = <<>> /\ missed = {}

Spend(what) == budget[what] > 0 /\ budget' = [budget EXCEPT ![what] = @ - 1]

\* The keyboard is on the list only while it is plugged in.
Listed ==
  LET at == CHOOSE i \in DOMAIN Candidates : Candidates[i] = Board
  IN IF plugged THEN Candidates
     ELSE SubSeq(Candidates, 1, at - 1) \o SubSeq(Candidates, at + 1, Len(Candidates))
Awake  == host # "down" /\ ~asleep

\* Report f takes the control of e to the other side.
Turns(e, f) ==
  f.control = e.control /\ f.phase = (IF e.phase = "release" THEN "press" ELSE "release")

\* The controls the host takes for pressed, or will when it has read the pipe.
Believed(a, reports) ==
  a.pressed \cup
  {r.control : r \in {q \in Range(reports) : q.type = "CONTROL_EVENT" /\ q.phase = "press"}}

(***************************************************************************)
(* A step of the host process: its reports go down the pipe, its control   *)
(* events to the journal, "rest" and the copies still to come stay in the  *)
(* other pipe while a handle is open, and a change of connection schedules feedback                     *)
(* (onConnectionChange).  A missed release matters while the press it      *)
(* belongs to does.                                                        *)
(***************************************************************************)
HostStep(next, rest, stillDue) ==
  \E a \in {next} :     \* so that TLC computes it once
    /\ adapter' = [a EXCEPT !.out = <<>>, !.emitted = <<>>]
    /\ down' = IF plugged THEN down \o a.out ELSE <<>>
    /\ up' = IF Board \in a.handles /\ ~a.gone THEN rest ELSE <<>>
    /\ late' = IF Board \in a.handles /\ ~a.gone THEN late ELSE {}
    /\ due' = (stillDue \/ (host = "product" /\ a.active # adapter.active))
    /\ journal' = journal \o a.emitted
    /\ missed' = missed \cap Believed(a, up')
    /\ UNCHANGED <<boardVars, status, asleep>>

Timer(a) == HostStep(a, up, due) /\ UNCHANGED <<host, budget>>

\* startHostHardware; the doctor starts the adapter with nothing to show.
HostStarts(role) ==
  /\ host = "down" /\ ~asleep
  /\ role = "doctor" => budget.doctor
  /\ LET a == [NewAdapter EXCEPT
                 !.last = IF role = "product" THEN FeedbackFrame(status) ELSE None]
     IN  HostStep(Start(a, Listed, plugged), up, FALSE)
  /\ host' = role
  /\ UNCHANGED budget

\* The process ends, after stop() or without it: the system closes its handles.
HostEnds ==
  /\ host # "down" /\ Spend("restarts")
  /\ host' = "down" /\ adapter' = NewAdapter /\ due' = FALSE /\ up' = <<>>
  /\ late' = {} /\ missed' = {}
  /\ UNCHANGED <<boardVars, status, asleep, down, journal>>

StopAdapter ==
  /\ Awake /\ ~adapter.stopped /\ Spend("stops")
  /\ HostStep(Stop(adapter, plugged), up, due)
  /\ UNCHANGED host

StatusChanges ==
  /\ ~asleep /\ Spend("changes")
  /\ status' \in Statuses \ {status}
  /\ due' = (due \/ host = "product")
  /\ UNCHANGED <<boardVars, host, adapter, asleep, down, up, late, journal, missed>>

\* The debounce timer: publish the newest status.
Publish ==
  /\ Awake /\ due
  /\ HostStep(UpdateFeedback(adapter, FeedbackFrame(status)), up, FALSE)
  /\ UNCHANGED <<host, budget>>

\* Heartbeats are far apart: nothing of the last one is left in the pipes.
HeartbeatElapses ==
  /\ Awake /\ adapter.active /\ Cardinality(adapter.pending) < MaxPending
  /\ down = <<>> /\ up = <<>> /\ late = {}
  /\ Timer(Heartbeat(adapter))

ErrorTimerElapses == Awake /\ adapter.displayed # None /\ Timer(ErrorShown(adapter))

PollElapses == Awake /\ adapter.poll /\ Timer(Scan(adapter, Listed, plugged))

HostReceives ==
  /\ Awake /\ up # <<>>
  /\ LET report == Head(up) IN
     \/ /\ adapter.active
        /\ HostStep(Receive(adapter, report), Tail(up), due)
     \/ /\ adapter.scan.probing = Board
        /\ report = [type |-> "HELLO_ACK", seq |-> adapter.scan.seq]
        /\ HostStep(Answered(adapter, plugged), Tail(up), due)
     \/ /\ ~adapter.active
        /\ ~(adapter.scan.probing = Board
               /\ report = [type |-> "HELLO_ACK", seq |-> adapter.scan.seq])
        /\ HostStep(adapter, Tail(up), due)
  /\ UNCHANGED <<host, budget>>

StrangerAnswers ==
  /\ Awake /\ adapter.scan.probing \in Compatible
  /\ Timer(Answered(adapter, plugged))

(***************************************************************************)
(* Timeouts.  A report is in transit for less than the timeout that waits  *)
(* for it unless the budget pays for a slow one; a tombstone lives three   *)
(* timeouts, longer than anything it stands for.                           *)
(***************************************************************************)
Concerns(report, type, seq) ==
  \/ report.type = type /\ report.seq = seq
  \/ report.type \in {"ACK", "ERROR"} /\ report.of = type /\ report.seq = seq
  \/ type = "HELLO" /\ report.type = "HELLO_ACK" /\ report.seq = seq

InTransit(type, seq) == \E r \in Range(down) \cup Range(up) \cup late : Concerns(r, type, seq)

InTimeOrSlow(type, seq) ==
  IF InTransit(type, seq) THEN Spend("slow") ELSE UNCHANGED budget

ProbeTimesOut ==
  /\ Awake /\ adapter.scan.probing # None
  /\ IF adapter.scan.probing = Board THEN InTimeOrSlow("HELLO", adapter.scan.seq)
     ELSE UNCHANGED budget
  /\ HostStep(Unanswered(adapter, plugged), up, due)
  /\ UNCHANGED host

AckTimesOut ==
  \E p \in adapter.pending :
    /\ Awake /\ p.wait = "ack" /\ InTimeOrSlow(p.type, p.seq)
    /\ HostStep(RetryOrFail(adapter, p), up, due)
    /\ UNCHANGED host

RetryElapses ==
  \E p \in adapter.pending :
    Awake /\ p.wait = "retry" /\ Timer(TransmitPending(adapter, p))

TombstoneExpires ==
  \E d \in adapter.done :
    /\ Awake /\ ~InTransit(d.type, d.seq)
    /\ Timer([adapter EXCEPT !.done = @ \ {d}])

\* The active handle of an unplugged keyboard reports its error.
HidError == Awake /\ adapter.active /\ adapter.gone /\ Timer(Disconnect(adapter))

(***************************************************************************)
(* The keyboard.                                                           *)
(***************************************************************************)
Sends(reports) ==
  up' = IF Board \in adapter.handles /\ ~adapter.gone THEN up \o reports ELSE up

BoardReceives ==
  /\ plugged /\ down # <<>>
  /\ LET r == ViaCommand(board, Head(down)) IN
     board' = r.board /\ Sends(r.sent)
  /\ down' = Tail(down)
  /\ UNCHANGED <<hostVars, plugged, keymap, finger, layer, clock, late, budget, journal, missed>>

\* A release may go unheard if the link is not up, or the key was not remembered.
MayMiss(k) == ~board.input \/ HeldOf(board, k) = {}

KeyRecord(k, pressed) ==
  LET code    == keymap[k]
      control == ControlForKeycode(code)
      r       == ProcessRecord(board, k, pressed, layer, code, clock + 1)
  IN  /\ plugged /\ Len(up) < MaxUp /\ Spend("keys")
      /\ board' = r.board /\ Sends(r.sent)
      /\ clock' = clock + Len(r.sent)
      /\ finger' = [finger EXCEPT ![k] = IF ~pressed THEN Up
                                         ELSE IF HeldOf(board, k) # {} THEN @
                                         ELSE IF layer THEN control ELSE ControlNone]
      /\ missed' = IF MayMiss(k)
                     THEN missed \cup (({finger[k]} \ {finger'[k]}) \cap Believed(adapter, up))
                     ELSE missed
      /\ UNCHANGED <<hostVars, plugged, keymap, layer, down, late, journal>>

KeyDown(k)  == finger[k] = Up /\ KeyRecord(k, TRUE)
KeyAgain(k) == finger[k] # Up /\ budget.again /\ KeyRecord(k, TRUE)
KeyUp(k)    == finger[k] # Up /\ KeyRecord(k, FALSE)

SwitchLayer ==
  /\ plugged /\ Spend("layers") /\ layer' = ~layer
  /\ UNCHANGED <<hostVars, plugged, board, keymap, finger, clock, down, up, late, journal, missed>>

\* A VIA report that is not OpenControl's: the keymap changes, the LED map is dirty.
ViaRemaps(k) ==
  /\ plugged /\ Spend("remaps")
  /\ \E code \in Keycodes \ {keymap[k]} : keymap' = [keymap EXCEPT ![k] = code]
  /\ UNCHANGED <<hostVars, plugged, board, finger, layer, clock, down, up, late, journal, missed>>

(***************************************************************************)
(* housekeeping_task_opencontrol.  A live host sends at most half a        *)
(* timeout apart, so the timeouts elapse only while nobody sends.          *)
(***************************************************************************)
InputTimesOut ==
  /\ plugged /\ board.input /\ down = <<>>
  /\ asleep \/ host = "down" \/ (adapter.stopped /\ ~adapter.active)
  /\ board' = InputTimedOut(board)
  /\ UNCHANGED <<hostVars, plugged, keymap, finger, layer, clock, down, up, late, budget, journal,
                 missed>>

FeedbackTimesOut ==
  /\ plugged /\ board.feedback /\ \A r \in Range(down) : r.type # "TASK_STATES"
  /\ asleep \/ ~adapter.active \/ adapter.last = None
  /\ board' = FeedbackTimedOut(board)
  /\ UNCHANGED <<hostVars, plugged, keymap, finger, layer, clock, down, up, late, budget, journal,
                 missed>>

(***************************************************************************)
(* The environment.                                                        *)
(***************************************************************************)
Unplug ==
  /\ plugged /\ Spend("plugs")
  /\ plugged' = FALSE /\ down' = <<>> /\ up' = <<>> /\ late' = {}
  /\ board' = BootedBoard /\ finger' = [k \in Keys |-> Up]
  /\ adapter' = [adapter EXCEPT !.gone = Board \in adapter.handles]
  /\ missed' = adapter.pressed
  /\ UNCHANGED <<status, due, host, asleep, keymap, layer, clock, journal>>

Plug ==
  /\ ~plugged /\ plugged' = TRUE
  /\ UNCHANGED <<hostVars, board, keymap, finger, layer, clock, down, up, late, budget, journal, missed>>

Environment ==
  UNCHANGED <<status, due, host, adapter, boardVars, journal>>

LoseDown == down # <<>> /\ Spend("lose") /\ down' = Tail(down)
            /\ UNCHANGED <<asleep, up, late, missed>> /\ Environment

ReleasedBy(report) ==
  IF report.type = "CONTROL_EVENT" /\ report.phase = "release" THEN {report.control} ELSE {}

LoseUp == up # <<>> /\ Spend("lose") /\ up' = Tail(up) /\ UNCHANGED <<asleep, down, late>>
         /\ missed' = missed \cup ReleasedBy(Head(up)) /\ Environment

GarbleDown ==
  /\ down # <<>> /\ ~Head(down).garbled /\ Spend("garble")
  /\ down' = <<[Head(down) EXCEPT !.garbled = TRUE]>> \o Tail(down)
  /\ UNCHANGED <<asleep, up, late, missed>> /\ Environment

GarbleUp ==
  /\ up # <<>> /\ Spend("garble") /\ up' = <<[type |-> "MALFORMED"]>> \o Tail(up)
  /\ missed' = missed \cup ReleasedBy(Head(up))
  /\ UNCHANGED <<asleep, down, late>> /\ Environment

\* A HID stack will hand the same report over twice.
RepeatUp ==
  /\ up # <<>> /\ Spend("dup") /\ late' = late \cup {Head(up)}
  /\ UNCHANGED <<asleep, down, up, missed>> /\ Environment

PressedBy(report) ==
  IF report.type = "CONTROL_EVENT" /\ report.phase = "press" THEN {report.control} ELSE {}

\* The copy comes: at once, behind later reports, or when the host has acted on
\* them.  With the release of a control the host forgets its reports, so that a
\* copy of its press that comes behind it presses the control again and nothing
\* will release it.
CopyArrives ==
  \E report \in late :
    /\ late' = late \ {report} /\ up' = up \o <<report>>
    /\ missed' = missed \cup (PressedBy(report) \ Range(finger))
    /\ UNCHANGED <<asleep, down, budget>> /\ Environment

Sleep == /\ ~asleep /\ Spend("sleep") /\ asleep' = TRUE
         /\ UNCHANGED <<down, up, late, missed>> /\ Environment
Wake  == asleep /\ asleep' = FALSE /\ UNCHANGED <<down, up, late, missed, budget>> /\ Environment

Host == \/ \E role \in {"product", "doctor"} : HostStarts(role)
        \/ HostEnds \/ StopAdapter \/ StatusChanges \/ Publish
        \/ HeartbeatElapses \/ ErrorTimerElapses \/ PollElapses \/ HostReceives \/ StrangerAnswers
        \/ ProbeTimesOut \/ AckTimesOut \/ RetryElapses \/ TombstoneExpires \/ HidError

Keyboard == \/ BoardReceives \/ InputTimesOut \/ FeedbackTimesOut \/ SwitchLayer
            \/ \E k \in Keys : KeyDown(k) \/ KeyAgain(k) \/ KeyUp(k) \/ ViaRemaps(k)

Faults == \/ Unplug \/ Plug \/ LoseDown \/ LoseUp \/ GarbleDown \/ GarbleUp \/ RepeatUp
          \/ CopyArrives \/ Sleep \/ Wake

Next == Host \/ Keyboard \/ Faults

Fairness ==
  /\ WF_vars(HostReceives) /\ WF_vars(BoardReceives) /\ WF_vars(HeartbeatElapses)
  /\ WF_vars(PollElapses) /\ WF_vars(ProbeTimesOut) /\ WF_vars(AckTimesOut)
  /\ WF_vars(RetryElapses) /\ WF_vars(TombstoneExpires) /\ WF_vars(ErrorTimerElapses)
  /\ WF_vars(HidError) /\ WF_vars(Publish) /\ WF_vars(CopyArrives)

Spec == Init /\ [][Next]_vars

FairSpec == Spec /\ Fairness

(***************************************************************************)
(* Properties.                                                             *)
(***************************************************************************)

\* An acknowledgement that the adapter will match to a waiting report is the
\* one of that report: what it carried is what the keyboard installed
\* (PROTOCOL.md: "acknowledged only after the complete state vector has been
\* validated and installed").  Sequence numbers wrap, retries duplicate
\* acknowledgements and two reports may be waiting at once.
AckNamesItsFrame ==
  adapter.active =>
    \A r \in Range(up), p \in adapter.pending :
      (r.type = "ACK" /\ r.of = p.type /\ r.seq = p.seq) => r.body = p.body

\* The host acts on a report again only if its control has changed sides since,
\* whatever is lost and however late copies come (input-qmk-adapter.test.ts:390,
\* "drops replayed packets and repeated presses until a release edge").
ReplaysDroppedUntilAnEdge ==
  \A i, j \in DOMAIN journal : i < j /\ journal[i] = journal[j] =>
    \E k \in i + 1 .. j - 1 : Turns(journal[i], journal[k])

\* A control the host takes for pressed is under a finger, its release is on
\* its way, or that release was lost, damaged, dropped by a keyboard whose
\* input link had timed out, overtaken by a copy of its press that came late, or
\* the key was the one more than the held table remembers.  Layer switches and
\* VIA remaps between press and release are not among the excuses.
StuckOnlyByMissedRelease ==
  adapter.active =>
    \A c \in adapter.pressed :
      \/ \E k \in Keys : finger[k] = c
      \/ \E r \in Range(up) : c \in ReleasedBy(r)
      \/ c \in missed

\* While the overlay is on, the keyboard shows a frame the host composed (a
\* status, or the red of a protocol error): a keyboard kept alive by HELLO and
\* PING alone does not paint zeroes over the user's lighting.
OverlayIsAFrame ==
  board.feedback =>
    \E s \in Statuses : \E frame \in {FeedbackFrame(s), ErrorFrame(FeedbackFrame(s))} :
      [selected |-> board.selected, codes |-> board.states, unread |-> board.unread]
        = EncodeTaskStates(frame)

\* Every HID handle the adapter has open is the active one, the one being
\* probed or one that answered in the scan still running; handles of other
\* keyboards are not held once the scan is over.
HandlesAccounted ==
  adapter.handles = (IF adapter.active THEN {Board} ELSE {})
                      \cup ({adapter.scan.probing} \ {None}) \cup adapter.scan.compatible

\* What the lights should say, from the registry alone.
Wanted(task) ==
  CASE task = None -> "black"
    [] task # None /\ (task.state \in {"disconnected", "error"} \/ task.conn = "reconnecting") -> "red"
    [] task # None /\ task.conn = "connected" /\ task.state = "executing" -> "blue"
    [] task # None /\ task.conn = "connected" /\ task.state = "waiting"   -> "amber"
    [] task # None /\ task.conn = "connected" /\ task.state = "complete" /\ task.unread -> "green"
    [] OTHER -> "white"

LightsAgree ==
  LET leds == AgentLeds(keymap)
      lit  == Painted(board, keymap)
  IN \A i \in 0 .. AgentCount - 1 : \A k \in Keys : leds[i] = k =>
      \E light \in lit :
        /\ light.key = k /\ light.color = Wanted(status.tasks[i + 1])
        /\ light.pulse = (status.selected = i + 1 /\ status.tasks[i + 1] # None)

\* Once the machine stays awake with the host running and the keyboard plugged
\* in, the keyboard ends up showing the registry's status and goes on showing
\* it, whatever was lost, rejected, retried or unplugged before.
BoardEndsUpToDate ==
  <>[](plugged /\ host = "product" /\ ~adapter.stopped /\ ~asleep) => <>[]LightsAgree
=============================================================================
