---------------------------- MODULE QmkFirmware ----------------------------
(***************************************************************************)
(* The OpenControl community module of a QMK keyboard                      *)
(* (src/firmware/modules/opencontrol/opencontrol.c) as operations on the   *)
(* value of its static variables: what a key record, a VIA report and the  *)
(* housekeeping task do to them, what is sent to the host, and what the    *)
(* indicators paint.  QmkLink gives these operations their interleaving.   *)
(***************************************************************************)
EXTENDS QmkProtocol, Sequences, FiniteSetsExt

CONSTANTS KeyCount,   \* matrix positions, numbered in the order the LED scan visits them
          HeldCount   \* OPENCONTROL_HELD_CONTROL_COUNT, eight in the product

ASSUME KeyCountAssumption == KeyCount \in Nat \ {0} /\ HeldCount \in Nat \ {0}

Keys == 1 .. KeyCount

Boards ==
  [input : BOOLEAN, feedback : BOOLEAN, held : SUBSET [key : Keys, control : ControlCodes],
   selected : 0 .. 255, states : [0 .. AgentCount - 1 -> 0 .. 5],
   unread : SUBSET (0 .. AgentCount - 1)]

\* The statics of a keyboard that has just booted, after keyboard_post_init.
BootedBoard ==
  [input |-> FALSE, feedback |-> FALSE, held |-> {}, selected |-> SelectedNone,
   states |-> [i \in 0 .. AgentCount - 1 |-> 0], unread |-> {}]

\* opencontrol_mark_input_seen; housekeeping_task_opencontrol takes it back after the timeout.
\* A mistaken variant: one liveness flag for input and feedback.
AnythingSeen(b) == [b EXCEPT !.input = TRUE, !.feedback = TRUE]

InputSeen(b)     == [b EXCEPT !.input = TRUE]
InputTimedOut(b) == [b EXCEPT !.input = FALSE]
FeedbackTimedOut(b) ==
  [b EXCEPT !.feedback = FALSE, !.selected = SelectedNone, !.unread = {},
            !.states = [i \in DOMAIN @ |-> 0]]

(***************************************************************************)
(* process_record_opencontrol: one key record.  A result is the board      *)
(* after it and the reports it sends.                                      *)
(***************************************************************************)
ControlEvent(b, control, phase, id) ==
  IF b.input THEN <<[type |-> "CONTROL_EVENT", control |-> control, phase |-> phase, id |-> id]>>
  ELSE <<>>

HeldOf(b, key) == {h \in b.held : h.key = key}

Remember(b, key, control) ==
  IF Cardinality(b.held) < HeldCount
  THEN [b EXCEPT !.held = @ \cup {[key |-> key, control |-> control]}]
  ELSE b

Pressed(b, key, control, id) ==
  LET again == HeldOf(b, key) # {} IN
  [board |-> IF again THEN b ELSE Remember(b, key, control),
   sent  |-> ControlEvent(b, control, IF again THEN "repeat" ELSE "press", id)]

ReleasedHeld(b, h, id) ==
  [board |-> [b EXCEPT !.held = @ \ {h}],
   sent  |-> ControlEvent(b, h.control, "release", id)]

\* A mistaken variant: a release is looked up in the keymap of the moment.
ProcessRecordByKeymap(b, key, down, layer, code, id) ==
  LET control == ControlForKeycode(code) IN
  IF control = ControlNone \/ ~layer THEN [board |-> b, sent |-> <<>>]
  ELSE IF down THEN Pressed(b, key, control, id)
  ELSE [board |-> [b EXCEPT !.held = @ \ HeldOf(b, key)],
        sent  |-> ControlEvent(b, control, "release", id)]

\* "layer": the record's key resolves to OPENCONTROL_LAYER; "code": the keycode there.
ProcessRecord(b, key, down, layer, code, id) ==
  LET control == ControlForKeycode(code) IN
  IF ~down /\ HeldOf(b, key) # {} THEN ReleasedHeld(b, CHOOSE h \in HeldOf(b, key) : TRUE, id)
  ELSE IF control = ControlNone \/ ~layer THEN [board |-> b, sent |-> <<>>]
  ELSE IF down THEN Pressed(b, key, control, id)
  ELSE [board |-> b, sent |-> ControlEvent(b, control, "release", id)]

(***************************************************************************)
(* opencontrol_via_command: one report of the host.  "body" in an ACK is   *)
(* what the keyboard installed for it: the acknowledgement itself carries  *)
(* only the type and the sequence.                                         *)
(***************************************************************************)
Ack(packet) == [type |-> "ACK", of |-> packet.type, seq |-> packet.seq, body |-> packet.body]
Error(packet) == [type |-> "ERROR", of |-> packet.type, seq |-> packet.seq]

ValidTaskStates(body) ==
  /\ body.selected = SelectedNone \/ body.selected < AgentCount
  /\ \A i \in DOMAIN body.codes : body.codes[i] <= 5

InstallTaskStates(b, body) ==
  InputSeen([b EXCEPT !.selected = body.selected, !.states = body.codes,
                      !.unread = body.unread \cap (0 .. AgentCount - 1), !.feedback = TRUE])

ViaCommand(b, packet) ==
  CASE packet.garbled ->
         [board |-> b, sent |-> <<Error(packet)>>]
    [] packet.type = "HELLO" /\ ~packet.garbled ->
         [board |-> InputSeen(b), sent |-> <<[type |-> "HELLO_ACK", seq |-> packet.seq]>>]
    [] packet.type = "TASK_STATES" /\ ~packet.garbled ->
         IF ValidTaskStates(packet.body)
         THEN [board |-> InstallTaskStates(b, packet.body), sent |-> <<Ack(packet)>>]
         ELSE [board |-> b, sent |-> <<Error(packet)>>]
    [] packet.type = "PING" /\ ~packet.garbled ->
         [board |-> InputSeen(b), sent |-> <<Ack(packet)>>]

(***************************************************************************)
(* rgb_matrix_indicators_opencontrol: what the module paints over the      *)
(* user's own lighting, by key.  The map of agent LEDs is recomputed from  *)
(* the dynamic keymap before it is used whenever VIA may have changed it.  *)
(***************************************************************************)
ColorForState(code, unread) ==
  CASE code = 1 \/ (code = 4 /\ ~unread) -> "white"
    [] code = 2                          -> "blue"
    [] code = 3                          -> "amber"
    [] code = 4 /\ unread                -> "green"
    [] code = 5                          -> "red"
    [] OTHER                             -> "black"

\* opencontrol_refresh_agent_leds: the first position that carries an agent's keycode.
AgentLeds(keymap) ==
  [i \in 0 .. AgentCount - 1 |->
     LET carriers == {k \in Keys : ControlForKeycode(keymap[k]) = i + 1} IN
     IF carriers = {} THEN None ELSE Min(carriers)]

Painted(b, keymap) ==
  IF ~b.feedback THEN {}
  ELSE LET leds == AgentLeds(keymap) IN
       {[key   |-> leds[i],
         color |-> ColorForState(b.states[i], i \in b.unread),
         pulse |-> b.selected = i /\ b.states[i] # 0] :
          i \in {j \in 0 .. AgentCount - 1 : leds[j] # None}}
=============================================================================
