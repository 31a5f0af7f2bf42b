---------------------------- MODULE QmkProtocol ----------------------------
(***************************************************************************)
(* OpenControl's Raw HID protocol, the part both ends share: what a task   *)
(* status becomes on its way to the lights of the keyboard                 *)
(* (src/src/task-feedback.ts, src/src/input/qmk-protocol.ts) and what a    *)
(* keycode becomes on its way to the host (opencontrol.c).  A 32-byte      *)
(* report is a record; a bit mask is the set of its bits.                  *)
(***************************************************************************)
EXTENDS Integers

CONSTANTS AgentCount,  \* OPENCONTROL_QMK_AGENT_COUNT, six in the product
          None         \* null / undefined / absent

ASSUME AgentCountAssumption == AgentCount \in 1 .. 6

Agents       == 1 .. AgentCount
SelectedNone == 255            \* OPENCONTROL_QMK_SELECTED_NONE

StateCode == [off |-> 0, idle |-> 1, executing |-> 2, waiting |-> 3, complete |-> 4, error |-> 5]
FeedbackStates == DOMAIN StateCode

(***************************************************************************)
(* Host to keyboard: a registry status, its frame, its payload.            *)
(***************************************************************************)
Frame == [selected : Agents \cup {None}, states : [Agents -> FeedbackStates],
          unread : SUBSET Agents]

ASSUME NoneIsNoFrame == None \notin Frame

FeedbackState(task) ==
  IF task.state = "disconnected" \/ task.conn = "reconnecting" THEN "error" ELSE task.state

FeedbackFrame(status) ==
  [selected |-> status.selected,
   states   |-> [a \in Agents |-> IF status.tasks[a] = None THEN "off"
                                  ELSE FeedbackState(status.tasks[a])],
   unread   |-> {a \in Agents : status.tasks[a] # None /\ status.tasks[a].unread}]

\* What the host shows while it reports a protocol error: every assigned task red.
ErrorFrame(frame) ==
  [frame EXCEPT !.states = [a \in Agents |-> IF @[a] = "off" THEN "off" ELSE "error"]]

TaskStates == [selected : 0 .. 255, codes : [0 .. AgentCount - 1 -> 0 .. 5],
               unread : SUBSET (0 .. 7)]

EncodeTaskStates(frame) ==
  [selected |-> IF frame.selected = None THEN SelectedNone ELSE frame.selected - 1,
   codes    |-> [i \in 0 .. AgentCount - 1 |-> StateCode[frame.states[i + 1]]],
   unread   |-> {a - 1 : a \in frame.unread}]

(***************************************************************************)
(* Keyboard to host: a keycode (F13 .. F24, with or without Shift), or     *)
(* None for any other, and the control code it stands for.                 *)
(***************************************************************************)
ControlNone  == 0
ControlCodes == 1 .. 50

\* Control reports; "id" stands for the sequence number and the timestamp that
\* make two of them differ.
Events == [type : {"CONTROL_EVENT"}, control : ControlCodes,
           phase : {"press", "release", "repeat"}, id : Nat]

ControlForKeycode(code) ==
  CASE code = None                                -> ControlNone
    [] code # None /\ ~code.shift /\ code.f <= 18 -> 1 + code.f - 13
    [] code # None /\ ~code.shift /\ code.f > 18  -> 16 + code.f - 19
    [] code # None /\ code.shift /\ code.f <= 16  -> 32 + code.f - 13
    [] code # None /\ code.shift /\ code.f \in 17 .. 19 -> 48 + code.f - 17
    [] OTHER                                      -> ControlNone
=============================================================================
