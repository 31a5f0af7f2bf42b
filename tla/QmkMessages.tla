---------------------------- MODULE QmkMessages -----------------------------
(***************************************************************************)
(* What may be said over the Raw HID cable, and by whom: the parameters of *)
(* QmkReports and what is assumed of them, each the range a caller in      *)
(* src/src/input or the build of the keyboard keeps to.                    *)
(***************************************************************************)
EXTENDS QmkProtocol, Sequences, Functions

CONSTANTS Messages,   \* what the host may have to send
          Keycaps,    \* the keycodes of the OpenControl layer
          Numbers,    \* sequence numbers in use
          Origins,    \* [row, column, event, time]: where and when a key record happens
          Setups,     \* how the keyboard is built and the host configured
          NewBytes,   \* what a damaged byte may become
          MaxDamage   \* bound: reports damaged in a behaviour

Byte       == 0 .. 255
Word       == {n \in Nat : n < 65536}
ReportSize == 32
RawReports == [1 .. ReportSize -> Byte]

\* The host composes HELLO, PING with the four bytes of a time, and a frame
\* whose slots come in any order and number, right or wrong.
Sayable ==
  [kind : {"HELLO"}] \cup
  [kind : {"PING"}, opaque : [1 .. 4 -> Byte]] \cup
  [kind : {"TASK_STATES"},
   frame : [selected : Agents \cup {None},
            slots : Seq([slot : Int, state : FeedbackStates, unread : BOOLEAN])]]

FunctionKeys == [f : 13 .. 24, shift : BOOLEAN]

\* A 32-bit time is the pair of its halves, the lower one first.
Places == [row : Byte, column : Byte, event : Byte, time : [1 .. 2 -> Word]]

\* What the two ends can say of a control.
CONTROL_IDS ==
  <<"agent.1", "agent.2", "agent.3", "agent.4", "agent.5", "agent.6",
    "command.fast", "command.approve", "command.decline", "command.fork", "command.mic",
    "command.send", "nav.up", "nav.right", "nav.down", "nav.left",
    "dial.ccw", "dial.cw", "dial.press">>

PhaseCode == [press |-> 1, release |-> 2, repeat |-> 3]

\* opencontrol.h refuses to build with a timeout outside one to 255 seconds;
\* the cadence and the patience asked of the host are positive durations.
Builds ==
  [rgb : BOOLEAN, encoder : BOOLEAN, layer : Byte, timeout : {t \in Nat : 1000 <= t /\ t <= 255000},
   wanted : Nat \ {0}, patience : Nat \ {0}]

ASSUME MessagesAssumption == Messages \subseteq Sayable
ASSUME KeycapsAssumption  == Keycaps \subseteq FunctionKeys
ASSUME NumbersAssumption  == Numbers \subseteq Byte
ASSUME OriginsAssumption  == Origins \subseteq Places
ASSUME SetupsAssumption   == Setups \subseteq Builds
ASSUME DamageAssumption   == NewBytes \subseteq Byte /\ MaxDamage \in Nat

\* What a decoder returns is never taken for the None of a refusal.
Decoded ==
  [major : Byte, type : Byte, seq : Byte, flags : Byte, payload : Seq(Byte)] \cup
  [selected : Agents \cup {None}, states : [Agents -> FeedbackStates], unread : SUBSET Agents] \cup
  [capabilities : Word, agents : Byte, controls : Byte, size : Byte, layer : Byte,
   heartbeat : Byte] \cup
  [control : Range(CONTROL_IDS), phase : DOMAIN PhaseCode, origin : Places, layer : Byte] \cup
  [type : Byte, seq : Byte] \cup
  [code : Byte, type : Byte, detail : Byte]

ASSUME NoneIsNoReport ==
  /\ None \notin Agents /\ None \notin RawReports /\ None \notin Decoded /\ None \notin FunctionKeys
  /\ None \notin Range(CONTROL_IDS) /\ None \notin DOMAIN PhaseCode /\ None \notin FeedbackStates
  /\ None \notin [Agents -> [slot : Agents, state : FeedbackStates, unread : BOOLEAN]]
=============================================================================
