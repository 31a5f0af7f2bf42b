----------------------------- MODULE MCQmkLink -----------------------------
(***************************************************************************)
(* The HID link twice: as QmkLink, where a report is a record, on a        *)
(* keyboard with two keys for OpenControl, another Raw HID candidate and   *)
(* environments that can each do a few different things wrong; and as      *)
(* QmkReports, where a report is its 32 bytes.  A behaviour is of one of   *)
(* the two, the other stands still.                                        *)
(***************************************************************************)
EXTENDS QmkLink, QmkReports

CONSTANTS Other

MCStrangers  == {Other}
MCCandidates == <<Board, Other>>

Task(state, conn, unread) == [state |-> state, conn |-> conn, unread |-> unread]

Six(first, second) == <<first, second, None, None, None, None>>
Working  == [selected |-> 1, tasks |-> Six(Task("executing", "connected", FALSE), None)]
Finished == [selected |-> 2, tasks |-> Six(Task("complete", "connected", TRUE),
                                           Task("waiting", "reconnecting", FALSE))]
MCFirst    == Working
MCStatuses == {Working, Finished}

F(n) == [f |-> n, shift |-> FALSE]
MCKeycodes == {F(13), F(14)}
MCKeymap   == <<F(13), F(14)>>

Nothing == [lose |-> 0, dup |-> 0, slow |-> 0, garble |-> 0, keys |-> 0, layers |-> 0, remaps |-> 0,
            plugs |-> 0, sleep |-> 0, restarts |-> 0, stops |-> 0, changes |-> 0,
            doctor |-> FALSE, again |-> FALSE]

Feedback == {[Nothing EXCEPT !.changes = 1, !.slow = 2, !.lose = 1],
             [Nothing EXCEPT !.changes = 1, !.garble = 2],
             [Nothing EXCEPT !.changes = 1, !.plugs = 2, !.lose = 1],
             [Nothing EXCEPT !.restarts = 2, !.stops = 1],
             [Nothing EXCEPT !.restarts = 2, !.sleep = 1, !.doctor = TRUE]}
Controls == {[Nothing EXCEPT !.keys = 3, !.layers = 1],
             [Nothing EXCEPT !.keys = 2, !.remaps = 1],
             [Nothing EXCEPT !.keys = 2, !.dup = 1, !.again = TRUE],
             [Nothing EXCEPT !.keys = 3, !.dup = 1],
             [Nothing EXCEPT !.keys = 2, !.lose = 1],
             [Nothing EXCEPT !.keys = 1, !.garble = 1],
             [Nothing EXCEPT !.keys = 2, !.sleep = 1]}
MCBudgets == Feedback \cup Controls

-----------------------------------------------------------------------------
(***************************************************************************)
(* The bytes: a handful of frames that tell the slots, states and unread   *)
(* bits apart, every keycode, and keyboards at both ends of the range of   *)
(* timeouts that opencontrol.h allows, read by hosts that ask for too much *)
(* or too little.                                                          *)
(***************************************************************************)
VARIABLE level    \* of this behaviour: "records" or "bytes"

Slot(a, s, u) == [slot |-> a, state |-> s, unread |-> u]
Shows(a, list) == [kind |-> "TASK_STATES", frame |-> [selected |-> a, slots |-> list]]

\* The vector of the repository's tests, its reverse with a gap, an empty list,
\* a list that names a slot twice and one with a slot that is not there.
MCMessages ==
  {[kind |-> "HELLO"], [kind |-> "PING", opaque |-> <<120, 86, 52, 18>>],
   Shows(2, <<Slot(1, "idle", FALSE), Slot(2, "executing", FALSE), Slot(3, "waiting", FALSE),
              Slot(4, "complete", TRUE), Slot(5, "error", FALSE)>>),
   Shows(6, <<Slot(6, "complete", TRUE), Slot(1, "error", TRUE), Slot(3, "off", FALSE)>>),
   Shows(None, <<>>),
   Shows(1, <<Slot(1, "idle", FALSE), Slot(1, "error", FALSE)>>),
   Shows(1, <<Slot(7, "idle", FALSE)>>)}

MCLayer ==
  {[f |-> f, shift |-> FALSE] : f \in 13 .. 24} \cup {[f |-> f, shift |-> TRUE] : f \in 13 .. 20}

MCOrigins == {[row |-> 2, column |-> 255, event |-> 1, time |-> <<22136, 4660>>]}

MCSetups ==
  {[rgb |-> TRUE,  encoder |-> FALSE, layer |-> 3, timeout |-> 5000,   wanted |-> 2000,    patience |-> 250],
   [rgb |-> FALSE, encoder |-> TRUE,  layer |-> 0, timeout |-> 1999,   wanted |-> 1000000, patience |-> 100000],
   [rgb |-> TRUE,  encoder |-> TRUE,  layer |-> 7, timeout |-> 255000, wanted |-> 1,       patience |-> 1]}

MCNumbers  == {255}
MCNewBytes == {4, 6, 25, 255}

MCInit ==
  /\ Init /\ BytesInit
  /\ \/ level = "records" /\ setup = CHOOSE s \in MCSetups : TRUE
     \/ level = "bytes" /\ budget = CHOOSE b \in Budgets : TRUE

MCNext ==
  \/ level = "records" /\ Next /\ UNCHANGED <<bytesVars, level>>
  \/ level = "bytes" /\ BytesNext /\ UNCHANGED <<vars, level>>

\* Fairness is that of the link: it says nothing of a behaviour about bytes.
MCSpec == MCInit /\ [][MCNext]_<<vars, bytesVars, level>> /\ Fairness
=============================================================================
