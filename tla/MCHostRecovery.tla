--------------------------- MODULE MCHostRecovery ---------------------------
(***************************************************************************)
(* Three wrappers and as many slots, and a few environments that each do   *)
(* something different to them.                                            *)
(***************************************************************************)
EXTENDS HostRecovery

MCWants == {AnySlot}

Nothing == [ends |-> 0, breaks |-> 0, events |-> 0, hardware |-> 0, answers |-> 0, slow |-> 0]

MCBudgets == {[Nothing EXCEPT !.ends = 2, !.answers = 1],
              [Nothing EXCEPT !.ends = 1, !.events = 1],
              [Nothing EXCEPT !.ends = 1, !.hardware = 1],
              [Nothing EXCEPT !.ends = 1, !.slow = 1],
              [Nothing EXCEPT !.events = 1, !.breaks = 1]}

\* A user who chooses twice, and a client whose stream breaks.
MCChoices == {[Nothing EXCEPT !.events = 2, !.breaks = 1]}

\* Wrappers differ in nothing but the moment they start: one order stands for
\* all of them.  Nothing obliges a process to start, so that the order cuts no
\* fair behaviour short.
Arrival == CHOOSE rank \in [Wrappers -> 1..Cardinality(Wrappers)] :
             \A v, w \in Wrappers : rank[v] = rank[w] => v = w

InOrderOfArrival ==
  \A v, w \in Wrappers : Arrival[v] < Arrival[w] /\ pc'[w] # "out" => pc'[v] # "out"
=============================================================================
