---------------------------- MODULE MCHostServer ----------------------------
(***************************************************************************)
(* Instances of HostServer for TLC: a host, one or two client wrappers,    *)
(* and a handful of cached statuses and recovery snapshots.                *)
(***************************************************************************)
EXTENDS HostServer

CONSTANTS h, w1, w2, s1, s2

MCTask(slot, state, session) ==
  [slot |-> slot, state |-> state, conn |-> "connected", unread |-> FALSE,
   session |-> session]

\* What a promoted wrapper may hold: its own task and a waiting neighbour that
\* has the selection, or its own task alone with no selection left.
MCCaches ==
  {[tasks |-> [w \in Wrappers |->
                 CASE w = h  -> MCTask(1, "executing", None)
                   [] w = w1 -> MCTask(2, "waiting", None)
                   [] OTHER  -> None],
    selected |-> w1],
   [tasks |-> [w \in Wrappers |-> IF w = h THEN MCTask(2, "idle", None) ELSE None],
    selected |-> None]}

\* Limits that all three wrappers meet, and limits that two of them exceed.
MCLimits == {[tasks |-> 3, streams |-> 2], [tasks |-> 2, streams |-> 1]}

MCRecoveries ==
  {[state |-> "waiting", unread |-> FALSE, selected |-> TRUE, session |-> None]}

\* With sessions: the neighbour's session is known to the promoted host, or is
\* the host's own, filed under the one and still shown by the other.
MCSessionCaches ==
  {[tasks |-> [w \in Wrappers |->
                 CASE w = h  -> MCTask(1, "executing", s1)
                   [] w = w1 -> MCTask(2, "waiting", session)
                   [] OTHER  -> None],
    selected |-> h] : session \in {s1, s2}}

MCSessionLimits == {[tasks |-> 3, streams |-> 2]}

MCSessionRecoveries ==
  {[state |-> "executing", unread |-> FALSE, selected |-> FALSE, session |-> s2]}
=============================================================================
