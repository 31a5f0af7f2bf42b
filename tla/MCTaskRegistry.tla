--------------------------- MODULE MCTaskRegistry ---------------------------
(***************************************************************************)
(* TaskRegistry for TLC: symmetry and cached snapshots.                    *)
(***************************************************************************)
EXTENDS TaskRegistry, TLC

WrapperSymmetry == Permutations(Wrappers)

\* A client that held the selection, its completion unread.
MCHeldSelection ==
  {[state |-> "complete", unread |-> TRUE, selected |-> TRUE, session |-> s] :
     s \in Sessions \cup {None}}

\* The same, and a client whose task was executing and not selected.
MCSnapshots ==
  MCHeldSelection
    \cup {[state |-> "executing", unread |-> FALSE, selected |-> FALSE, session |-> None]}
=============================================================================
