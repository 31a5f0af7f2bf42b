-------------------------------- MODULE Lease --------------------------------
(***************************************************************************)
(* What acquireRuntimeLease promises (src/src/runtime.ts): a singleton     *)
(* lease, held for the host's lifetime, that changes hands only by being   *)
(* given up or by its holder's death.                                      *)
(***************************************************************************)
CONSTANTS Procs, None

VARIABLES holder,  \* the process that has the lease, or None
          dead     \* processes that have ended

vars == <<holder, dead>>

Init == holder = None /\ dead = {}

Acquire(p) == holder = None /\ p \notin dead /\ holder' = p /\ UNCHANGED dead

Release(p) == holder = p /\ holder' = None /\ UNCHANGED dead

Die(p) == /\ p \notin dead
          /\ dead' = dead \cup {p}
          /\ holder' = IF holder = p THEN None ELSE holder

Next == \E p \in Procs : Acquire(p) \/ Release(p) \/ Die(p)

Spec == Init /\ [][Next]_vars
=============================================================================
