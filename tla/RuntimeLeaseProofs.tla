------------------------- MODULE RuntimeLeaseProofs -------------------------
(***************************************************************************)
(* Proofs about RuntimeLease: its type invariant, and on Linux, where a    *)
(* start id tells the living from the dead, mutual exclusion, serialized   *)
(* takeovers, the refinement of Lease, and that the descriptor of a        *)
(* serving host is never destroyed by those who remove stale ones.         *)
(***************************************************************************)
EXTENDS RuntimeLease, TLAPS

-----------------------------------------------------------------------------
(***************************************************************************)
(* What the ways of leaving a point do to p's call.                        *)
(***************************************************************************)
\* Nobody else's call changes.
Only(p) == call' \in [Procs -> Calls] /\ \A q \in Procs \ {p} : call'[q] = call[q]

\* p goes on with the same locals.
Kept(p) == /\ call'[p].job = call[p].job /\ call'[p].seen = call[p].seen
           /\ call'[p].guard = call[p].guard /\ call'[p].target = call[p].target

\* The types of a call's fields.
LEMMA FieldTypes ==
  ASSUME NEW c \in Calls
  PROVE  /\ c.at \in Points /\ c.job \in {"acquire", "release", "discover"}
         /\ c.attempt \in {0, 1} /\ c.seen \in Ids \cup {None} /\ c.aged \in BOOLEAN
         /\ c.guard \in Nat /\ c.target \in Ids \cup {None}
BY DEF Calls

\* A process between calls.
LEMMA IdleType == Idle \in Calls /\ Idle.at = "idle" /\ Idle.guard = 0
BY DEF Idle, Calls, Points

\* Another point, the same locals.
LEMMA GotoType ==
  ASSUME NEW c \in Calls, NEW point \in Points
  PROVE  [c EXCEPT !.at = point] \in Calls
BY DEF Calls

\* Going on in the same function.
LEMMA GotoEffect ==
  ASSUME call \in [Procs -> Calls], NEW p \in Procs, NEW point \in Points, Goto(p, point)
  PROVE  Only(p) /\ Kept(p) /\ call'[p].at = point
<1>1. Only(p)
  BY GotoType DEF Goto, Only
<1>2. call'[p] = [call[p] EXCEPT !.at = point] /\ call[p] \in Calls
  BY DEF Goto
<1> QED
  BY <1>1, <1>2 DEF Kept, Calls

\* Returning from the exported function.
LEMMA ReturnEffect ==
  ASSUME call \in [Procs -> Calls], NEW p \in Procs, Return(p)
  PROVE  Only(p) /\ call'[p] = Idle
BY IdleType DEF Return, Only

\* The second attempt, or giving up.
LEMMA NextAttemptEffect ==
  ASSUME call \in [Procs -> Calls], NEW p \in Procs, NextAttempt(p)
  PROVE  /\ Only(p) /\ call'[p].guard = 0
         /\ call'[p] = Idle \/ call'[p].at = "create"
<1>1. [Idle EXCEPT !.at = "create", !.attempt = 1] \in Calls
  BY DEF Idle, Calls, Points
<1>2. /\ [Idle EXCEPT !.at = "create", !.attempt = 1].guard = 0
      /\ [Idle EXCEPT !.at = "create", !.attempt = 1].at = "create"
  BY DEF Idle
<1> QED
  BY <1>1, <1>2, IdleType DEF NextAttempt, Only

\* removeRuntimeDescriptor returns to the function that called it.
LEMMA RemovedEffect ==
  ASSUME call \in [Procs -> Calls], NEW p \in Procs, Removed(p)
  PROVE  /\ Only(p)
         /\ \/ call[p].job # "discover" /\ call'[p].at \in {"start", "giveUp"}
            \/ call[p].job = "discover" /\ call'[p] = Idle
<1>1. call[p].job \in {"acquire", "release", "discover"}
  BY FieldTypes
<1>2. ASSUME NEW point \in Points, Resume(p, point)
      PROVE  Only(p) /\ call'[p].at = point
  <2>1. /\ [Idle EXCEPT !.at = point] \in Calls
        /\ [Idle EXCEPT !.at = point].at = point
    BY DEF Idle, Calls, Points
  <2> QED
    BY <1>2, <2>1 DEF Resume, Only
<1> QED
  BY <1>1, <1>2, ReturnEffect DEF Removed, Points

\* An active owner ends the acquisition, by way of the guard if there is one.
LEMMA OwnerActiveEffect ==
  ASSUME call \in [Procs -> Calls], NEW p \in Procs, OwnerActive(p)
  PROVE  /\ Only(p)
         /\ \/ ~HasGuard(p) /\ call'[p] = Idle
            \/ HasGuard(p) /\ Kept(p) /\ call'[p].at = "unguard"
<1>1. /\ [call[p] EXCEPT !.at = "unguard", !.attempt = 1] \in Calls
      /\ [call[p] EXCEPT !.at = "unguard", !.attempt = 1].at = "unguard"
  BY DEF Calls, Points
<1>2. CASE ~HasGuard(p)
  BY <1>2, ReturnEffect DEF OwnerActive
<1>3. CASE HasGuard(p)
  <2>1. call' = [call EXCEPT ![p] = [call[p] EXCEPT !.at = "unguard", !.attempt = 1]]
    BY <1>3 DEF OwnerActive
  <2>2. Only(p) /\ call'[p].at = "unguard"
    BY <1>1, <2>1 DEF Only
  <2>3. Kept(p)
    BY <2>1 DEF Kept, Calls
  <2> QED
    BY <1>3, <2>2, <2>3
<1> QED
  BY <1>2, <1>3

\* An inactive owner's lock is unlinked under a guard.
LEMMA OwnerInactiveEffect ==
  ASSUME call \in [Procs -> Calls], NEW p \in Procs, OwnerInactive(p)
  PROVE  /\ Only(p) /\ Kept(p)
         /\ \/ ~HasGuard(p) /\ call'[p].at = "guard"
            \/ HasGuard(p) /\ call'[p].at = "unlink"
BY GotoEffect DEF OwnerInactive, Points

-----------------------------------------------------------------------------
(***************************************************************************)
(* Types.  What is written to a guard or an orphan is a lock that was seen *)
(* and a descriptor that was moved, so their types rest on where the       *)
(* process is.                                                             *)
(***************************************************************************)
Sighted(p) ==
  /\ call[p].at \in {"check", "probeOwner", "guard", "observeAgain", "unlink"} =>
       call[p].seen \in Ids
  /\ call[p].at = "finish" => moved[p] \in Ids

TypeInv == TypeOK /\ \A p \in Procs : Sighted(p)

\* A step that only changes p's call, and where p's quarantine is concerned.
LEMMA SightedStep ==
  ASSUME TypeInv, NEW p \in Procs, Only(p), Sighted(p)',
         \A q \in Procs \ {p} : moved'[q] = moved[q]
  PROVE  \A q \in Procs : Sighted(q)'
BY DEF TypeInv, Sighted, Only

\* The steps that change more of p's call than its point.
LEMMA ObserveEffect ==
  ASSUME TypeOK, NEW p \in Procs,
         call' = [call EXCEPT ![p].at = "check", ![p].seen = lock, ![p].aged = lockAged]
  PROVE  /\ Only(p) /\ call'[p].at = "check" /\ call'[p].seen = lock
         /\ call'[p].guard = call[p].guard
<1> DEFINE c == [call[p] EXCEPT !.at = "check", !.seen = lock, !.aged = lockAged]
<1>1. /\ call \in [Procs -> Calls] /\ call[p] \in Calls
      /\ lock \in Ids \cup {None} /\ lockAged \in BOOLEAN
  BY DEF TypeOK
<1>2. /\ c \in Calls /\ c.at = "check" /\ c.seen = lock /\ c.guard = call[p].guard
  BY <1>1 DEF Calls, Points
<1>3. call' = [call EXCEPT ![p] = c]
  OBVIOUS
<1> QED
  BY <1>1, <1>2, <1>3 DEF Only

\* The lock is still the one that was seen.
LEMMA ObserveAgainEffect ==
  ASSUME TypeOK, NEW p \in Procs,
         call' = [call EXCEPT ![p].at = "check", ![p].aged = lockAged]
  PROVE  Only(p) /\ Kept(p) /\ call'[p].at = "check"
<1> DEFINE c == [call[p] EXCEPT !.at = "check", !.aged = lockAged]
<1>1. call \in [Procs -> Calls] /\ call[p] \in Calls /\ lockAged \in BOOLEAN
  BY DEF TypeOK
<1>2. /\ c \in Calls /\ c.at = "check" /\ c.job = call[p].job /\ c.seen = call[p].seen
      /\ c.guard = call[p].guard /\ c.target = call[p].target
  BY <1>1 DEF Calls, Points
<1> QED
  BY <1>1, <1>2 DEF Only, Kept

\* The next guard number.
LEMMA NextGuardEffect ==
  ASSUME TypeOK, NEW p \in Procs, call' = [call EXCEPT ![p].guard = @ + 1]
  PROVE  /\ Only(p) /\ call'[p].at = call[p].at /\ call'[p].seen = call[p].seen
         /\ call'[p].job = call[p].job /\ call'[p].guard = call[p].guard + 1
<1> DEFINE c == [call[p] EXCEPT !.guard = call[p].guard + 1]
<1>1. call \in [Procs -> Calls] /\ call[p] \in Calls
  BY DEF TypeOK
<1>2. /\ c \in Calls /\ c.at = call[p].at /\ c.job = call[p].job /\ c.seen = call[p].seen
      /\ c.guard = call[p].guard + 1
  BY <1>1 DEF Calls
<1> QED
  BY <1>1, <1>2 DEF Only

\* The previous descriptor, if there is one, is probed.
LEMMA PreviousEffect ==
  ASSUME TypeOK, NEW p \in Procs, Previous(p)
  PROVE  Only(p) /\ call'[p].at \in {"start", "probe"} /\ call'[p].job = "acquire"
<1> DEFINE c == [Idle EXCEPT !.at = IF desc = None THEN "start" ELSE "probe", !.target = desc]
<1>1. call \in [Procs -> Calls] /\ desc \in Ids \cup {None}
  BY DEF TypeOK
<1>2. c \in Calls /\ c.at \in {"start", "probe"} /\ c.job = "acquire"
  BY <1>1 DEF Idle, Calls, Points
<1> QED
  BY <1>1, <1>2 DEF Previous, Only

\* A lookup.
LEMMA DiscoverEffect ==
  ASSUME TypeOK, NEW p \in Procs, Discover(p)
  PROVE  Only(p) /\ call'[p].at = "probe" /\ call'[p].job = "discover"
<1> DEFINE c == [Idle EXCEPT !.at = "probe", !.job = "discover", !.target = desc]
<1>1. call \in [Procs -> Calls] /\ desc \in Ids \cup {None}
  BY DEF TypeOK
<1>2. c \in Calls /\ c.at = "probe" /\ c.job = "discover"
  BY <1>1 DEF Idle, Calls, Points
<1> QED
  BY <1>1, <1>2 DEF Discover, Only

\* The release of a published lease.
LEMMA CloseEffect ==
  ASSUME TypeOK, NEW p \in Procs, Close(p)
  PROVE  Only(p) /\ call'[p].at = "read" /\ call'[p].job = "release"
<1> DEFINE c == [call[p] EXCEPT !.at = "read", !.job = "release", !.target = Own(p)]
<1>1. call \in [Procs -> Calls] /\ call[p] \in Calls /\ Own(p) \in Ids
  BY DEF Own, Ids, TypeOK
<1>2. c \in Calls /\ c.at = "read" /\ c.job = "release"
  BY <1>1 DEF Calls, Points
<1> QED
  BY <1>1, <1>2 DEF Close, Only

\* The initial state.
LEMMA TypeInit == Init => TypeInv
<1> SUFFICES ASSUME Init PROVE TypeInv
  OBVIOUS
<1>1. TypeOK
  BY IdleType DEF Init, TypeOK
<1>2. \A p \in Procs : call[p].at = "idle"
  BY IdleType DEF Init
<1> QED
  BY <1>1, <1>2 DEF TypeInv, Sighted

\* Every step leaves every variable in its type.
LEMMA TypeStep == ASSUME TypeInv, [Next]_vars PROVE TypeInv'
<1> USE DEF files
<1>1. CASE UNCHANGED vars
  BY <1>1 DEF vars, TypeInv, TypeOK, Sighted
<1>2. CASE TimePasses
  <2>1. ASSUME NEW g \in Guards PROVE [g EXCEPT !.aged = TRUE] \in Guards
    BY DEF Guards
  <2>2. guards' \subseteq Guards
    BY <1>2, <2>1 DEF TimePasses, TypeInv, TypeOK
  <2> QED
    BY <1>2, <2>2 DEF TimePasses, TypeInv, TypeOK, Sighted
<1> USE DEF Points
<1>3. ASSUME NEW p \in Procs, UNCHANGED moved, Only(p),
             call'[p].at \notin {"check", "probeOwner", "guard", "observeAgain", "unlink",
                                 "finish"}
      PROVE  call' \in [Procs -> Calls] /\ \A q \in Procs : Sighted(q)'
  BY <1>3, SightedStep DEF Sighted, TypeInv, TypeOK, Only
<1>4. ASSUME NEW p \in Procs, UNCHANGED moved, Only(p), call[p].seen \in Ids,
             call'[p].seen = call[p].seen, call'[p].at # "finish"
      PROVE  call' \in [Procs -> Calls] /\ \A q \in Procs : Sighted(q)'
  BY <1>4, SightedStep DEF Sighted, TypeInv, TypeOK, Only
<1>5. call \in [Procs -> Calls]
  BY DEF TypeInv, TypeOK
<1>6. ASSUME NEW p \in Procs, CreateLock(p) PROVE TypeInv'
  <2>1. Only(p) /\ call'[p].at \in {"previous", "observe"}
    BY <1>5, <1>6, GotoEffect DEF CreateLock
  <2>2. call' \in [Procs -> Calls] /\ \A q \in Procs : Sighted(q)'
    BY <1>3, <1>6, <2>1 DEF CreateLock
  <2>3. made[p] + 1 \in Nat /\ <<p, made[p] + 1>> \in Ids
    BY DEF TypeInv, TypeOK, Ids
  <2>4. lock' \in Ids \cup {None} /\ made' \in [Procs -> Nat] /\ lockAged' \in BOOLEAN
    BY <1>6, <2>3 DEF CreateLock, TypeInv, TypeOK
  <2> QED
    BY <1>6, <2>2, <2>4 DEF CreateLock, TypeInv, TypeOK
<1>7. ASSUME NEW p \in Procs, Observe(p) PROVE TypeInv'
  <2>1. CASE lock = None /\ NextAttempt(p)
    <3>1. Only(p) /\ call'[p].at \in {"idle", "create"}
      BY <1>5, <2>1, NextAttemptEffect, IdleType
    <3>2. call' \in [Procs -> Calls] /\ \A q \in Procs : Sighted(q)'
      BY <1>3, <1>7, <3>1 DEF Observe
    <3> QED
      BY <1>7, <3>2 DEF Observe, TypeInv, TypeOK
  <2>2. CASE /\ lock # None
             /\ call' = [call EXCEPT ![p].at = "check", ![p].seen = lock, ![p].aged = lockAged]
    <3>1. Only(p) /\ call'[p].at = "check" /\ call'[p].seen = lock
      BY <2>2, ObserveEffect DEF TypeInv
    <3>2. Sighted(p)'
      BY <2>2, <3>1 DEF Sighted, TypeInv, TypeOK
    <3>3. \A q \in Procs : Sighted(q)'
      BY <1>7, <3>1, <3>2, SightedStep DEF Observe
    <3> QED
      BY <1>7, <3>1, <3>3 DEF Observe, TypeInv, TypeOK, Only
  <2> QED
    BY <1>7, <2>1, <2>2 DEF Observe
<1>8. ASSUME NEW p \in Procs, OwnerActive(p) \/ OwnerInactive(p), UNCHANGED moved,
             call[p].seen \in Ids
      PROVE  call' \in [Procs -> Calls] /\ \A q \in Procs : Sighted(q)'
  BY <1>3, <1>4, <1>5, <1>8, OwnerActiveEffect, OwnerInactiveEffect, IdleType DEF Kept
<1>9. ASSUME NEW p \in Procs, CheckOwner(p) PROVE TypeInv'
  <2>1. call[p].seen \in Ids
    BY <1>9 DEF CheckOwner, At, TypeInv, Sighted
  <2>2. Goto(p, "probeOwner") => call' \in [Procs -> Calls] /\ \A q \in Procs : Sighted(q)'
    BY <1>4, <1>5, <1>9, <2>1, GotoEffect DEF CheckOwner, Kept
  <2>3. call' \in [Procs -> Calls] /\ \A q \in Procs : Sighted(q)'
    BY <1>8, <1>9, <2>1, <2>2 DEF CheckOwner
  <2> QED
    BY <1>9, <2>3 DEF CheckOwner, TypeInv, TypeOK
<1>10. ASSUME NEW p \in Procs, ProbeOwner(p) PROVE TypeInv'
  <2>1. call[p].seen \in Ids
    BY <1>10 DEF ProbeOwner, At, TypeInv, Sighted
  <2>2. call' \in [Procs -> Calls] /\ \A q \in Procs : Sighted(q)'
    BY <1>8, <1>10, <2>1 DEF ProbeOwner
  <2> QED
    BY <1>10, <2>2 DEF ProbeOwner, TypeInv, TypeOK
<1>11. ASSUME NEW p \in Procs, CreateGuard(p) PROVE TypeInv'
  <2>1. call[p].seen \in Ids
    BY <1>11 DEF CreateGuard, At, TypeInv, Sighted
  <2>2. NewGuard(p) \in Guards
    BY <1>5, <2>1 DEF NewGuard, Guards, Calls
  <2>3. guards' \subseteq Guards
    BY <1>11, <2>2 DEF CreateGuard, TypeInv, TypeOK
  <2>4. ASSUME call' = [call EXCEPT ![p].guard = @ + 1]
        PROVE  call' \in [Procs -> Calls] /\ \A q \in Procs : Sighted(q)'
    BY <1>4, <1>11, <2>1, <2>4, NextGuardEffect DEF CreateGuard, At, TypeInv
  <2>5. Goto(p, "observeAgain") => call' \in [Procs -> Calls] /\ \A q \in Procs : Sighted(q)'
    BY <1>4, <1>5, <1>11, <2>1, GotoEffect DEF CreateGuard, Kept
  <2>6. Return(p) => call' \in [Procs -> Calls] /\ \A q \in Procs : Sighted(q)'
    BY <1>3, <1>5, <1>11, ReturnEffect, IdleType DEF CreateGuard
  <2>7. call' \in [Procs -> Calls] /\ \A q \in Procs : Sighted(q)'
    BY <1>11, <2>4, <2>5, <2>6 DEF CreateGuard
  <2> QED
    BY <1>11, <2>3, <2>7 DEF CreateGuard, TypeInv, TypeOK
<1>12. ASSUME NEW p \in Procs, ObserveAgain(p) PROVE TypeInv'
  <2>1. call[p].seen \in Ids
    BY <1>12 DEF ObserveAgain, At, TypeInv, Sighted
  <2>2. Goto(p, "unguard") => call' \in [Procs -> Calls] /\ \A q \in Procs : Sighted(q)'
    BY <1>4, <1>5, <1>12, <2>1, GotoEffect DEF ObserveAgain, Kept
  <2>3. ASSUME call' = [call EXCEPT ![p].at = "check", ![p].aged = lockAged]
        PROVE  call' \in [Procs -> Calls] /\ \A q \in Procs : Sighted(q)'
    BY <1>4, <1>12, <2>1, <2>3, ObserveAgainEffect DEF ObserveAgain, Kept, TypeInv
  <2>4. call' \in [Procs -> Calls] /\ \A q \in Procs : Sighted(q)'
    BY <1>12, <2>2, <2>3 DEF ObserveAgain
  <2> QED
    BY <1>12, <2>4 DEF ObserveAgain, TypeInv, TypeOK
<1>13. ASSUME NEW p \in Procs, UnlinkLock(p) PROVE TypeInv'
  <2>1. call' \in [Procs -> Calls] /\ \A q \in Procs : Sighted(q)'
    BY <1>3, <1>5, <1>13, GotoEffect DEF UnlinkLock
  <2> QED
    BY <1>13, <2>1 DEF UnlinkLock, TypeInv, TypeOK
<1>14. ASSUME NEW p \in Procs, Unguard(p) PROVE TypeInv'
  <2>1. call' \in [Procs -> Calls] /\ \A q \in Procs : Sighted(q)'
    BY <1>3, <1>5, <1>14, NextAttemptEffect, IdleType DEF Unguard
  <2> QED
    BY <1>14, <2>1 DEF Unguard, TypeInv, TypeOK
<1>15. ASSUME NEW p \in Procs, Previous(p) PROVE TypeInv'
  <2>1. call' \in [Procs -> Calls] /\ \A q \in Procs : Sighted(q)'
    BY <1>3, <1>15, PreviousEffect DEF Previous, TypeInv
  <2> QED
    BY <1>15, <2>1 DEF Previous, TypeInv, TypeOK
<1>16. ASSUME NEW p \in Procs, Discover(p) PROVE TypeInv'
  <2>1. call' \in [Procs -> Calls] /\ \A q \in Procs : Sighted(q)'
    BY <1>3, <1>16, DiscoverEffect DEF Discover, TypeInv
  <2> QED
    BY <1>16, <2>1 DEF Discover, TypeInv, TypeOK
<1>17. ASSUME NEW p \in Procs, Probe(p) PROVE TypeInv'
  <2>1. Only(p) /\ call'[p].at \in {"read", "giveUp", "idle"}
    BY <1>5, <1>17, GotoEffect, ReturnEffect, IdleType DEF Probe
  <2>2. call' \in [Procs -> Calls] /\ \A q \in Procs : Sighted(q)'
    BY <1>3, <1>17, <2>1 DEF Probe
  <2> QED
    BY <1>17, <2>2 DEF Probe, TypeInv, TypeOK
<1>18. ASSUME NEW p \in Procs, ReadDescriptor(p) PROVE TypeInv'
  <2>1. Only(p) /\ call'[p].at \in {"rename", "start", "giveUp", "idle"}
    BY <1>5, <1>18, GotoEffect, RemovedEffect, IdleType DEF ReadDescriptor
  <2>2. call' \in [Procs -> Calls] /\ \A q \in Procs : Sighted(q)'
    BY <1>3, <1>18, <2>1 DEF ReadDescriptor
  <2> QED
    BY <1>18, <2>2 DEF ReadDescriptor, TypeInv, TypeOK
<1>19. ASSUME NEW p \in Procs, Quarantine(p) PROVE TypeInv'
  <2>1. Only(p) /\ call'[p].at \in {"finish", "start", "giveUp", "idle"}
        /\ (call'[p].at = "finish" => desc # None)
    BY <1>5, <1>19, GotoEffect, RemovedEffect, IdleType DEF Quarantine
  <2>2. desc \in Ids \cup {None} /\ moved \in [Procs -> Ids \cup {None}]
    BY DEF TypeInv, TypeOK
  <2>3. moved' \in [Procs -> Ids \cup {None}] /\ moved'[p] = desc
        /\ \A q \in Procs \ {p} : moved'[q] = moved[q]
    BY <1>19, <2>2 DEF Quarantine
  <2>4. Sighted(p)'
    BY <2>1, <2>2, <2>3 DEF Sighted
  <2>5. \A q \in Procs : Sighted(q)'
    BY <2>1, <2>3, <2>4, SightedStep
  <2> QED
    BY <1>19, <2>1, <2>3, <2>5 DEF Quarantine, TypeInv, TypeOK, Only
<1>20. ASSUME NEW p \in Procs, FinishRemoval(p) PROVE TypeInv'
  <2>1. Only(p) /\ call'[p].at \in {"start", "giveUp", "idle"}
    BY <1>5, <1>20, RemovedEffect, IdleType DEF FinishRemoval
  <2>2. moved[p] \in Ids
    BY <1>20 DEF FinishRemoval, At, TypeInv, Sighted
  <2>3. moved' \in [Procs -> Ids \cup {None}] /\ \A q \in Procs \ {p} : moved'[q] = moved[q]
    BY <1>20 DEF FinishRemoval, TypeInv, TypeOK
  <2>4. Sighted(p)'
    BY <2>1 DEF Sighted
  <2>5. \A q \in Procs : Sighted(q)'
    BY <2>1, <2>3, <2>4, SightedStep
  <2>6. desc' \in Ids \cup {None} /\ orphans' \subseteq [id : Ids, behind : Ids]
    BY <1>20, <2>2 DEF FinishRemoval, RestoreQuarantined, TypeInv, TypeOK
  <2> QED
    BY <1>20, <2>1, <2>3, <2>5, <2>6 DEF FinishRemoval, TypeInv, TypeOK, Only
<1>21. ASSUME NEW p \in Procs, Publish(p) PROVE TypeInv'
  <2>1. call' \in [Procs -> Calls] /\ \A q \in Procs : Sighted(q)'
    BY <1>3, <1>5, <1>21, GotoEffect DEF Publish
  <2>2. Own(p) \in Ids
    BY DEF Own, Ids, TypeInv, TypeOK
  <2> QED
    BY <1>21, <2>1, <2>2 DEF Publish, TypeInv, TypeOK
<1>22. ASSUME NEW p \in Procs, StartFails(p) \/ Acquire(p) PROVE TypeInv'
  <2>1. call' \in [Procs -> Calls] /\ \A q \in Procs : Sighted(q)'
    BY <1>3, <1>5, <1>22, GotoEffect DEF StartFails, Acquire
  <2> QED
    BY <1>22, <2>1 DEF StartFails, Acquire, TypeInv, TypeOK
<1>23. ASSUME NEW p \in Procs, Close(p) PROVE TypeInv'
  <2>1. call' \in [Procs -> Calls] /\ \A q \in Procs : Sighted(q)'
    BY <1>3, <1>23, CloseEffect DEF Close, TypeInv
  <2> QED
    BY <1>23, <2>1 DEF Close, TypeInv, TypeOK
<1>24. ASSUME NEW p \in Procs, ReadOwnLock(p) \/ UnlinkOwnLock(p) PROVE TypeInv'
  <2>1. Only(p) /\ call'[p].at \in {"unlinkOwn", "idle"} /\ UNCHANGED moved
    BY <1>5, <1>24, GotoEffect, ReturnEffect, IdleType DEF ReadOwnLock, UnlinkOwnLock
  <2>2. call' \in [Procs -> Calls] /\ \A q \in Procs : Sighted(q)'
    BY <1>3, <2>1
  <2> QED
    BY <1>24, <2>2 DEF ReadOwnLock, UnlinkOwnLock, TypeInv, TypeOK
<1>25. ASSUME NEW p \in Procs, Die(p) PROVE TypeInv'
  <2>1. call' \in [Procs -> Calls] /\ \A q \in Procs : Sighted(q)'
    BY <1>3, <1>5, <1>25, ReturnEffect, IdleType DEF Die
  <2>2. life' \in [Procs -> {"alive", "dead", "reused"}]
    BY <1>25 DEF Die, TypeInv, TypeOK
  <2> QED
    BY <1>25, <2>1, <2>2 DEF Die, TypeInv, TypeOK
<1> QED
  BY <1>1, <1>2, <1>6, <1>7, <1>9, <1>10, <1>11, <1>12, <1>13, <1>14, <1>15, <1>16, <1>17,
     <1>18, <1>19, <1>20, <1>21, <1>22, <1>23, <1>24, <1>25 DEF Next, Step

\* Types hold of every reachable state, and what is seen and moved is there.
LEMMA TypeInvariant == Spec => []TypeInv
BY TypeInit, TypeStep, PTL DEF Spec

\* Every variable keeps its type, for any number of processes and any limits.
THEOREM TypeCorrect == Spec => []TypeOK
<1>1. TypeInv => TypeOK
  BY DEF TypeInv
<1> QED
  BY <1>1, TypeInvariant, PTL

-----------------------------------------------------------------------------
(***************************************************************************)
(* Mutual exclusion on Linux.  The inductive invariant says of every       *)
(* process what its point in the code entitles it to believe.              *)
(***************************************************************************)
\* A process is alive or dead, and a start id tells.
Settled(p) ==
  /\ life[p] \in {"alive", "dead"}
  /\ life[p] = "dead" => call[p] = Idle
  /\ call[p].at = "idle" => call[p] = Idle
  /\ call[p].at # "probeOwner"

\* Who has the lease owns the lock.
Owning(p) == Leased(p) => lock = Own(p)

\* A living process has guards only on its way through a reclaim, and of the
\* lock that it has seen.
Guarding(p) ==
  /\ call[p].at \in {"observeAgain", "unlink"} => HasGuard(p)
  /\ \A g \in guards : g.owner = p /\ life[p] = "alive" =>
       /\ call[p].at \in {"observeAgain", "check", "unlink", "unguard"}
       /\ call[p].seen = g.of

\* A guard whose owner has died stays for ever.
DeadGuard(id, number) ==
  \E g \in guards : g.of = id /\ g.number = number /\ life[g.owner] = "dead"

\* Guards are tried from 0, and one is passed over only if it is dead.
Counting(p) ==
  /\ call[p].at \in {"create", "observe"} => call[p].guard = 0
  /\ call[p].at = "check" /\ ~HasGuard(p) => call[p].guard = 0
  /\ call[p].at = "guard" =>
       \A n \in Nat : n < call[p].guard => DeadGuard(call[p].seen, n)

\* A reclaimer has found the owner dead, and under its guard the lock is that
\* dead owner's until it unlinks it.
Taking(p) ==
  /\ call[p].at \in {"guard", "observeAgain", "unlink"} => life[call[p].seen[1]] = "dead"
  /\ call[p].at = "check" /\ HasGuard(p) => life[call[p].seen[1]] = "dead"
  /\ call[p].at = "unlink" => lock = call[p].seen
  /\ call[p].at = "check" /\ HasGuard(p) => lock = call[p].seen

ProcInv(p) == Settled(p) /\ Owning(p) /\ Guarding(p) /\ Counting(p) /\ Taking(p)

\* A number is made once, and only over dead ones, so one living process is past
\* the guards of a lock.
GuardInv ==
  /\ \A g, h \in guards : g.of = h.of /\ g.number = h.number => g.owner = h.owner
  /\ \A g \in guards : \A n \in Nat : n < g.number => DeadGuard(g.of, n)
  /\ \A g, h \in guards :
       g.of = h.of /\ life[g.owner] = "alive" /\ life[h.owner] = "alive" => g.owner = h.owner

LinuxInv == TypeInv /\ (startIds => GuardInv /\ \A p \in Procs : ProcInv(p))

\* Initially there are no files and everybody is idle.
LEMMA LinuxInit == Init => LinuxInv
<1> SUFFICES ASSUME Init PROVE LinuxInv
  OBVIOUS
<1>1. guards = {} /\ (\A p \in Procs : life[p] = "alive" /\ call[p] = Idle)
  BY DEF Init
<1>2. GuardInv
  BY <1>1 DEF GuardInv
<1>3. ASSUME NEW p \in Procs PROVE ProcInv(p)
  BY <1>1, <1>3, IdleType DEF ProcInv, Settled, Owning, Leased, Guarding, Counting, Taking, HasGuard
<1> QED
  BY <1>2, <1>3, TypeInit DEF LinuxInv

\* Outside a reclaim a living process has no guard.
LEMMA NoGuard ==
  ASSUME NEW p \in Procs, ProcInv(p), life[p] = "alive",
         call[p].at \notin {"observeAgain", "check", "unlink", "unguard"}
  PROVE  ~HasGuard(p)
BY DEF ProcInv, Guarding, HasGuard

\* A step of p that leaves locks, guards and lives alone concerns p only.
LEMMA LocalStep ==
  ASSUME GuardInv, \A q \in Procs : ProcInv(q), NEW p \in Procs, Only(p), ProcInv(p)',
         UNCHANGED <<lock, guards, life, made>>
  PROVE  GuardInv' /\ \A q \in Procs : ProcInv(q)'
<1>1. GuardInv'
  BY DEF GuardInv, DeadGuard
<1>2. ASSUME NEW q \in Procs \ {p} PROVE ProcInv(q)'
  <2>1. call'[q] = call[q]
    BY DEF Only
  <2>2. Settled(q)'
    BY <2>1 DEF ProcInv, Settled
  <2>3. Owning(q)'
    BY <2>1 DEF ProcInv, Owning, Leased, Own
  <2>4. Guarding(q)'
    BY <2>1 DEF ProcInv, Guarding, HasGuard
  <2>5. Counting(q)'
    BY <2>1 DEF ProcInv, Counting, HasGuard, DeadGuard
  <2>6. Taking(q)'
    BY <2>1 DEF ProcInv, Taking, HasGuard
  <2> QED
    BY <2>2, <2>3, <2>4, <2>5, <2>6 DEF ProcInv
<1> QED
  BY <1>1, <1>2

\* p goes where it needs no guard and believes nothing new.
LEMMA PlainStep ==
  ASSUME GuardInv, \A q \in Procs : ProcInv(q), NEW p \in Procs, Only(p),
         UNCHANGED <<lock, guards, life, made>>, life[p] = "alive", ~HasGuard(p),
         call'[p].at \notin {"check", "probeOwner", "guard", "observeAgain", "unlink"},
         call'[p].at = "idle" => call'[p] = Idle,
         call'[p].at \in {"create", "observe"} => call'[p].guard = 0,
         Leased(p)' => Leased(p)
  PROVE  GuardInv' /\ \A q \in Procs : ProcInv(q)'
<1>1. Settled(p)'
  BY DEF ProcInv, Settled
<1>2. Owning(p)'
  BY DEF ProcInv, Owning, Own
<1>3. Guarding(p)'
  BY DEF Guarding, HasGuard
<1>4. Counting(p)' /\ Taking(p)'
  BY DEF Counting, Taking, HasGuard
<1> QED
  BY <1>1, <1>2, <1>3, <1>4, LocalStep DEF ProcInv

\* The steps that leave locks, guards and lives alone and believe nothing new.
Plain(p) ==
  \/ Acquire(p) \/ Previous(p) \/ Discover(p) \/ Probe(p) \/ ReadDescriptor(p)
  \/ Quarantine(p) \/ FinishRemoval(p) \/ Publish(p) \/ StartFails(p) \/ Close(p)
  \/ ReadOwnLock(p)

\* Where a plain step takes p's call.
Lands(p) ==
  /\ Only(p)
  /\ call'[p].at \notin {"check", "probeOwner", "guard", "observeAgain", "unlink", "observe"}
  /\ call'[p].at = "idle" => call'[p] = Idle
  /\ call'[p].at = "create" => call'[p].guard = 0
  /\ Leased(p)' => Leased(p)

\* A plain step goes where no guard is needed, and gains no lease.
LEMMA PlainLands ==
  ASSUME TypeOK, NEW p \in Procs, ProcInv(p), Plain(p)
  PROVE  Lands(p)
<1>1. call \in [Procs -> Calls]
  BY DEF TypeOK
<1> USE DEF Points
<1>2. CASE Acquire(p)
  <2>1. Only(p) /\ Kept(p) /\ call'[p].at = "create" /\ call[p].at = "idle"
    BY <1>1, <1>2, GotoEffect DEF Acquire, At
  <2>2. call[p].guard = 0
    BY <2>1, IdleType DEF ProcInv, Settled
  <2> QED
    BY <2>1, <2>2 DEF Kept, Leased, Lands
<1>3. CASE Previous(p)
  BY <1>3, PreviousEffect DEF Previous, At, Leased, Lands
<1>4. CASE Discover(p)
  BY <1>4, DiscoverEffect DEF Leased, Lands
<1>5. CASE Probe(p)
  <2>1. \/ call'[p].at = "read" /\ Kept(p) /\ Only(p)
        \/ call'[p].at = "giveUp" /\ call[p].job = "acquire" /\ Only(p)
        \/ call'[p] = Idle /\ Only(p)
    BY <1>1, <1>5, GotoEffect, ReturnEffect DEF Probe
  <2> QED
    BY <1>5, <2>1, IdleType DEF Probe, At, Kept, Leased, Lands
<1>6. CASE ReadDescriptor(p)
  <2>1. \/ call'[p].at = "rename" /\ Kept(p) /\ Only(p)
        \/ Removed(p)
    BY <1>1, <1>6, GotoEffect DEF ReadDescriptor
  <2> QED
    BY <1>1, <1>6, <2>1, RemovedEffect, IdleType DEF ReadDescriptor, At, Kept, Leased, Lands
<1>7. CASE Quarantine(p)
  <2>1. \/ call'[p].at = "finish" /\ Kept(p) /\ Only(p)
        \/ Removed(p)
    BY <1>1, <1>7, GotoEffect DEF Quarantine
  <2> QED
    BY <1>1, <1>7, <2>1, RemovedEffect, IdleType DEF Quarantine, At, Kept, Leased, Lands
<1>8. CASE FinishRemoval(p)
  BY <1>1, <1>8, RemovedEffect, IdleType DEF FinishRemoval, At, Leased, Lands
<1>9. CASE Publish(p) \/ StartFails(p)
  BY <1>1, <1>9, GotoEffect DEF Publish, StartFails, At, Kept, Leased, Lands
<1>10. CASE Close(p)
  BY <1>10, CloseEffect DEF Close, At, Leased, Lands
<1>11. CASE ReadOwnLock(p)
  BY <1>1, <1>11, GotoEffect, ReturnEffect, IdleType DEF ReadOwnLock, At, Kept, Leased, Lands
<1> QED
  BY <1>2, <1>3, <1>4, <1>5, <1>6, <1>7, <1>8, <1>9, <1>10, <1>11 DEF Plain

\* Plain steps keep the invariant.
LEMMA PlainPreserves ==
  ASSUME TypeOK, GuardInv, \A q \in Procs : ProcInv(q), NEW p \in Procs, Plain(p)
  PROVE  GuardInv' /\ \A q \in Procs : ProcInv(q)'
<1>1. UNCHANGED <<lock, guards, life, made>>
  BY DEF Plain, Acquire, Previous, Discover, Probe, ReadDescriptor, Quarantine, files,
         FinishRemoval, Publish, StartFails, Close, ReadOwnLock
<1>2. /\ life[p] = "alive"
      /\ call[p].at \in {"idle", "previous", "probe", "read", "rename", "finish", "start",
                         "serve", "giveUp"}
  BY DEF Plain, Acquire, Previous, Discover, Probe, ReadDescriptor, Quarantine,
         FinishRemoval, Publish, StartFails, Close, ReadOwnLock, At
<1>3. ~HasGuard(p)
  BY <1>2, NoGuard
<1> QED
  BY <1>1, <1>2, <1>3, PlainLands, PlainStep DEF Lands

\* Looking at the lock, up to its owner: guards and lives stay.
LEMMA LookingPreserves ==
  ASSUME TypeInv, startIds, GuardInv, \A q \in Procs : ProcInv(q), NEW p \in Procs,
         Observe(p) \/ CheckOwner(p) \/ ObserveAgain(p)
  PROVE  GuardInv' /\ \A q \in Procs : ProcInv(q)'
<1>1. call \in [Procs -> Calls] /\ TypeOK /\ UNCHANGED <<lock, guards, life, made>>
  BY DEF Observe, CheckOwner, ObserveAgain, files, TypeInv, TypeOK
<1>2. life[p] = "alive" /\ call[p].at \in {"observe", "check", "observeAgain"} /\ ProcInv(p)
  BY DEF Observe, CheckOwner, ObserveAgain, At
<1> USE DEF Points
<1>3. CASE Observe(p) /\ lock = None
  <2>1. /\ Only(p) /\ call'[p].guard = 0
        /\ call'[p] = Idle \/ call'[p].at = "create"
    BY <1>1, <1>3, NextAttemptEffect DEF Observe
  <2>2. ~HasGuard(p)
    BY <1>2, <1>3, NoGuard DEF Observe, At
  <2> QED
    BY <1>1, <1>2, <2>1, <2>2, IdleType, PlainStep DEF Leased
<1>4. CASE Observe(p) /\ lock # None
  <2>1. Only(p) /\ call'[p].at = "check" /\ call'[p].seen = lock /\ call'[p].guard = 0
    BY <1>1, <1>2, <1>4, ObserveEffect DEF Observe, At, ProcInv, Counting
  <2>2. ~HasGuard(p)
    BY <1>2, <1>4, NoGuard DEF Observe, At
  <2>3. ProcInv(p)'
    BY <1>1, <1>2, <2>1, <2>2
       DEF ProcInv, Settled, Owning, Leased, Guarding, Counting, Taking, HasGuard
  <2> QED
    BY <1>1, <2>1, <2>3, LocalStep
<1>5. CASE CheckOwner(p)
  <2>1. call[p].seen \in Ids /\ call[p].seen[1] \in Procs /\ call[p].at = "check"
    BY <1>5 DEF CheckOwner, At, TypeInv, Sighted, Ids
  <2>2. life[call[p].seen[1]] \in {"alive", "dead"}
    BY <2>1 DEF ProcInv, Settled
  <2>3. \/ life[call[p].seen[1]] = "dead" /\ OwnerInactive(p)
        \/ life[call[p].seen[1]] = "alive" /\ OwnerActive(p)
    BY <1>5, <2>2 DEF CheckOwner, Gone, Verified
  <2>4. CASE life[call[p].seen[1]] = "alive" /\ OwnerActive(p)
    <3>1. ~HasGuard(p)
      BY <1>2, <2>1, <2>4 DEF ProcInv, Taking
    <3>2. Only(p) /\ call'[p] = Idle
      BY <1>1, <2>4, <3>1, OwnerActiveEffect
    <3> QED
      BY <1>1, <1>2, <3>1, <3>2, IdleType, PlainStep DEF Leased
  <2>5. CASE life[call[p].seen[1]] = "dead" /\ OwnerInactive(p)
    <3>1. /\ Only(p) /\ Kept(p)
          /\ \/ ~HasGuard(p) /\ call'[p].at = "guard"
             \/ HasGuard(p) /\ call'[p].at = "unlink"
      BY <1>1, <2>5, OwnerInactiveEffect
    <3>2. ~HasGuard(p) => call[p].guard = 0
      BY <1>2, <2>1 DEF ProcInv, Counting
    <3>3. HasGuard(p) => lock = call[p].seen
      BY <1>2, <2>1 DEF ProcInv, Taking
    <3>4. Settled(p)' /\ Owning(p)' /\ Taking(p)'
      BY <1>1, <1>2, <2>5, <3>1, <3>3 DEF Settled, Owning, Leased, Taking, Kept
    <3>5. Guarding(p)'
      BY <1>1, <1>2, <3>1 DEF ProcInv, Guarding, HasGuard, Kept
    <3>6. Counting(p)'
      BY <3>1, <3>2 DEF Counting, Kept
    <3> QED
      BY <1>1, <3>1, <3>4, <3>5, <3>6, LocalStep DEF ProcInv
  <2> QED
    BY <2>3, <2>4, <2>5
<1>6. CASE ObserveAgain(p)
  <2>1. /\ call[p].at = "observeAgain" /\ HasGuard(p) /\ life[call[p].seen[1]] = "dead"
        /\ \A g \in guards : g.owner = p => g.of = call[p].seen
    BY <1>2, <1>6 DEF ObserveAgain, At, ProcInv, Guarding, Taking
  <2>2. /\ Only(p) /\ Kept(p)
        /\ \/ lock = call[p].seen /\ call'[p].at = "check"
           \/ call'[p].at = "unguard"
    BY <1>1, <1>6, GotoEffect, ObserveAgainEffect DEF ObserveAgain
  <2>3. Settled(p)' /\ Owning(p)' /\ Taking(p)'
    BY <1>1, <1>2, <2>1, <2>2 DEF Settled, Owning, Leased, Taking, Kept
  <2>4. Guarding(p)' /\ Counting(p)'
    BY <1>1, <1>2, <2>1, <2>2 DEF Guarding, Counting, HasGuard, Kept
  <2> QED
    BY <1>1, <2>2, <2>3, <2>4, LocalStep DEF ProcInv
<1> QED
  BY <1>3, <1>4, <1>5, <1>6

\* A guard is made above dead ones only, so nobody else is at work on that lock.
LEMMA GuardPreserves ==
  ASSUME TypeInv, startIds, GuardInv, \A q \in Procs : ProcInv(q), NEW p \in Procs,
         CreateGuard(p)
  PROVE  GuardInv' /\ \A q \in Procs : ProcInv(q)'
<1>1. call \in [Procs -> Calls] /\ TypeOK /\ UNCHANGED <<lock, life, made>>
  BY DEF CreateGuard, TypeInv, TypeOK
<1>2. life[p] = "alive" /\ call[p].at = "guard" /\ ProcInv(p) /\ call[p].guard \in Nat
  BY <1>1, FieldTypes DEF CreateGuard, At
<1>3. ~HasGuard(p)
  BY <1>2, NoGuard
<1>4. /\ life[call[p].seen[1]] = "dead"
      /\ \A n \in Nat : n < call[p].guard => DeadGuard(call[p].seen, n)
  BY <1>2 DEF ProcInv, Taking, Counting
<1> USE DEF Points
<1>5. CASE Return(p) /\ UNCHANGED guards
  <2>1. Only(p) /\ call'[p] = Idle
    BY <1>1, <1>5, ReturnEffect
  <2> QED
    BY <1>1, <1>2, <1>3, <1>5, <2>1, IdleType, PlainStep DEF Leased
<1>6. CASE /\ UNCHANGED guards
           /\ call' = [call EXCEPT ![p].guard = @ + 1]
           /\ \E g \in GuardHere(p) : ~GuardBusy(p, g)
  <2>1. /\ Only(p) /\ call'[p].at = "guard" /\ call'[p].seen = call[p].seen
        /\ call'[p].guard = call[p].guard + 1
    BY <1>1, <1>2, <1>6, NextGuardEffect
  <2>2. PICK g \in GuardHere(p) : ~GuardBusy(p, g)
    BY <1>6
  <2>3. g \in guards /\ g.owner \in Procs /\ g.of = call[p].seen /\ g.number = call[p].guard
    BY <1>1, <2>2 DEF GuardHere, TypeOK, Guards
  <2>4. life[g.owner] = "dead"
    BY <2>2, <2>3 DEF GuardBusy, Verified, Gone, ProcInv, Settled
  <2>5. DeadGuard(call[p].seen, call[p].guard)
    BY <2>3, <2>4 DEF DeadGuard
  <2>6. \A n \in Nat : n < call'[p].guard => DeadGuard(call[p].seen, n)
    BY <1>2, <1>4, <2>1, <2>5
  <2>7. Counting(p)'
    BY <1>1, <1>6, <2>1, <2>6 DEF Counting, DeadGuard
  <2>8. Settled(p)' /\ Owning(p)' /\ Guarding(p)' /\ Taking(p)'
    BY <1>1, <1>2, <1>3, <1>4, <1>6, <2>1
       DEF Settled, Owning, Leased, Guarding, Taking, HasGuard
  <2> QED
    BY <1>1, <1>6, <2>1, <2>7, <2>8, LocalStep DEF ProcInv
<1>7. CASE GuardHere(p) = {} /\ guards' = guards \cup {NewGuard(p)} /\ Goto(p, "observeAgain")
  <2>1. Only(p) /\ Kept(p) /\ call'[p].at = "observeAgain"
    BY <1>1, <1>7, GotoEffect
  <2> DEFINE new == NewGuard(p)
  <2>2. /\ new.of = call[p].seen /\ new.number = call[p].guard /\ new.owner = p
        /\ new \in guards' /\ guards \subseteq guards'
        /\ \A g \in guards' : g \in guards \/ g = new
    BY <1>7 DEF NewGuard
  <2>3. \A g \in guards : ~(g.of = new.of /\ g.number = new.number)
    BY <1>7, <2>2 DEF GuardHere
  <2>4. \A id, n : DeadGuard(id, n) => DeadGuard(id, n)'
    BY <1>1, <1>7 DEF DeadGuard
  <2>5. ASSUME NEW g \in guards, g.of = new.of, life[g.owner] = "alive" PROVE FALSE
    <3>1. g.number \in Nat /\ g.number # call[p].guard
      BY <1>1, <2>2, <2>3, <2>5 DEF TypeOK, Guards
    <3>2. CASE g.number < call[p].guard
      BY <1>4, <2>2, <2>5, <3>1, <3>2 DEF DeadGuard, GuardInv
    <3>3. CASE call[p].guard < g.number
      BY <1>2, <2>2, <2>3, <2>5, <3>3 DEF DeadGuard, GuardInv
    <3> QED
      BY <1>2, <3>1, <3>2, <3>3
  <2>6. GuardInv'
    <3>1. \A g, h \in guards' : g.of = h.of /\ g.number = h.number => g.owner = h.owner
      BY <2>2, <2>3 DEF GuardInv
    <3>2. \A g \in guards' : \A n \in Nat : n < g.number => DeadGuard(g.of, n)'
      BY <1>4, <2>2, <2>4 DEF GuardInv
    <3>3. \A g, h \in guards' :
            g.of = h.of /\ life[g.owner] = "alive" /\ life[h.owner] = "alive" =>
              g.owner = h.owner
      BY <2>2, <2>5 DEF GuardInv
    <3> QED
      BY <1>1, <3>1, <3>2, <3>3 DEF GuardInv
  <2>7. ProcInv(p)'
    <3>1. Settled(p)' /\ Owning(p)' /\ Counting(p)' /\ Taking(p)'
      BY <1>1, <1>2, <1>4, <2>1 DEF Settled, Owning, Leased, Counting, Taking, Kept
    <3>2. Guarding(p)'
      BY <1>3, <2>1, <2>2 DEF Guarding, HasGuard, Kept
    <3> QED
      BY <3>1, <3>2 DEF ProcInv
  <2>8. ASSUME NEW q \in Procs \ {p} PROVE ProcInv(q)'
    <3>1. call'[q] = call[q] /\ (HasGuard(q)' <=> HasGuard(q))
      BY <2>1, <2>2 DEF Only, HasGuard
    <3>2. Settled(q)' /\ Owning(q)'
      BY <1>1, <3>1 DEF ProcInv, Settled, Owning, Leased, Own
    <3>3. Counting(q)'
      BY <2>4, <3>1 DEF ProcInv, Counting
    <3>4. Taking(q)'
      BY <1>1, <3>1 DEF ProcInv, Taking
    <3>5. Guarding(q)'
      BY <1>1, <2>2, <3>1 DEF ProcInv, Guarding
    <3> QED
      BY <3>2, <3>3, <3>4, <3>5 DEF ProcInv
  <2> QED
    BY <2>6, <2>7, <2>8
<1> QED
  BY <1>5, <1>6, <1>7 DEF CreateGuard

\* Creating the lock, where there is none.
LEMMA LockPreserves ==
  ASSUME TypeInv, GuardInv, \A q \in Procs : ProcInv(q), NEW p \in Procs, CreateLock(p)
  PROVE  GuardInv' /\ \A q \in Procs : ProcInv(q)'
<1>1. /\ call \in [Procs -> Calls] /\ made \in [Procs -> Nat] /\ UNCHANGED <<guards, life>>
      /\ life[p] = "alive" /\ call[p].at = "create" /\ ProcInv(p)
  BY DEF CreateLock, At, TypeInv, TypeOK
<1>2. ~HasGuard(p)
  BY <1>1, NoGuard
<1> USE DEF Points
<1>3. CASE Goto(p, "observe") /\ UNCHANGED <<lock, lockAged, made>>
  <2>1. Only(p) /\ Kept(p) /\ call'[p].at = "observe"
    BY <1>1, <1>3, GotoEffect
  <2> QED
    BY <1>1, <1>2, <1>3, <2>1, PlainStep DEF ProcInv, Counting, Kept, Leased
<1>4. CASE /\ lock = None /\ lock' = <<p, made[p] + 1>> /\ made' = [made EXCEPT ![p] = @ + 1]
           /\ Goto(p, "previous")
  <2>1. Only(p) /\ Kept(p) /\ call'[p].at = "previous"
    BY <1>1, <1>4, GotoEffect
  <2>2. lock \notin Ids
    BY <1>4, NoneAssumption DEF Ids
  <2>3. GuardInv'
    BY <1>1 DEF GuardInv, DeadGuard
  <2>4. ProcInv(p)'
    <3>1. Settled(p)' /\ Counting(p)' /\ Taking(p)'
      BY <1>1, <2>1 DEF ProcInv, Settled, Counting, Taking
    <3>2. Owning(p)'
      BY <1>1, <1>4 DEF Owning, Own
    <3>3. Guarding(p)'
      BY <1>1, <1>2, <2>1 DEF Guarding, HasGuard
    <3> QED
      BY <3>1, <3>2, <3>3 DEF ProcInv
  <2>5. ASSUME NEW q \in Procs \ {p} PROVE ProcInv(q)'
    <3>1. call'[q] = call[q] /\ (HasGuard(q)' <=> HasGuard(q))
      BY <1>1, <2>1 DEF Only, HasGuard
    <3>2. ~Leased(q) /\ ~Leased(q)'
      <4>1. Own(q) \in Ids
        BY <1>1 DEF Own, Ids
      <4> QED
        BY <2>2, <3>1, <4>1 DEF ProcInv, Owning, Leased
    <3>3. Settled(q)' /\ Owning(q)'
      BY <1>1, <3>1, <3>2 DEF ProcInv, Settled, Owning
    <3>4. Guarding(q)' /\ Counting(q)'
      BY <1>1, <3>1 DEF ProcInv, Guarding, Counting, DeadGuard
    <3>5. call[q].at = "unlink" \/ (call[q].at = "check" /\ HasGuard(q)) => FALSE
      BY <2>2 DEF ProcInv, Taking, TypeInv, Sighted
    <3>6. Taking(q)'
      BY <1>1, <3>1, <3>5 DEF ProcInv, Taking
    <3> QED
      BY <3>3, <3>4, <3>6 DEF ProcInv
  <2> QED
    BY <2>3, <2>4, <2>5
<1> QED
  BY <1>3, <1>4 DEF CreateLock

\* The lock goes, and nobody relied on it.
LEMMA NoLockPreserves ==
  ASSUME TypeInv, GuardInv, \A q \in Procs : ProcInv(q), NEW p \in Procs, Only(p),
         UNCHANGED <<guards, life, made>>, ProcInv(p)',
         \A q \in Procs \ {p} : /\ ~Leased(q)
                                /\ call[q].at = "unlink" => FALSE
                                /\ call[q].at = "check" => ~HasGuard(q)
  PROVE  GuardInv' /\ \A q \in Procs : ProcInv(q)'
<1>1. GuardInv'
  BY DEF GuardInv, DeadGuard
<1>2. ASSUME NEW q \in Procs \ {p} PROVE ProcInv(q)'
  <2>1. call'[q] = call[q] /\ (HasGuard(q)' <=> HasGuard(q))
    BY DEF Only, HasGuard
  <2>2. Settled(q)' /\ Owning(q)'
    BY <2>1 DEF ProcInv, Settled, Owning, Leased
  <2>3. Guarding(q)' /\ Counting(q)'
    BY <2>1 DEF ProcInv, Guarding, Counting, DeadGuard
  <2>4. Taking(q)'
    BY <2>1 DEF ProcInv, Taking
  <2> QED
    BY <2>2, <2>3, <2>4 DEF ProcInv
<1> QED
  BY <1>1, <1>2

\* Who has the lease has it alone, and no reclaimer is about to unlink its lock.
LEMMA LeasedAlone ==
  ASSUME TypeInv, \A q \in Procs : ProcInv(q), NEW p \in Procs, life[p] = "alive", lock = Own(p)
  PROVE  \A q \in Procs \ {p} : /\ ~Leased(q)
                                /\ call[q].at = "unlink" => FALSE
                                /\ call[q].at = "check" => ~HasGuard(q)
<1> SUFFICES ASSUME NEW q \in Procs \ {p}
             PROVE  /\ ~Leased(q)
                    /\ call[q].at = "unlink" => FALSE
                    /\ call[q].at = "check" => ~HasGuard(q)
  OBVIOUS
<1>1. Own(q) # Own(p) /\ Own(p)[1] = p
  BY DEF Own
<1> QED
  BY <1>1 DEF ProcInv, Owning, Taking

\* A closing host unlinks its own lock.
LEMMA UnlinkOwnPreserves ==
  ASSUME TypeInv, GuardInv, \A q \in Procs : ProcInv(q), NEW p \in Procs, UnlinkOwnLock(p)
  PROVE  GuardInv' /\ \A q \in Procs : ProcInv(q)'
<1>1. /\ call \in [Procs -> Calls] /\ UNCHANGED <<guards, life, made>>
      /\ life[p] = "alive" /\ call[p].at = "unlinkOwn" /\ ProcInv(p)
  BY DEF UnlinkOwnLock, At, TypeInv, TypeOK
<1>2. ~HasGuard(p) /\ lock = Own(p)
  BY <1>1, NoGuard DEF ProcInv, Owning, Leased
<1>3. Only(p) /\ call'[p] = Idle
  BY <1>1, ReturnEffect DEF UnlinkOwnLock
<1>4. ProcInv(p)'
  BY <1>1, <1>2, <1>3, IdleType
     DEF ProcInv, Settled, Owning, Leased, Guarding, Counting, Taking, HasGuard
<1> QED
  BY <1>1, <1>2, <1>3, <1>4, LeasedAlone, NoLockPreserves

\* A reclaimer unlinks a dead owner's lock, and is alone in that.
LEMMA UnlinkPreserves ==
  ASSUME TypeInv, GuardInv, \A q \in Procs : ProcInv(q), NEW p \in Procs, UnlinkLock(p)
  PROVE  GuardInv' /\ \A q \in Procs : ProcInv(q)'
<1>1. /\ call \in [Procs -> Calls] /\ UNCHANGED <<guards, life, made>>
      /\ life[p] = "alive" /\ call[p].at = "unlink" /\ ProcInv(p) /\ call[p].seen \in Ids
  BY DEF UnlinkLock, At, TypeInv, TypeOK, Sighted
<1>2. lock = call[p].seen /\ life[lock[1]] = "dead" /\ HasGuard(p)
  BY <1>1 DEF ProcInv, Taking, Guarding
<1>3. Only(p) /\ Kept(p) /\ call'[p].at = "unguard"
  BY <1>1, GotoEffect DEF UnlinkLock, Points
<1>4. ProcInv(p)'
  <2>1. Settled(p)' /\ Owning(p)' /\ Counting(p)' /\ Taking(p)'
    BY <1>1, <1>3 DEF ProcInv, Settled, Owning, Leased, Counting, Taking
  <2>2. Guarding(p)'
    BY <1>1, <1>3 DEF ProcInv, Guarding, Kept
  <2> QED
    BY <2>1, <2>2 DEF ProcInv
<1>5. ASSUME NEW q \in Procs \ {p}
      PROVE  /\ ~Leased(q)
             /\ call[q].at = "unlink" => FALSE
             /\ call[q].at = "check" => ~HasGuard(q)
  <2>1. ~Leased(q)
    <3>1. Own(q)[1] = q
      BY DEF Own
    <3>2. Leased(q) => life[q] = "dead"
      BY <1>2, <3>1 DEF ProcInv, Owning
    <3> QED
      BY <3>2, IdleType DEF ProcInv, Settled, Leased
  <2>2. ASSUME call[q].at \in {"unlink", "check"}, HasGuard(q), lock = call[q].seen PROVE FALSE
    <3>1. life[q] = "alive"
      BY <2>2, IdleType DEF ProcInv, Settled
    <3>2. PICK g \in guards : g.owner = p
      BY <1>2 DEF HasGuard
    <3>3. PICK h \in guards : h.owner = q
      BY <2>2 DEF HasGuard
    <3>4. g.of = call[p].seen /\ h.of = call[q].seen
      BY <1>1, <3>1, <3>2, <3>3 DEF ProcInv, Guarding
    <3> QED
      BY <1>1, <1>2, <2>2, <3>1, <3>2, <3>3, <3>4 DEF GuardInv
  <2>3. call[q].at = "unlink" => HasGuard(q) /\ lock = call[q].seen
    BY DEF ProcInv, Guarding, Taking
  <2>4. call[q].at = "check" /\ HasGuard(q) => lock = call[q].seen
    BY DEF ProcInv, Taking
  <2> QED
    BY <2>1, <2>2, <2>3, <2>4
<1> QED
  BY <1>1, <1>3, <1>4, <1>5, NoLockPreserves

\* Only a living process takes its guards away, so dead ones stay.
LEMMA UnguardPreserves ==
  ASSUME TypeInv, GuardInv, \A q \in Procs : ProcInv(q), NEW p \in Procs, Unguard(p)
  PROVE  GuardInv' /\ \A q \in Procs : ProcInv(q)'
<1>1. /\ call \in [Procs -> Calls] /\ UNCHANGED <<lock, life, made>>
      /\ life[p] = "alive" /\ ProcInv(p)
      /\ guards' = {g \in guards : g.owner # p}
  BY DEF Unguard, At, TypeInv, TypeOK
<1>2. /\ Only(p) /\ call'[p].guard = 0
      /\ call'[p] = Idle \/ call'[p].at = "create"
  BY <1>1, NextAttemptEffect DEF Unguard
<1>3. \A id, n : DeadGuard(id, n) => DeadGuard(id, n)'
  BY <1>1 DEF DeadGuard
<1>4. GuardInv'
  <2>1. \A g \in guards' : \A n \in Nat : n < g.number => DeadGuard(g.of, n)'
    BY <1>1, <1>3 DEF GuardInv
  <2> QED
    BY <1>1, <2>1 DEF GuardInv
<1>5. ProcInv(p)'
  BY <1>1, <1>2, IdleType
     DEF ProcInv, Settled, Owning, Leased, Guarding, Counting, Taking, HasGuard
<1>6. ASSUME NEW q \in Procs \ {p} PROVE ProcInv(q)'
  <2>1. call'[q] = call[q] /\ (HasGuard(q)' <=> HasGuard(q))
    BY <1>1, <1>2 DEF Only, HasGuard
  <2>2. Settled(q)' /\ Owning(q)' /\ Taking(q)'
    BY <1>1, <2>1 DEF ProcInv, Settled, Owning, Leased, Own, Taking
  <2>3. Guarding(q)'
    BY <1>1, <2>1 DEF ProcInv, Guarding
  <2>4. Counting(q)'
    BY <1>3, <2>1 DEF ProcInv, Counting
  <2> QED
    BY <2>2, <2>3, <2>4 DEF ProcInv
<1> QED
  BY <1>4, <1>5, <1>6

\* Death leaves the files, and whatever was believed of the dead stays true.
LEMMA DiePreserves ==
  ASSUME TypeInv, startIds, GuardInv, \A q \in Procs : ProcInv(q), NEW p \in Procs, Die(p)
  PROVE  GuardInv' /\ \A q \in Procs : ProcInv(q)'
<1>1. /\ call \in [Procs -> Calls] /\ UNCHANGED <<lock, guards, made>>
      /\ life[p] = "alive" /\ ProcInv(p)
      /\ life' = [life EXCEPT ![p] = "dead"]
      /\ life'[p] = "dead" /\ \A q \in Procs \ {p} : life'[q] = life[q]
      /\ \A q \in Procs : life[q] = "dead" => life'[q] = "dead"
  BY DEF Die, files, TypeInv, TypeOK
<1>2. Only(p) /\ call'[p] = Idle
  BY <1>1, ReturnEffect DEF Die
<1>3. \A g \in guards : g.owner \in Procs
  BY DEF TypeInv, TypeOK, Guards
<1>4. \A id, n : DeadGuard(id, n) => DeadGuard(id, n)'
  BY <1>1, <1>3 DEF DeadGuard
<1>5. GuardInv'
  <2>1. \A g \in guards' : \A n \in Nat : n < g.number => DeadGuard(g.of, n)'
    BY <1>1, <1>4 DEF GuardInv
  <2>2. \A g, h \in guards' :
          g.of = h.of /\ life'[g.owner] = "alive" /\ life'[h.owner] = "alive" =>
            g.owner = h.owner
    BY <1>1, <1>3 DEF GuardInv
  <2> QED
    BY <1>1, <2>1, <2>2 DEF GuardInv
<1>6. ProcInv(p)'
  BY <1>1, <1>2, IdleType
     DEF ProcInv, Settled, Owning, Leased, Guarding, Counting, Taking, HasGuard
<1>7. ASSUME NEW q \in Procs \ {p} PROVE ProcInv(q)'
  <2>1. call'[q] = call[q] /\ (HasGuard(q)' <=> HasGuard(q)) /\ life'[q] = life[q]
    BY <1>1, <1>2 DEF Only, HasGuard
  <2>2. Settled(q)' /\ Owning(q)'
    BY <1>1, <2>1 DEF ProcInv, Settled, Owning, Leased, Own
  <2>3. Guarding(q)'
    BY <1>1, <2>1 DEF ProcInv, Guarding
  <2>4. Counting(q)'
    BY <1>4, <2>1 DEF ProcInv, Counting
  <2>5. call[q].at \in {"check", "guard", "observeAgain", "unlink"} => call[q].seen[1] \in Procs
    BY DEF TypeInv, Sighted, Ids
  <2>6. Taking(q)'
    BY <1>1, <2>1, <2>5 DEF ProcInv, Taking
  <2> QED
    BY <2>2, <2>3, <2>4, <2>6 DEF ProcInv
<1> QED
  BY <1>5, <1>6, <1>7

\* The operating system stays what it is.
LEMMA SystemStays == ASSUME [Next]_vars PROVE startIds' = startIds
BY DEF Next, Step, CreateLock, Observe, CheckOwner, ProbeOwner, CreateGuard, ObserveAgain,
       UnlinkLock, Unguard, Previous, Probe, ReadDescriptor, Quarantine, FinishRemoval,
       Publish, ReadOwnLock, UnlinkOwnLock, Acquire, Discover, StartFails, Close, Die,
       TimePasses, vars, files

\* Every step keeps the invariant.
LEMMA LinuxStep == ASSUME LinuxInv, [Next]_vars PROVE LinuxInv'
<1>1. TypeInv /\ TypeInv'
  BY TypeStep DEF LinuxInv
<1>2. startIds' = startIds
  BY SystemStays
<1> SUFFICES ASSUME startIds PROVE GuardInv' /\ \A q \in Procs : ProcInv(q)'
  BY <1>1, <1>2 DEF LinuxInv
<1>3. TypeOK /\ GuardInv /\ \A q \in Procs : ProcInv(q)
  BY <1>1 DEF LinuxInv, TypeInv
<1>4. CASE UNCHANGED vars
  BY <1>3, <1>4 DEF vars, files, GuardInv, ProcInv, Settled, Owning, Leased, Own, Guarding,
                    Counting, Taking, HasGuard, DeadGuard
<1>5. CASE TimePasses
  BY <1>5 DEF TimePasses
<1>6. ASSUME NEW p \in Procs, Plain(p) PROVE GuardInv' /\ \A q \in Procs : ProcInv(q)'
  BY <1>3, <1>6, PlainPreserves
<1>7. ASSUME NEW p \in Procs, Observe(p) \/ CheckOwner(p) \/ ObserveAgain(p)
      PROVE  GuardInv' /\ \A q \in Procs : ProcInv(q)'
  BY <1>1, <1>3, <1>7, LookingPreserves
<1>8. ASSUME NEW p \in Procs, ProbeOwner(p) PROVE FALSE
  BY <1>3, <1>8 DEF ProbeOwner, At, ProcInv, Settled
<1>9. ASSUME NEW p \in Procs, CreateLock(p) PROVE GuardInv' /\ \A q \in Procs : ProcInv(q)'
  BY <1>1, <1>3, <1>9, LockPreserves
<1>10. ASSUME NEW p \in Procs, CreateGuard(p) PROVE GuardInv' /\ \A q \in Procs : ProcInv(q)'
  BY <1>1, <1>3, <1>10, GuardPreserves
<1>11. ASSUME NEW p \in Procs, UnlinkLock(p) PROVE GuardInv' /\ \A q \in Procs : ProcInv(q)'
  BY <1>1, <1>3, <1>11, UnlinkPreserves
<1>12. ASSUME NEW p \in Procs, Unguard(p) PROVE GuardInv' /\ \A q \in Procs : ProcInv(q)'
  BY <1>1, <1>3, <1>12, UnguardPreserves
<1>13. ASSUME NEW p \in Procs, UnlinkOwnLock(p) PROVE GuardInv' /\ \A q \in Procs : ProcInv(q)'
  BY <1>1, <1>3, <1>13, UnlinkOwnPreserves
<1>14. ASSUME NEW p \in Procs, Die(p) PROVE GuardInv' /\ \A q \in Procs : ProcInv(q)'
  BY <1>1, <1>3, <1>14, DiePreserves
<1> QED
  BY <1>4, <1>5, <1>6, <1>7, <1>8, <1>9, <1>10, <1>11, <1>12, <1>13, <1>14
     DEF Next, Step, Plain

\* The invariant behind the theorems below.
THEOREM LinuxInvariant == Spec => []LinuxInv
BY LinuxInit, LinuxStep, PTL DEF Spec

\* A lock that is somebody's is nobody else's.
LEMMA OwnersDiffer ==
  ASSUME LinuxInv, startIds, NEW p \in Procs, NEW q \in Procs, Leased(p), Leased(q)
  PROVE  p = q
<1>1. lock = Own(p) /\ lock = Own(q)
  BY DEF LinuxInv, ProcInv, Owning
<1> QED
  BY <1>1 DEF Own

\* On Linux at most one process has the lease, and the lock file is its own: no
\* reclaimer ever unlinks a living owner's lock.
THEOREM MutualExclusion == Spec => []OneLease
<1>1. LinuxInv => OneLease
  BY OwnersDiffer DEF LinuxInv, OneLease, ProcInv, Owning
<1> QED
  BY <1>1, LinuxInvariant, PTL

-----------------------------------------------------------------------------
(***************************************************************************)
(* Takeovers serialize, on Linux and, where no acquisition takes 30 s,     *)
(* elsewhere.  The invariant is about guards alone: a number is tried only *)
(* above numbers whose makers are at work no longer.                       *)
(***************************************************************************)
\* A guard whose maker is not at work any more; it stays for ever.
Spent(id, n) == \E g \in guards : g.of = id /\ g.number = n /\ life[g.owner] # "alive"

\* Where p stands with its guards.
Numbered(p) ==
  /\ call[p].at \in {"idle", "create", "observe"} => call[p].guard = 0
  /\ call[p].at \in {"check", "probeOwner"} /\ ~HasGuard(p) => call[p].guard = 0
  /\ call[p].at = "observeAgain" => HasGuard(p)
  /\ call[p].at = "guard" =>
       \A n \in Nat : n < call[p].guard => Spent(call[p].seen, n)
  /\ HasGuard(p) /\ life[p] = "alive" =>
       call[p].at \in {"observeAgain", "check", "probeOwner", "unlink", "unguard"}

\* The guards of a lock rise above spent ones, and none grows old in use.
Rising ==
  /\ \A g, h \in guards : g.of = h.of /\ g.number = h.number => g.owner = h.owner
  /\ \A g \in guards : \A n \in Nat : n < g.number => Spent(g.of, n)
  /\ ~startIds => \A g \in guards : g.aged => life[g.owner] # "alive"

Takeovers == Rising /\ \A p \in Procs : Numbered(p)

\* A step of p that leaves guards and lives alone concerns p only.
LEMMA NumberedAlone ==
  ASSUME Takeovers, NEW p \in Procs, Only(p), Numbered(p)', UNCHANGED <<guards, life, startIds>>
  PROVE  Takeovers'
<1>1. Rising'
  BY DEF Takeovers, Rising, Spent
<1>2. ASSUME NEW q \in Procs \ {p} PROVE Numbered(q)'
  <2>1. call'[q] = call[q]
    BY DEF Only
  <2> QED
    BY <2>1 DEF Takeovers, Numbered, HasGuard, Spent
<1> QED
  BY <1>1, <1>2 DEF Takeovers

\* p goes where nothing is known of guards.
Leaves(p) ==
  /\ Only(p)
  /\ call'[p].at \notin {"check", "probeOwner", "observeAgain", "guard"}
  /\ call'[p].at \in {"idle", "create", "observe"} => call'[p].guard = 0

\* The steps of the descriptor and of the lease, and those that begin or end an
\* attempt.
Besides(p) ==
  \/ Acquire(p) \/ CreateLock(p) \/ (Observe(p) /\ lock = None) \/ Previous(p) \/ Discover(p)
  \/ Probe(p) \/ ReadDescriptor(p) \/ Quarantine(p) \/ FinishRemoval(p) \/ Publish(p)
  \/ StartFails(p) \/ Close(p) \/ ReadOwnLock(p) \/ UnlinkOwnLock(p)

\* They leave the reclaim.
LEMMA BesidesLeaves ==
  ASSUME TypeOK, NEW p \in Procs, Numbered(p), Besides(p) PROVE Leaves(p)
<1>1. call \in [Procs -> Calls] /\ Idle.guard = 0 /\ Idle.at = "idle"
  BY IdleType DEF TypeOK
<1> USE DEF Points
<1>2. CASE Acquire(p) \/ CreateLock(p)
  <2>1. /\ Only(p) /\ Kept(p) /\ call[p].guard = 0
        /\ call'[p].at \in {"create", "previous", "observe"}
    BY <1>1, <1>2, GotoEffect DEF Acquire, CreateLock, At, Numbered
  <2> QED
    BY <2>1 DEF Kept, Leaves
<1>3. CASE Observe(p) /\ lock = None
  BY <1>1, <1>3, NextAttemptEffect DEF Observe, Leaves
<1>4. CASE Previous(p)
  BY <1>4, PreviousEffect DEF Leaves
<1>5. CASE Discover(p)
  BY <1>5, DiscoverEffect DEF Leaves
<1>6. CASE Probe(p)
  BY <1>1, <1>6, GotoEffect, ReturnEffect DEF Probe, Leaves
<1>7. CASE ReadDescriptor(p) \/ Quarantine(p) \/ FinishRemoval(p)
  <2>1. Goto(p, "rename") \/ Goto(p, "finish") \/ Removed(p)
    BY <1>7 DEF ReadDescriptor, Quarantine, FinishRemoval
  <2> QED
    BY <1>1, <2>1, GotoEffect, RemovedEffect DEF Leaves
<1>8. CASE Publish(p) \/ StartFails(p)
  BY <1>1, <1>8, GotoEffect DEF Publish, StartFails, Leaves
<1>9. CASE Close(p)
  BY <1>9, CloseEffect DEF Leaves
<1>10. CASE ReadOwnLock(p) \/ UnlinkOwnLock(p)
  BY <1>1, <1>10, GotoEffect, ReturnEffect DEF ReadOwnLock, UnlinkOwnLock, Leaves
<1> QED
  BY <1>2, <1>3, <1>4, <1>5, <1>6, <1>7, <1>8, <1>9, <1>10 DEF Besides

\* And so keep the guards in order.
LEMMA BesidesPreserves ==
  ASSUME TypeOK, Takeovers, NEW p \in Procs, Besides(p) PROVE Takeovers'
<1>1. Leaves(p)
  BY BesidesLeaves DEF Takeovers
<1>2. UNCHANGED <<guards, life, startIds>>
  BY DEF Besides, Acquire, CreateLock, Observe, Previous, Discover, Probe, ReadDescriptor,
         Quarantine, FinishRemoval, Publish, StartFails, Close, ReadOwnLock, UnlinkOwnLock, files
<1>3. /\ life[p] = "alive"
      /\ call[p].at \in {"idle", "create", "observe", "previous", "probe", "read", "rename",
                         "finish", "start", "serve", "giveUp", "unlinkOwn"}
  BY DEF Besides, Acquire, CreateLock, Observe, Previous, Discover, Probe, ReadDescriptor,
         Quarantine, FinishRemoval, Publish, StartFails, Close, ReadOwnLock, UnlinkOwnLock, At
<1>4. ~HasGuard(p)
  BY <1>3 DEF Takeovers, Numbered
<1>5. Numbered(p)'
  BY <1>1, <1>2, <1>4 DEF Leaves, Numbered, HasGuard
<1> QED
  BY <1>1, <1>2, <1>5, NumberedAlone DEF Leaves

\* Looking at the lock and its owner, with or without a guard.
LEMMA LookKeepsOrder ==
  ASSUME TypeOK, Takeovers, NEW p \in Procs,
         \/ Observe(p) /\ lock # None
         \/ CheckOwner(p) \/ ProbeOwner(p) \/ ObserveAgain(p) \/ UnlinkLock(p)
  PROVE  Takeovers'
<1>1. call \in [Procs -> Calls] /\ Idle.guard = 0 /\ Idle.at = "idle"
  BY IdleType DEF TypeOK
<1>2. UNCHANGED <<guards, life, startIds>> /\ (HasGuard(p)' <=> HasGuard(p)) /\ Numbered(p)
  BY DEF Observe, CheckOwner, ProbeOwner, ObserveAgain, UnlinkLock, files, HasGuard, Takeovers
<1> SUFFICES Only(p) /\ Numbered(p)'
  BY <1>2, NumberedAlone
<1> USE DEF Points
<1>3. CASE Observe(p) /\ lock # None
  <2>1. call' = [call EXCEPT ![p].at = "check", ![p].seen = lock, ![p].aged = lockAged]
    BY <1>3 DEF Observe
  <2>2. Only(p) /\ call'[p].at = "check" /\ call'[p].guard = call[p].guard
    BY <2>1, ObserveEffect, Zenon
  <2>3. call[p].at = "observe"
    BY <1>3 DEF Observe, At
  <2> QED
    BY <1>2, <2>2, <2>3 DEF Numbered
<1>4. ASSUME call[p].at \in {"check", "probeOwner"}, OwnerActive(p) \/ OwnerInactive(p)
      PROVE  Only(p) /\ Numbered(p)'
  <2>1. CASE OwnerActive(p)
    <3>1. /\ Only(p)
          /\ \/ ~HasGuard(p) /\ call'[p].at = "idle" /\ call'[p].guard = 0
             \/ HasGuard(p) /\ call'[p].at = "unguard"
      BY <1>1, <2>1, OwnerActiveEffect
    <3> QED
      BY <1>2, <3>1 DEF Numbered
  <2>2. CASE OwnerInactive(p)
    <3>1. /\ Only(p) /\ call'[p].guard = call[p].guard
          /\ \/ ~HasGuard(p) /\ call'[p].at = "guard"
             \/ HasGuard(p) /\ call'[p].at = "unlink"
      BY <1>1, <2>2, OwnerInactiveEffect DEF Kept
    <3>2. ~HasGuard(p) => call[p].guard = 0
      BY <1>2, <1>4 DEF Numbered
    <3> QED
      BY <1>2, <3>1, <3>2 DEF Numbered
  <2> QED
    BY <1>4, <2>1, <2>2
<1>5. CASE CheckOwner(p)
  <2>1. call[p].at = "check"
    BY <1>5 DEF CheckOwner, At
  <2>2. CASE Goto(p, "probeOwner")
    <3>1. Only(p) /\ call'[p].at = "probeOwner" /\ call'[p].guard = call[p].guard
      BY <1>1, <2>2, GotoEffect DEF Kept
    <3> QED
      BY <1>2, <2>1, <3>1 DEF Numbered
  <2> QED
    BY <1>4, <1>5, <2>1, <2>2 DEF CheckOwner
<1>6. CASE ProbeOwner(p)
  BY <1>4, <1>6 DEF ProbeOwner, At
<1>7. CASE ObserveAgain(p)
  <2>1. HasGuard(p)
    BY <1>2, <1>7 DEF ObserveAgain, At, Numbered
  <2>2. CASE call' = [call EXCEPT ![p].at = "check", ![p].aged = lockAged]
    <3>1. Only(p) /\ call'[p].at = "check"
      BY <2>2, ObserveAgainEffect, Zenon
    <3> QED
      BY <1>2, <2>1, <3>1 DEF Numbered
  <2>3. CASE Goto(p, "unguard")
    <3>1. Only(p) /\ call'[p].at = "unguard"
      BY <1>1, <2>3, GotoEffect
    <3> QED
      BY <1>2, <2>1, <3>1 DEF Numbered
  <2> QED
    BY <1>7, <2>2, <2>3 DEF ObserveAgain
<1>8. CASE UnlinkLock(p)
  <2>1. Only(p) /\ call'[p].at = "unguard"
    BY <1>1, <1>8, GotoEffect DEF UnlinkLock
  <2> QED
    BY <1>2, <2>1 DEF Numbered
<1> QED
  BY <1>3, <1>5, <1>6, <1>7, <1>8

\* A guard is made above spent ones, and passed over when it is spent itself.
LEMMA NewGuardKeepsOrder ==
  ASSUME TypeInv, Takeovers, NEW p \in Procs, CreateGuard(p) PROVE Takeovers'
<1>1. /\ TypeOK /\ call \in [Procs -> Calls] /\ guards \subseteq Guards
      /\ life[p] = "alive" /\ call[p].at = "guard" /\ Numbered(p)
      /\ UNCHANGED <<life, startIds>>
  BY DEF TypeInv, TypeOK, CreateGuard, At, Takeovers
<1>2. ~HasGuard(p)
  BY <1>1 DEF Numbered
<1>3. call[p].guard \in Nat
  BY <1>1, FieldTypes
<1>4. CASE Return(p) /\ guards' = guards
  <2>1. Only(p) /\ call'[p].at = "idle" /\ call'[p].guard = 0
    BY <1>1, <1>4, ReturnEffect, IdleType
  <2>2. Numbered(p)'
    BY <1>2, <1>4, <2>1 DEF Numbered, HasGuard
  <2> QED
    BY <1>1, <1>4, <2>1, <2>2, NumberedAlone
<1>5. CASE /\ \E g \in GuardHere(p) : ~GuardBusy(p, g)
           /\ call' = [call EXCEPT ![p].guard = @ + 1] /\ guards' = guards
  <2>1. /\ Only(p) /\ call'[p].at = "guard" /\ call'[p].seen = call[p].seen
        /\ call'[p].guard = call[p].guard + 1
    BY <1>1, <1>5, NextGuardEffect
  <2>2. PICK g \in guards : /\ g.of = call[p].seen /\ g.number = call[p].guard
                            /\ ~GuardBusy(p, g)
    BY <1>5 DEF GuardHere
  <2>3. g.owner \in Procs /\ g.aged \in BOOLEAN
    BY <1>1 DEF Guards
  <2>4. life[g.owner] # "alive"
    BY <2>2, <2>3 DEF GuardBusy, Verified, Gone, Takeovers, Rising
  <2>5. Spent(call[p].seen, call[p].guard)
    BY <2>2, <2>4 DEF Spent
  <2>6. \A n \in Nat : n < call'[p].guard => Spent(call'[p].seen, n)
    <3> SUFFICES ASSUME NEW n \in Nat, n < call[p].guard + 1 PROVE Spent(call[p].seen, n)
      BY <2>1
    <3>1. n < call[p].guard \/ n = call[p].guard
      BY <1>3
    <3> QED
      BY <1>1, <2>5, <3>1 DEF Numbered
  <2>7. Numbered(p)'
    BY <1>1, <1>2, <1>5, <2>1, <2>6 DEF Numbered, HasGuard, Spent
  <2> QED
    BY <1>1, <1>5, <2>1, <2>7, NumberedAlone
<1>6. CASE /\ GuardHere(p) = {}
           /\ guards' = guards \cup {NewGuard(p)} /\ Goto(p, "observeAgain")
  <2>1. Only(p) /\ call'[p].at = "observeAgain"
    BY <1>1, <1>6, GotoEffect DEF Points
  <2>2. /\ NewGuard(p).of = call[p].seen /\ NewGuard(p).number = call[p].guard
        /\ NewGuard(p).owner = p /\ NewGuard(p).aged = FALSE
    BY DEF NewGuard
  <2>3. \A g \in guards : ~(g.of = call[p].seen /\ g.number = call[p].guard)
    BY <1>6 DEF GuardHere
  <2>4. \A id, n : Spent(id, n) => Spent(id, n)'
    BY <1>1, <1>6 DEF Spent
  <2>5. \A n \in Nat : n < call[p].guard => Spent(call[p].seen, n)
    BY <1>1 DEF Numbered
  <2>6. Rising'
    <3>1. ASSUME NEW g \in guards', NEW h \in guards', g.of = h.of, g.number = h.number
          PROVE  g.owner = h.owner
      <4>1. CASE g \in guards /\ h \in guards
        BY <3>1, <4>1 DEF Takeovers, Rising
      <4>2. CASE g = NewGuard(p) /\ h \in guards
        BY <2>2, <2>3, <3>1, <4>2
      <4>3. CASE g \in guards /\ h = NewGuard(p)
        BY <2>2, <2>3, <3>1, <4>3
      <4> QED
        BY <1>6, <4>1, <4>2, <4>3
    <3>2. ASSUME NEW g \in guards', NEW n \in Nat, n < g.number PROVE Spent(g.of, n)'
      <4>1. CASE g \in guards
        BY <2>4, <3>2, <4>1 DEF Takeovers, Rising
      <4>2. CASE g = NewGuard(p)
        BY <2>2, <2>4, <2>5, <3>2, <4>2
      <4> QED
        BY <1>6, <4>1, <4>2
    <3>3. ~startIds' => \A g \in guards' : g.aged => life'[g.owner] # "alive"
      BY <1>1, <1>6, <2>2 DEF Takeovers, Rising
    <3> QED
      BY <3>1, <3>2, <3>3 DEF Rising
  <2>7. ASSUME NEW q \in Procs PROVE Numbered(q)'
    <3>1. CASE q = p
      <4>1. HasGuard(p)'
        BY <1>6, <2>2 DEF HasGuard
      <4> QED
        BY <2>1, <3>1, <4>1 DEF Numbered
    <3>2. CASE q # p
      <4>1. call'[q] = call[q] /\ (HasGuard(q)' <=> HasGuard(q))
        BY <1>6, <2>1, <2>2, <3>2 DEF Only, HasGuard
      <4>2. Numbered(q)
        BY DEF Takeovers
      <4> QED
        BY <1>1, <2>4, <4>1, <4>2 DEF Numbered
    <3> QED
      BY <3>1, <3>2
  <2> QED
    BY <2>6, <2>7 DEF Takeovers
<1> QED
  BY <1>4, <1>5, <1>6 DEF CreateGuard

\* A living reclaimer takes its own guards away, which are not spent.
LEMMA UnguardKeepsOrder ==
  ASSUME TypeOK, Takeovers, NEW p \in Procs, Unguard(p) PROVE Takeovers'
<1>1. /\ call \in [Procs -> Calls] /\ life[p] = "alive" /\ NextAttempt(p)
      /\ guards' = {g \in guards : g.owner # p} /\ UNCHANGED <<life, startIds>>
  BY DEF TypeOK, Unguard, At
<1>2. Only(p) /\ call'[p].guard = 0 /\ call'[p].at \in {"idle", "create"}
  BY <1>1, NextAttemptEffect, IdleType
<1>3. \A id, n : Spent(id, n) => Spent(id, n)'
  BY <1>1 DEF Spent
<1>4. Rising'
  BY <1>1, <1>3 DEF Takeovers, Rising
<1>5. ASSUME NEW q \in Procs PROVE Numbered(q)'
  <2>1. CASE q = p
    BY <1>1, <1>2, <2>1 DEF Numbered, HasGuard
  <2>2. CASE q # p
    <3>1. call'[q] = call[q] /\ (HasGuard(q)' <=> HasGuard(q)) /\ Numbered(q)
      BY <1>1, <1>2, <2>2 DEF Only, HasGuard, Takeovers
    <3> QED
      BY <1>1, <1>3, <3>1 DEF Numbered
  <2> QED
    BY <2>1, <2>2
<1> QED
  BY <1>4, <1>5 DEF Takeovers

\* The guards of the dead are spent.
LEMMA DeathKeepsOrder ==
  ASSUME TypeOK, Takeovers, NEW p \in Procs, Die(p) PROVE Takeovers'
<1>1. /\ call \in [Procs -> Calls] /\ life \in [Procs -> {"alive", "dead", "reused"}]
      /\ guards \subseteq Guards
  BY DEF TypeOK
<1>2. Return(p) /\ UNCHANGED <<guards, startIds>>
  BY DEF Die, files
<1>3. PICK fate \in {"dead", "reused"} : life' = [life EXCEPT ![p] = fate]
  BY DEF Die
<1>4. life'[p] # "alive" /\ \A q \in Procs \ {p} : life'[q] = life[q]
  BY <1>1, <1>3
<1>5. Only(p) /\ call'[p].at = "idle" /\ call'[p].guard = 0
  BY <1>1, <1>2, ReturnEffect, IdleType
<1>6. \A g \in guards : g.owner \in Procs /\ (life'[g.owner] = "alive" => life[g.owner] = "alive")
  BY <1>1, <1>4 DEF Guards
<1>7. \A id, n : Spent(id, n) => Spent(id, n)'
  BY <1>2, <1>6 DEF Spent
<1>8. Rising'
  BY <1>2, <1>6, <1>7 DEF Takeovers, Rising
<1>9. ASSUME NEW q \in Procs PROVE Numbered(q)'
  <2>1. CASE q = p
    BY <1>4, <1>5, <2>1 DEF Numbered
  <2>2. CASE q # p
    <3>1. call'[q] = call[q] /\ (HasGuard(q)' <=> HasGuard(q)) /\ Numbered(q)
      BY <1>2, <1>5, <2>2 DEF Only, HasGuard, Takeovers
    <3> QED
      BY <1>4, <1>7, <2>2, <3>1 DEF Numbered
  <2> QED
    BY <2>1, <2>2
<1> QED
  BY <1>8, <1>9 DEF Takeovers

\* Guards grow old only while nobody is in the middle of anything.
LEMMA TimeKeepsOrder ==
  ASSUME TypeOK, ~SlowSteps, Takeovers, TimePasses PROVE Takeovers'
<1>1. /\ guards \subseteq Guards /\ UNCHANGED <<life, startIds, call>> /\ ~startIds
      /\ guards' = {[g EXCEPT !.aged = TRUE] : g \in guards}
      /\ \A p \in Procs : call[p].at \in {"idle", "serve"}
  BY DEF TypeOK, TimePasses
<1>2. \A g \in guards : LET h == [g EXCEPT !.aged = TRUE]
                        IN /\ h \in guards' /\ h.of = g.of /\ h.number = g.number
                           /\ h.owner = g.owner
  BY <1>1 DEF Guards
<1>3. \A h \in guards' : \E g \in guards : h.of = g.of /\ h.number = g.number /\ h.owner = g.owner
  <2> TAKE h \in guards'
  <2>1. PICK g \in guards : h = [g EXCEPT !.aged = TRUE]
    BY <1>1
  <2>2. h.of = g.of /\ h.number = g.number /\ h.owner = g.owner
    BY <1>1, <2>1 DEF Guards
  <2> QED
    BY <2>2
<1>4. \A g \in guards : life[g.owner] # "alive"
  <2> SUFFICES ASSUME NEW g \in guards, life[g.owner] = "alive" PROVE FALSE
    OBVIOUS
  <2>1. g.owner \in Procs
    BY <1>1 DEF Guards
  <2> QED
    BY <1>1, <2>1 DEF Takeovers, Numbered, HasGuard
<1>5. \A id, n : Spent(id, n) => Spent(id, n)'
  <2> SUFFICES ASSUME NEW id, NEW n, Spent(id, n) PROVE Spent(id, n)'
    OBVIOUS
  <2>1. PICK g \in guards : g.of = id /\ g.number = n /\ life[g.owner] # "alive"
    BY DEF Spent
  <2>2. PICK h \in guards' : h.of = g.of /\ h.number = g.number /\ h.owner = g.owner
    BY <1>2, <2>1
  <2> QED
    BY <1>1, <2>1, <2>2 DEF Spent
<1>6. Rising'
  BY <1>1, <1>3, <1>4, <1>5 DEF Takeovers, Rising
<1>7. ASSUME NEW q \in Procs PROVE Numbered(q)'
  <2>1. HasGuard(q)' <=> HasGuard(q)
    BY <1>2, <1>3 DEF HasGuard
  <2> QED
    BY <1>1, <1>5, <2>1 DEF Takeovers, Numbered
<1> QED
  BY <1>6, <1>7 DEF Takeovers

\* Initially there are no guards.
LEMMA TakeoversInit == Init => Takeovers
BY IdleType DEF Init, Takeovers, Rising, Numbered, HasGuard

\* Every step keeps the guards in order.
LEMMA TakeoversStep ==
  ASSUME TypeInv, startIds \/ ~SlowSteps, Takeovers, [Next]_vars PROVE Takeovers'
<1>1. TypeOK
  BY DEF TypeInv
<1>2. CASE UNCHANGED vars
  <2>1. UNCHANGED <<guards, life, startIds, call>>
    BY <1>2 DEF vars, files
  <2> QED
    BY <2>1 DEF Takeovers, Rising, Numbered, HasGuard, Spent
<1>3. CASE TimePasses
  BY <1>1, <1>3, TimeKeepsOrder DEF TimePasses
<1>4. ASSUME NEW p \in Procs, Besides(p) PROVE Takeovers'
  BY <1>1, <1>4, BesidesPreserves
<1>5. ASSUME NEW p \in Procs, Step(p) \/ Acquire(p) \/ Discover(p) \/ StartFails(p) \/ Close(p)
      PROVE  Takeovers'
  BY <1>1, <1>4, <1>5, LookKeepsOrder, NewGuardKeepsOrder, UnguardKeepsOrder DEF Step, Besides
<1>6. ASSUME NEW p \in Procs, Die(p) PROVE Takeovers'
  BY <1>1, <1>6, DeathKeepsOrder
<1> QED
  BY <1>2, <1>3, <1>5, <1>6 DEF Next

\* One living process at a time is past the guards of a lock, however slow it is
\* where a start id tells the living from the dead.
THEOREM OneReclaimer == Spec => []TakeoversSerialize
<1> DEFINE Ordered == startIds \/ ~SlowSteps => Takeovers
<1>1. Init => Ordered
  BY TakeoversInit
<1>2. TypeInv /\ Ordered /\ [Next]_vars => Ordered'
  BY SystemStays, TakeoversStep
<1>3. TypeInv /\ Ordered => TakeoversSerialize
  <2> SUFFICES ASSUME TypeInv, Takeovers, NEW g \in guards, NEW h \in guards, g.of = h.of,
                      life[g.owner] = "alive", life[h.owner] = "alive"
               PROVE  g.owner = h.owner
    BY DEF TakeoversSerialize
  <2>1. /\ g.number \in Nat /\ h.number \in Nat
        /\ \A e, f \in guards : e.of = f.of /\ e.number = f.number => e.owner = f.owner
        /\ \A e \in guards : \A n \in Nat : n < e.number => Spent(e.of, n)
    BY DEF TypeInv, TypeOK, Guards, Takeovers, Rising
  <2>2. ~(g.number < h.number)
    BY <2>1 DEF Spent
  <2>3. ~(h.number < g.number)
    BY <2>1 DEF Spent
  <2> QED
    BY <2>1, <2>2, <2>3
<1> HIDE DEF Ordered
<1> QED
  BY <1>1, <1>2, <1>3, TypeInvariant, PTL DEF Spec

-----------------------------------------------------------------------------
(***************************************************************************)
(* The refinement of Lease.                                                *)
(***************************************************************************)
\* The holder is the process that has the lease.
LEMMA HolderIsLeased ==
  ASSUME LinuxInv, startIds
  PROVE  /\ \A p \in Procs : Leased(p) => Holder = p
         /\ (\A p \in Procs : ~Leased(p)) => Holder = None
<1>1. ASSUME NEW p \in Procs, Leased(p) PROVE Holder = p
  <2>1. PICK q \in Procs : Holder = q /\ Leased(q)
    BY <1>1 DEF Holder
  <2> QED
    BY <1>1, <2>1, OwnersDiffer
<1> QED
  BY <1>1 DEF Holder

\* The same in the next state.
LEMMA HolderIsLeasedNext ==
  ASSUME LinuxInv', startIds'
  PROVE  /\ \A p \in Procs : Leased(p)' => Holder' = p
         /\ (\A p \in Procs : ~Leased(p)') => Holder' = None
<1>1. ASSUME NEW p \in Procs, NEW q \in Procs, Leased(p)', Leased(q)' PROVE p = q
  <2>1. lock' = Own(p)' /\ lock' = Own(q)'
    BY <1>1 DEF LinuxInv, ProcInv, Owning
  <2> QED
    BY <2>1 DEF Own
<1>2. ASSUME NEW p \in Procs, Leased(p)' PROVE Holder' = p
  <2>1. PICK q \in Procs : Holder' = q /\ Leased(q)'
    BY <1>2 DEF Holder
  <2> QED
    BY <1>1, <1>2, <2>1
<1> QED
  BY <1>2 DEF Holder

\* The same leases, the same holder.
LEMMA HolderStays ==
  ASSUME LinuxInv, LinuxInv', startIds' = startIds,
         \A p \in Procs : Leased(p)' <=> Leased(p)
  PROVE  Holder' = Holder
<1>1. CASE ~startIds
  BY <1>1 DEF Holder
<1>2. CASE startIds /\ \E p \in Procs : Leased(p)
  BY <1>2, HolderIsLeased, HolderIsLeasedNext
<1>3. CASE startIds /\ \A p \in Procs : ~Leased(p)
  BY <1>3, HolderIsLeased, HolderIsLeasedNext
<1> QED
  BY <1>1, <1>2, <1>3

\* Nobody gains or loses the lease.
SameLeases == /\ UNCHANGED <<life, startIds>>
              /\ \A q \in Procs : Leased(q)' <=> Leased(q)

\* A step of p that keeps p's lease keeps every lease.
LEMMA SameLeasesStep ==
  ASSUME NEW p \in Procs, Only(p), UNCHANGED <<life, startIds>>, Leased(p)' <=> Leased(p)
  PROVE  SameLeases
BY DEF SameLeases, Only, Leased

\* One process, which had no lease or loses its own, is all that changes.
LEMMA NoLeaseLost ==
  ASSUME NEW p \in Procs, Only(p), Leased(p)' => Leased(p)
  PROVE  \A q \in Procs : Leased(q)' => Leased(q)
BY DEF Only, Leased

\* What a step of p does to leases.
LEMMA LeaseStep ==
  ASSUME LinuxInv, LinuxInv', startIds, NEW p \in Procs, Step(p) \/ Acquire(p) \/ Discover(p)
         \/ StartFails(p) \/ Close(p)
  PROVE  \/ SameLeases
         \/ /\ UNCHANGED <<life, startIds>> /\ life[p] = "alive" /\ Leased(p)'
            /\ \A q \in Procs : ~Leased(q)
         \/ /\ UNCHANGED <<life, startIds>> /\ Leased(p) /\ \A q \in Procs : ~Leased(q)'
<1>1. /\ call \in [Procs -> Calls] /\ TypeOK /\ TypeInv /\ ProcInv(p) /\ GuardInv
      /\ \A q \in Procs : ProcInv(q)
  BY DEF LinuxInv, TypeInv, TypeOK
<1> USE DEF Points, files
<1>2. ASSUME Only(p), UNCHANGED <<life, startIds>>, Leased(p)' => Leased(p)
      PROVE  \/ SameLeases
             \/ UNCHANGED <<life, startIds>> /\ Leased(p) /\ \A q \in Procs : ~Leased(q)'
  <2>1. CASE Leased(p)' <=> Leased(p)
    BY <1>2, <2>1, SameLeasesStep
  <2>2. CASE Leased(p) /\ ~Leased(p)'
    <3>1. \A q \in Procs \ {p} : ~Leased(q)
      BY <2>2, OwnersDiffer
    <3>2. \A q \in Procs : ~Leased(q)'
      BY <1>2, <2>2, <3>1, NoLeaseLost
    <3> QED
      BY <1>2, <2>2, <3>2
  <2> QED
    BY <1>2, <2>1, <2>2
<1>3. CASE Plain(p)
  <2>1. UNCHANGED <<life, startIds>>
    BY <1>3 DEF Plain, Acquire, Previous, Discover, Probe, ReadDescriptor, Quarantine,
                FinishRemoval, Publish, StartFails, Close, ReadOwnLock
  <2> QED
    BY <1>1, <1>2, <1>3, <2>1, PlainLands DEF Lands
<1>4. CASE CreateLock(p)
  <2>1. Only(p) /\ UNCHANGED <<life, startIds>> /\ life[p] = "alive" /\ call[p].at = "create"
    BY <1>1, <1>4, GotoEffect DEF CreateLock, At
  <2>2. CASE lock = None /\ Goto(p, "previous")
    <3>1. call'[p].at = "previous"
      BY <1>1, <2>2, GotoEffect
    <3>2. ASSUME NEW q \in Procs PROVE ~Leased(q)
      <4>1. Own(q) \in Procs \X Nat
        BY <1>1 DEF Own, TypeOK
      <4> QED
        BY <1>1, <2>2, <4>1, NoneAssumption DEF ProcInv, Owning
    <3> QED
      BY <2>1, <3>1, <3>2 DEF Leased
  <2>3. CASE Goto(p, "observe")
    <3>1. call'[p].at = "observe"
      BY <1>1, <2>3, GotoEffect
    <3> QED
      BY <1>2, <2>1, <3>1 DEF Leased
  <2> QED
    BY <1>4, <2>2, <2>3 DEF CreateLock
<1>5. CASE Observe(p)
  <2>1. /\ Only(p) /\ UNCHANGED <<life, startIds>>
        /\ call'[p].at \in {"idle", "create", "check"}
    BY <1>1, <1>5, NextAttemptEffect, ObserveEffect, IdleType DEF Observe
  <2> QED
    BY <1>2, <2>1 DEF Leased
<1>6. CASE CheckOwner(p) \/ ProbeOwner(p)
  <2>1. /\ Only(p) /\ UNCHANGED <<life, startIds>>
        /\ call'[p].at \in {"idle", "guard", "unlink", "unguard", "probeOwner"}
    BY <1>1, <1>6, OwnerActiveEffect, OwnerInactiveEffect, GotoEffect, IdleType
       DEF CheckOwner, ProbeOwner
  <2> QED
    BY <1>2, <2>1 DEF Leased
<1>7. CASE CreateGuard(p)
  <2>1. /\ Only(p) /\ UNCHANGED <<life, startIds>>
        /\ call'[p].at \in {"idle", "guard", "observeAgain"}
    BY <1>1, <1>7, ReturnEffect, NextGuardEffect, GotoEffect, IdleType DEF CreateGuard, At
  <2> QED
    BY <1>2, <2>1 DEF Leased
<1>8. CASE ObserveAgain(p) \/ UnlinkLock(p)
  <2>1. /\ Only(p) /\ UNCHANGED <<life, startIds>>
        /\ call'[p].at \in {"unguard", "check"}
    BY <1>1, <1>8, ObserveAgainEffect, GotoEffect DEF ObserveAgain, UnlinkLock
  <2> QED
    BY <1>2, <2>1 DEF Leased
<1>9. CASE Unguard(p)
  <2>1. /\ Only(p) /\ UNCHANGED <<life, startIds>> /\ call'[p].at \in {"idle", "create"}
    BY <1>1, <1>9, NextAttemptEffect, IdleType DEF Unguard
  <2> QED
    BY <1>2, <2>1 DEF Leased
<1>10. CASE UnlinkOwnLock(p)
  <2>1. Only(p) /\ UNCHANGED <<life, startIds>> /\ call'[p].at = "idle"
    BY <1>1, <1>10, ReturnEffect, IdleType DEF UnlinkOwnLock
  <2> QED
    BY <1>2, <2>1 DEF Leased
<1> QED
  BY <1>3, <1>4, <1>5, <1>6, <1>7, <1>8, <1>9, <1>10 DEF Step, Plain

\* A process that has the lease is alive.
LEMMA LeasedLives ==
  ASSUME LinuxInv, startIds, NEW p \in Procs, Leased(p)
  PROVE  life[p] = "alive"
BY IdleType DEF LinuxInv, ProcInv, Settled, Leased

\* The abstract dead are the processes that have ended.
Ended == {p \in Procs : life[p] # "alive"}

\* Where nothing tells the living from the dead, nobody is said to hold the
\* lease, and only deaths are seen.
LEMMA NoHolderElsewhere ==
  ASSUME ~startIds, startIds' = startIds
  PROVE  Holder = None /\ Holder' = None
BY DEF Holder

\* A death.
LEMMA DieRefines ==
  ASSUME LinuxInv, LinuxInv', NEW p \in Procs, Die(p)
  PROVE  Singleton!Die(p)
<1>1. /\ life[p] = "alive" /\ life'[p] # "alive" /\ call \in [Procs -> Calls]
      /\ \A q \in Procs \ {p} : life'[q] = life[q]
      /\ startIds' = startIds
  BY DEF Die, LinuxInv, TypeInv, TypeOK
<1>2. Ended' = Ended \cup {p} /\ p \notin Ended
  BY <1>1 DEF Ended
<1>3. Holder' = IF Holder = p THEN None ELSE Holder
  <2>1. CASE ~startIds
    BY <1>1, <2>1, NoHolderElsewhere
  <2>2. CASE startIds
    <3>1. Only(p) /\ call'[p].at = "idle"
      BY <1>1, ReturnEffect, IdleType DEF Die
    <3>2. ~Leased(p)' /\ \A q \in Procs \ {p} : Leased(q)' <=> Leased(q)
      BY <3>1 DEF Only, Leased
    <3>3. CASE Leased(p)
      <4>1. \A q \in Procs : ~Leased(q)'
        BY <2>2, <3>2, <3>3, OwnersDiffer
      <4> QED
        BY <1>1, <2>2, <3>3, <4>1, HolderIsLeased, HolderIsLeasedNext
    <3>4. CASE ~Leased(p)
      <4>1. Holder' = Holder
        BY <1>1, <3>2, <3>4, HolderStays
      <4>2. Holder # p
        BY <2>2, <3>4, NoneAssumption, HolderIsLeased
      <4> QED
        BY <4>1, <4>2
    <3> QED
      BY <3>3, <3>4
  <2> QED
    BY <2>1, <2>2
<1> QED
  BY <1>2, <1>3 DEF Singleton!Die, Ended

\* Every step is one of Lease, or a stutter.
LEMMA LeaseRefines ==
  ASSUME LinuxInv, LinuxInv', [Next]_vars
  PROVE  [Singleton!Next]_Singleton!vars
<1>1. ASSUME SameLeases PROVE UNCHANGED Singleton!vars
  BY <1>1, HolderStays DEF SameLeases, Singleton!vars
<1>2. CASE UNCHANGED vars
  <2>1. SameLeases
    BY <1>2 DEF vars, SameLeases, Leased
  <2> QED
    BY <1>1, <2>1
<1>3. CASE TimePasses
  <2>1. SameLeases
    BY <1>3 DEF TimePasses, SameLeases, Leased
  <2> QED
    BY <1>1, <2>1
<1>4. ASSUME NEW p \in Procs, Die(p) PROVE Singleton!Next
  BY <1>4, DieRefines DEF Singleton!Next
<1>5. ASSUME NEW p \in Procs,
             Step(p) \/ Acquire(p) \/ Discover(p) \/ StartFails(p) \/ Close(p)
      PROVE  [Singleton!Next]_Singleton!vars
  <2>1. UNCHANGED <<life, startIds>>
    BY <1>5 DEF Step, CreateLock, Observe, CheckOwner, ProbeOwner, CreateGuard, ObserveAgain,
         UnlinkLock, Unguard, Previous, Probe, ReadDescriptor, Quarantine, FinishRemoval,
         Publish, ReadOwnLock, UnlinkOwnLock, Acquire, Discover, StartFails, Close, files
  <2>2. CASE ~startIds
    BY <2>1, <2>2, NoHolderElsewhere DEF Singleton!vars
  <2>3. CASE startIds /\ SameLeases
    BY <1>1, <2>3
  <2>4. CASE startIds /\ life[p] = "alive" /\ Leased(p)' /\ \A q \in Procs : ~Leased(q)
    <3>1. Holder = None /\ Holder' = p
      BY <2>1, <2>4, HolderIsLeased, HolderIsLeasedNext
    <3>2. Singleton!Acquire(p)
      BY <2>1, <2>4, <3>1 DEF Singleton!Acquire
    <3> QED
      BY <3>2 DEF Singleton!Next
  <2>5. CASE startIds /\ Leased(p) /\ \A q \in Procs : ~Leased(q)'
    <3>1. Holder = p /\ Holder' = None
      BY <2>1, <2>5, HolderIsLeased, HolderIsLeasedNext
    <3>2. Singleton!Release(p)
      BY <2>1, <3>1 DEF Singleton!Release
    <3> QED
      BY <3>2 DEF Singleton!Next
  <2> QED
    BY <1>5, <2>1, <2>2, <2>3, <2>4, <2>5, LeaseStep
<1> QED
  BY <1>2, <1>3, <1>4, <1>5 DEF Next

\* Initially nobody has the lease.
LEMMA LeaseInit == Init => Singleton!Init
<1> SUFFICES ASSUME Init PROVE Singleton!Init
  OBVIOUS
<1>1. \A p \in Procs : life[p] = "alive" /\ ~Leased(p)
  BY IdleType DEF Init, Leased
<1> QED
  BY <1>1 DEF Singleton!Init, Holder

\* On Linux acquireRuntimeLease is a singleton lease: it passes to nobody before
\* its holder has given it up or died.
THEOREM ImplementsLease == Spec => LeaseIsSingleton
BY LeaseInit, LeaseRefines, LinuxInvariant, PTL DEF Spec, LeaseIsSingleton, Singleton!Spec

-----------------------------------------------------------------------------
(***************************************************************************)
(* The descriptor of a serving host.  A remover reads a descriptor, then   *)
(* renames whatever is there by now, so the argument is about names: the   *)
(* name of a host that has not published is nowhere yet, and nobody is on  *)
(* his way to remove the name of one that serves.                          *)
(***************************************************************************)
\* p owns the lock and has not published under it.
Pending(p) ==
  \/ call[p].at \in {"previous", "start"}
  \/ call[p].at \in {"probe", "read", "rename", "finish"} /\ call[p].job = "acquire"

\* A lock that was published, or could have been.
Published(id) == id[2] <= made[id[1]] /\ (Pending(id[1]) => id[2] # made[id[1]])

\* A name that is in the descriptor, in a quarantine or in somebody's hands.
Known(id) ==
  desc = id \/ (\E left \in orphans : left.id = id)
  \/ \E q \in Procs : moved[q] = id \/ call[q].target = id

\* p has found its target stale, or gives up its own.
Removing(p) == call[p].at \in {"read", "rename", "finish"}

\* No descriptor is known before its host publishes it.
Past == \A id \in Ids : Known(id) => Published(id)

\* Nobody removes the descriptor of a host that serves.
Spared == \A p, q \in Procs : Removing(q) /\ At(p, "serve") => call[q].target # Own(p)

\* A quarantine is full between the two steps of a removal, or its owner died
\* there.
Parked == \A q \in Procs : moved[q] # None => call[q].at = "finish" \/ life[q] # "alive"

\* p's descriptor was left in a quarantine, as another was in its place.
Left(p) == \E left \in orphans : left.id = Own(p) /\ left.behind \in Ids \ {Own(p)}

\* The descriptor of a host that serves is in place, in a quarantine or left in one.
Somewhere ==
  startIds => \A p \in Procs : At(p, "serve") =>
    desc = Own(p) \/ Left(p) \/ \E q \in Procs \ {p} : moved[q] = Own(p)

Naming == Past /\ Spared /\ Parked /\ Somewhere

\* The parts of a lock's name.
LEMMA IdParts ==
  ASSUME NEW id \in Ids PROVE id[1] \in Procs /\ id[2] \in Nat /\ id = <<id[1], id[2]>>
BY DEF Ids

\* The name of p's latest lock.
LEMMA OwnParts ==
  ASSUME TypeOK, NEW p \in Procs
  PROVE  Own(p) \in Ids /\ Own(p)[1] = p /\ Own(p)[2] = made[p] /\ Own(p) # None
<1>1. made[p] \in Nat
  BY DEF TypeOK
<1> QED
  BY <1>1, NoneAssumption DEF Own, Ids

\* A living process that has renamed the descriptor of a host that serves meant
\* another, and puts this one back.
LEMMA KeptSomewhere == ASSUME TypeOK, Naming PROVE DescriptorKept
<1> SUFFICES ASSUME startIds, NEW p \in Procs, At(p, "serve"),
                    NEW q \in Procs \ {p}, moved[q] = Own(p), life[q] = "alive"
             PROVE  PutsBack(q)
  BY DEF Naming, Somewhere, DescriptorKept, Left
<1>1. call[q].at = "finish"
  BY OwnParts DEF Naming, Parked
<1> QED
  BY <1>1 DEF Naming, Spared, Removing, PutsBack

\* What a step does to the names that p holds.
Harmless(p) ==
  /\ Only(p)
  /\ call'[p].target \in Ids => Published(call'[p].target)
  /\ Pending(p)' => Pending(p)
  /\ call'[p].at # "serve"
  /\ Removing(p)' =>
       \A r \in Procs \ {p} : At(r, "serve") => call'[p].target # Own(r)
  /\ moved[p] # None => call'[p].at = "finish" \/ life'[p] # "alive"

\* Such a step of p, when it leaves the descriptors alone, keeps the names.
LEMMA HarmlessPreserves ==
  ASSUME TypeOK, TypeOK', Naming, NEW p \in Procs, Harmless(p),
         UNCHANGED <<desc, moved, orphans, made, startIds>>,
         \A q \in Procs : life'[q] = "alive" => life[q] = "alive",
         \A q \in Procs \ {p} : life'[q] = life[q]
  PROVE  Naming'
<1>1. \A q \in Procs \ {p} : call'[q] = call[q]
  BY DEF Harmless, Only
<1>2. \A q \in Procs : Own(q)' = Own(q)
  BY DEF Own
<1>3. \A q \in Procs : At(q, "serve")' => q # p /\ At(q, "serve")
  BY <1>1 DEF At, Harmless
<1>4. Past'
  <2> SUFFICES ASSUME NEW id \in Ids, Known(id)' PROVE Published(id)'
    BY DEF Past
  <2>1. Published(id)
    BY <1>1 DEF Known, Naming, Past, Harmless
  <2>2. id[1] \in Procs
    BY IdParts
  <2>3. Pending(id[1])' => Pending(id[1])
    BY <1>1, <2>2 DEF Harmless, Pending
  <2> QED
    BY <2>1, <2>3 DEF Published
<1>5. Spared'
  <2> SUFFICES ASSUME NEW r \in Procs, NEW q \in Procs, Removing(q)', At(r, "serve")'
               PROVE  call'[q].target # Own(r)
    BY <1>2 DEF Spared
  <2>1. r # p /\ At(r, "serve")
    BY <1>3
  <2>2. CASE q = p
    BY <2>1, <2>2 DEF Harmless
  <2>3. CASE q # p
    <3>1. Removing(q) /\ call'[q] = call[q]
      BY <1>1, <2>3 DEF Removing
    <3> QED
      BY <2>1, <3>1 DEF Naming, Spared
  <2> QED
    BY <2>2, <2>3
<1>6. Parked'
  BY <1>1 DEF Naming, Parked, Harmless
<1>7. Somewhere'
  BY <1>2, <1>3 DEF Naming, Somewhere, Left
<1> QED
  BY <1>4, <1>5, <1>6, <1>7 DEF Naming

\* A name that somebody holds was published.
LEMMA TargetPublished ==
  ASSUME Naming, NEW p \in Procs, call[p].target \in Ids PROVE Published(call[p].target)
BY DEF Naming, Past, Known

\* Outside the second half of a removal p's quarantine is empty.
LEMMA NothingParked ==
  ASSUME Naming, NEW p \in Procs, life[p] = "alive", call[p].at # "finish"
  PROVE  moved[p] = None
BY DEF Naming, Parked

\* A step of p that has nothing to do with descriptors.
LEMMA AsidePreserves ==
  ASSUME TypeOK, TypeOK', Naming, NEW p \in Procs, Only(p), life[p] = "alive",
         call[p].at # "finish",
         call'[p].target = call[p].target \/ call'[p].target = None,
         call'[p].at \notin {"previous", "start", "probe", "read", "rename", "finish", "serve"},
         UNCHANGED <<desc, moved, orphans, made, life, startIds>>
  PROVE  Naming'
<1>1. call'[p].target \in Ids => Published(call'[p].target)
  BY TargetPublished, NoneAssumption DEF Ids
<1>2. moved[p] = None
  BY NothingParked
<1>3. Harmless(p)
  BY <1>1, <1>2 DEF Harmless, Pending, Removing
<1> QED
  BY <1>3, HarmlessPreserves

\* The local steps that carry no new target.
LEMMA AsideSteps ==
  ASSUME TypeInv, TypeInv', Naming, NEW p \in Procs,
         \/ Acquire(p) \/ (CreateLock(p) /\ made' = made) \/ Observe(p) \/ CheckOwner(p)
         \/ ProbeOwner(p) \/ CreateGuard(p) \/ ObserveAgain(p) \/ UnlinkLock(p)
         \/ Unguard(p) \/ StartFails(p) \/ ReadOwnLock(p) \/ UnlinkOwnLock(p)
  PROVE  Naming'
<1> DEFINE Away == call'[p].at \notin {"previous", "start", "probe", "read", "rename",
                                       "finish", "serve"}
           Held == call'[p].target = call[p].target \/ call'[p].target = None
           Rest == UNCHANGED <<desc, moved, orphans, made, life, startIds>>
           Here == life[p] = "alive" /\ call[p].at # "finish"
<1> USE DEF files, At
<1>1. TypeOK /\ TypeOK' /\ call \in [Procs -> Calls]
  BY DEF TypeInv, TypeOK
<1>2. ASSUME Only(p), Away, Held, Rest, Here PROVE Naming'
  BY <1>1, <1>2, AsidePreserves
<1>3. Idle.at = "idle" /\ Idle.target = None
  BY DEF Idle
<1>4. ASSUME NEW point \in {"create", "observe", "probeOwner", "observeAgain", "unguard",
                            "giveUp", "unlinkOwn"},
             Goto(p, point)
      PROVE  Only(p) /\ Away /\ Held
  <2>1. point \in Points
    BY DEF Points
  <2> QED
    BY <1>1, <1>4, <2>1, GotoEffect DEF Kept
<1>5. ASSUME Return(p) PROVE Only(p) /\ Away /\ Held
  BY <1>1, <1>3, <1>5, ReturnEffect
<1>6. ASSUME NextAttempt(p) PROVE Only(p) /\ Away /\ Held
  <2>1. [Idle EXCEPT !.at = "create", !.attempt = 1].target = None
    BY DEF Idle
  <2>2. call'[p].target = None
    BY <1>1, <1>3, <1>6, <2>1 DEF NextAttempt
  <2> QED
    BY <1>1, <1>3, <1>6, <2>2, NextAttemptEffect
<1>7. ASSUME OwnerActive(p) \/ OwnerInactive(p) PROVE Only(p) /\ Away /\ Held
  BY <1>1, <1>3, <1>7, OwnerActiveEffect, OwnerInactiveEffect DEF Kept
<1>8. CASE Acquire(p)
  BY <1>2, <1>4, <1>8 DEF Acquire
<1>9. CASE CreateLock(p) /\ made' = made
  <2>1. made[p] + 1 # made[p]
    BY <1>1 DEF TypeOK
  <2>2. Goto(p, "observe")
    BY <1>1, <1>9, <2>1 DEF CreateLock, TypeOK
  <2> QED
    BY <1>2, <1>4, <1>9, <2>2 DEF CreateLock
<1>10. CASE Observe(p)
  <2>0. Rest /\ Here
    BY <1>10 DEF Observe
  <2>1. CASE lock = None /\ NextAttempt(p)
    BY <1>2, <1>6, <1>10, <2>1 DEF Observe
  <2>2. CASE /\ lock # None
             /\ call' = [call EXCEPT ![p].at = "check", ![p].seen = lock, ![p].aged = lockAged]
    <3>1. call'[p].target = call[p].target
      BY <1>1, <2>2 DEF Calls
    <3> QED
      <4>1. Only(p) /\ call'[p].at = "check"
        BY <1>1, <2>2, ObserveEffect, Zenon
      <4> QED
        BY <1>2, <2>0, <3>1, <4>1
  <2> QED
    BY <1>10, <2>1, <2>2 DEF Observe
<1>11. CASE CheckOwner(p)
  BY <1>2, <1>4, <1>7, <1>11 DEF CheckOwner
<1>12. CASE ProbeOwner(p)
  BY <1>2, <1>7, <1>12 DEF ProbeOwner
<1>13. CASE CreateGuard(p)
  <2>0. Rest /\ Here
    BY <1>13 DEF CreateGuard
  <2>1. CASE call' = [call EXCEPT ![p].guard = @ + 1]
    <3>1. call'[p].target = call[p].target
      BY <1>1, <2>1 DEF Calls
    <3>2. Only(p) /\ call'[p].at = "guard"
      BY <1>1, <1>13, <2>1, NextGuardEffect DEF CreateGuard
    <3> QED
      BY <1>2, <2>0, <3>1, <3>2
  <2>2. CASE Return(p) \/ Goto(p, "observeAgain")
    BY <1>2, <1>4, <1>5, <2>0, <2>2
  <2> QED
    BY <1>13, <2>1, <2>2 DEF CreateGuard
<1>14. CASE ObserveAgain(p)
  <2>0. Rest /\ Here
    BY <1>14 DEF ObserveAgain
  <2>1. CASE call' = [call EXCEPT ![p].at = "check", ![p].aged = lockAged]
    <3>1. Only(p) /\ Kept(p) /\ call'[p].at = "check"
      BY <1>1, <2>1, ObserveAgainEffect, Zenon
    <3> QED
      BY <1>2, <2>0, <3>1 DEF Kept
  <2>2. CASE Goto(p, "unguard")
    BY <1>2, <1>4, <1>14, <2>2 DEF ObserveAgain
  <2> QED
    BY <1>14, <2>1, <2>2 DEF ObserveAgain
<1>15. CASE UnlinkLock(p)
  BY <1>2, <1>4, <1>15 DEF UnlinkLock
<1>16. CASE Unguard(p)
  BY <1>2, <1>6, <1>16 DEF Unguard
<1>17. CASE StartFails(p)
  BY <1>2, <1>4, <1>17 DEF StartFails
<1>18. CASE ReadOwnLock(p)
  BY <1>2, <1>4, <1>5, <1>18 DEF ReadOwnLock
<1>19. CASE UnlinkOwnLock(p)
  BY <1>2, <1>5, <1>19 DEF UnlinkOwnLock
<1> QED
  BY <1>8, <1>9, <1>10, <1>11, <1>12, <1>13, <1>14, <1>15, <1>16, <1>17, <1>18, <1>19

\* A lock is new: its name is nowhere yet.
LEMMA NewLockUnknown ==
  ASSUME TypeInv, TypeInv', Naming, NEW p \in Procs, CreateLock(p)
  PROVE  Naming'
<1>1. CASE made' = made
  BY <1>1, AsideSteps
<1>2. CASE made' # made
  <2>1. /\ TypeOK /\ call \in [Procs -> Calls] /\ made \in [Procs -> Nat]
        /\ life[p] = "alive" /\ call[p].at = "create"
        /\ made' = [made EXCEPT ![p] = @ + 1] /\ Goto(p, "previous")
        /\ UNCHANGED <<desc, moved, orphans, life, startIds>>
    BY <1>2 DEF CreateLock, At, TypeInv, TypeOK
  <2>2. Only(p) /\ Kept(p) /\ call'[p].at = "previous"
    BY <2>1, GotoEffect DEF Points
  <2>3. \A q \in Procs \ {p} : call'[q] = call[q] /\ made'[q] = made[q]
    BY <2>1, <2>2 DEF Only
  <2>4. \A q \in Procs : At(q, "serve")' => q # p /\ At(q, "serve") /\ Own(q)' = Own(q)
    BY <2>1, <2>2, <2>3 DEF At, Own
  <2>5. Past'
    <3> SUFFICES ASSUME NEW id \in Ids, Known(id)' PROVE Published(id)'
      BY DEF Past
    <3>1. Published(id)
      BY <2>1, <2>2, <2>3 DEF Known, Naming, Past, Kept
    <3>2. id[1] \in Procs /\ id[2] \in Nat
      BY IdParts
    <3>3. CASE id[1] = p
      <4>1. id[2] <= made[p] /\ made'[p] = made[p] + 1 /\ made[p] \in Nat
        BY <2>1, <3>1, <3>3 DEF Published
      <4> QED
        BY <3>2, <3>3, <4>1 DEF Published
    <3>4. CASE id[1] # p
      BY <2>3, <3>1, <3>2, <3>4 DEF Published, Pending
    <3> QED
      BY <3>3, <3>4
  <2>6. Spared'
    BY <2>2, <2>3, <2>4 DEF Spared, Naming, Removing
  <2>7. Parked'
    <3>1. moved[p] = None
      BY <2>1, NothingParked
    <3> QED
      BY <2>1, <2>3, <3>1 DEF Parked, Naming
  <2>8. Somewhere'
    BY <2>1, <2>4 DEF Somewhere, Naming, Left
  <2> QED
    BY <2>5, <2>6, <2>7, <2>8 DEF Naming
<1> QED
  BY <1>1, <1>2

\* removeRuntimeDescriptor returns without a target, and to its acquisition only
\* if it was called by one.
LEMMA RemovedTarget ==
  ASSUME call \in [Procs -> Calls], NEW p \in Procs, Removed(p)
  PROVE  /\ Only(p) /\ call'[p].target = None /\ call'[p].at \in {"start", "giveUp", "idle"}
         /\ call'[p].at = "start" => call[p].job = "acquire"
<1>1. call[p].job \in {"acquire", "release", "discover"}
  BY FieldTypes
<1>2. ASSUME NEW point \in Points, Resume(p, point)
      PROVE  call'[p].at = point /\ call'[p].target = None
  <2>1. [Idle EXCEPT !.at = point].at = point /\ [Idle EXCEPT !.at = point].target = None
    BY DEF Idle
  <2> QED
    BY <1>2, <2>1 DEF Resume
<1>3. Return(p) => call'[p].at = "idle" /\ call'[p].target = None
  BY DEF Return, Idle
<1>4. Only(p)
  BY RemovedEffect
<1> QED
  BY <1>1, <1>2, <1>3, <1>4 DEF Removed, Points

\* Steps that choose a descriptor to remove, find one that does not answer, or
\* come back from a removal that found another.
LEMMA ChoicePreserves ==
  ASSUME TypeInv, TypeInv', Naming, NEW p \in Procs,
         Previous(p) \/ Discover(p) \/ Probe(p) \/ ReadDescriptor(p) \/ Close(p)
  PROVE  Naming'
<1> USE DEF files, At
<1>1. TypeOK /\ TypeOK' /\ call \in [Procs -> Calls] /\ desc \in Ids \cup {None}
  BY DEF TypeInv, TypeOK
<1>2. UNCHANGED <<desc, moved, orphans, made, life, startIds>> /\ life[p] = "alive"
  BY DEF Previous, Discover, Probe, ReadDescriptor, Close
<1>3. moved[p] = None
  BY <1>2, NothingParked DEF Previous, Discover, Probe, ReadDescriptor, Close
<1> SUFFICES Harmless(p)
  BY <1>1, <1>2, HarmlessPreserves
<1>4. desc \in Ids => Published(desc)
  BY DEF Naming, Past, Known
<1>5. CASE Previous(p)
  <2>1. call'[p].target = desc
    BY <1>1, <1>5 DEF Previous, Idle
  <2> QED
    BY <1>1, <1>3, <1>4, <1>5, <2>1, PreviousEffect DEF Previous, Harmless, Pending, Removing
<1>6. CASE Discover(p)
  <2>1. call'[p].target = desc
    BY <1>1, <1>6 DEF Discover, Idle
  <2> QED
    BY <1>1, <1>3, <1>4, <1>6, <2>1, DiscoverEffect DEF Discover, Harmless, Pending, Removing
<1>7. CASE Probe(p)
  <2>1. CASE MayBeStale(call[p].target) /\ Goto(p, "read")
    <3>1. Only(p) /\ Kept(p) /\ call'[p].at = "read"
      BY <1>1, <2>1, GotoEffect DEF Points
    <3>2. ASSUME NEW r \in Procs, At(r, "serve") PROVE call'[p].target # Own(r)
      <4>1. Own(r)[1] = r
        BY <1>1, OwnParts
      <4>2. Answers(Own(r))
        BY <3>2, <4>1 DEF Answers
      <4> QED
        BY <2>1, <3>1, <4>2 DEF MayBeStale, Kept
    <3>3. call'[p].target \in Ids => Published(call'[p].target)
      BY <3>1, TargetPublished DEF Kept
    <3> QED
      BY <1>3, <1>7, <3>1, <3>2, <3>3 DEF Probe, Harmless, Pending, Kept
  <2>2. CASE Goto(p, "giveUp")
    <3>1. Only(p) /\ Kept(p) /\ call'[p].at = "giveUp"
      BY <1>1, <2>2, GotoEffect DEF Points
    <3> QED
      BY <1>3, <3>1, TargetPublished DEF Harmless, Pending, Removing, Kept
  <2>3. CASE Return(p)
    <3>1. Only(p) /\ call'[p].at = "idle" /\ call'[p].target = None
      BY <1>1, <2>3, ReturnEffect DEF Idle
    <3> QED
      BY <1>3, <3>1, NoneAssumption DEF Harmless, Pending, Removing, Ids
  <2> QED
    BY <1>7, <2>1, <2>2, <2>3 DEF Probe
<1>8. CASE ReadDescriptor(p)
  <2>1. CASE Goto(p, "rename")
    <3>1. Only(p) /\ Kept(p) /\ call'[p].at = "rename"
      BY <1>1, <2>1, GotoEffect DEF Points
    <3>2. Removing(p) /\ (Pending(p)' => Pending(p))
      BY <1>8, <3>1 DEF ReadDescriptor, Removing, Pending, Kept
    <3>3. \A r \in Procs \ {p} : At(r, "serve") => call'[p].target # Own(r)
      BY <3>1, <3>2 DEF Naming, Spared, Kept
    <3> QED
      BY <1>3, <3>1, <3>2, <3>3, TargetPublished DEF Harmless, Kept
  <2>2. CASE Removed(p)
    <3>1. /\ Only(p) /\ call'[p].target = None /\ call'[p].at \in {"start", "giveUp", "idle"}
          /\ call'[p].at = "start" => call[p].job = "acquire"
      BY <1>1, <2>2, RemovedTarget
    <3>2. Pending(p)' => Pending(p)
      BY <1>8, <3>1 DEF ReadDescriptor, Pending
    <3> QED
      BY <1>3, <3>1, <3>2, NoneAssumption DEF Harmless, Removing, Ids
  <2> QED
    BY <1>8, <2>1, <2>2 DEF ReadDescriptor
<1>9. CASE Close(p)
  <2>1. call'[p].target = Own(p)
    BY <1>1, <1>9 DEF Close, Calls
  <2>2. Own(p)[1] = p /\ Own(p)[2] = made[p] /\ made[p] \in Nat
    BY <1>1, OwnParts DEF TypeOK
  <2>3. Published(Own(p))
    BY <1>9, <2>2 DEF Close, Published, Pending
  <2>4. \A r \in Procs \ {p} : Own(p) # Own(r)
    BY DEF Own
  <2> QED
    <3>1. Only(p) /\ call'[p].at = "read" /\ call'[p].job = "release"
      BY <1>1, <1>9, CloseEffect
    <3>2. ~Pending(p)'
      BY <3>1 DEF Pending
    <3> QED
      BY <1>3, <2>1, <2>3, <2>4, <3>1, <3>2 DEF Harmless
<1> QED
  BY <1>5, <1>6, <1>7, <1>8, <1>9

\* The rename takes the descriptor of a serving host to another's quarantine.
LEMMA QuarantinePreserves ==
  ASSUME TypeInv, TypeInv', Naming, NEW p \in Procs, Quarantine(p)
  PROVE  Naming'
<1>1. /\ TypeOK /\ call \in [Procs -> Calls] /\ moved \in [Procs -> Ids \cup {None}]
      /\ desc \in Ids \cup {None} /\ life[p] = "alive" /\ call[p].at = "rename"
      /\ moved' = [moved EXCEPT ![p] = desc] /\ desc' = None
      /\ UNCHANGED <<orphans, made, life, startIds>>
  BY DEF Quarantine, At, TypeInv, TypeOK
<1>2. /\ Only(p) /\ call'[p].at \in {"finish", "start", "giveUp", "idle"}
      /\ call'[p].target = call[p].target \/ call'[p].target = None
      /\ call'[p].at = "finish" => call'[p].target = call[p].target /\ desc # None
      /\ Pending(p)' => Pending(p)
      /\ desc # None => call'[p].at = "finish"
  <2>1. CASE desc = None
    <3>1. Removed(p)
      BY <2>1 DEF Quarantine
    <3>2. /\ Only(p) /\ call'[p].target = None /\ call'[p].at \in {"start", "giveUp", "idle"}
          /\ call'[p].at = "start" => call[p].job = "acquire"
      BY <1>1, <3>1, RemovedTarget
    <3> QED
      BY <1>1, <2>1, <3>2 DEF Pending
  <2>2. CASE desc # None
    <3>1. Goto(p, "finish")
      BY <2>2 DEF Quarantine
    <3>2. Only(p) /\ Kept(p) /\ call'[p].at = "finish"
      BY <1>1, <3>1, GotoEffect DEF Points
    <3> QED
      BY <1>1, <2>2, <3>2 DEF Pending, Kept
  <2> QED
    BY <2>1, <2>2
<1>3. \A q \in Procs \ {p} : call'[q] = call[q] /\ moved'[q] = moved[q]
  BY <1>1, <1>2 DEF Only
<1>4. moved[p] = None /\ moved'[p] = desc
  BY <1>1, NothingParked
<1>5. \A q \in Procs : Own(q)' = Own(q) /\ (At(q, "serve")' => q # p /\ At(q, "serve"))
  BY <1>1, <1>2, <1>3 DEF Own, At
<1>6. Past'
  <2> SUFFICES ASSUME NEW id \in Ids, Known(id)' PROVE Published(id)'
    BY DEF Past
  <2>1. id # None
    BY NoneAssumption DEF Ids
  <2>2. Known(id)
    BY <1>1, <1>2, <1>3, <1>4, <2>1 DEF Known
  <2>3. Published(id) /\ id[1] \in Procs
    BY <2>2, IdParts DEF Naming, Past
  <2>4. Pending(id[1])' => Pending(id[1])
    BY <1>2, <1>3, <2>3 DEF Pending
  <2> QED
    BY <1>1, <2>3, <2>4 DEF Published
<1>7. Spared'
  <2> SUFFICES ASSUME NEW r \in Procs, NEW q \in Procs, Removing(q)', At(r, "serve")'
               PROVE  call'[q].target # Own(r)
    BY <1>5 DEF Spared
  <2>1. Removing(q) /\ call'[q].target = call[q].target
    BY <1>1, <1>2, <1>3 DEF Removing
  <2> QED
    BY <1>5, <2>1 DEF Naming, Spared
<1>8. Parked'
  BY <1>1, <1>2, <1>3, <1>4 DEF Naming, Parked
<1>9. Somewhere'
  <2> SUFFICES ASSUME startIds, NEW r \in Procs, At(r, "serve"), r # p
               PROVE  \/ Left(r)
                      \/ \E q \in Procs \ {r} : moved'[q] = Own(r)
    BY <1>1, <1>5 DEF Somewhere, Left
  <2>1. CASE desc = Own(r)
    BY <1>4, <2>1
  <2>2. CASE Left(r)
    BY <2>2
  <2>3. CASE \E q \in Procs \ {r} : moved[q] = Own(r)
    <3>1. PICK q \in Procs \ {r} : moved[q] = Own(r)
      BY <2>3
    <3>2. Own(r) # None
      BY <1>1, OwnParts
    <3> QED
      BY <1>3, <1>4, <3>1, <3>2
  <2> QED
    BY <2>1, <2>2, <2>3 DEF Naming, Somewhere, Left
<1> QED
  BY <1>6, <1>7, <1>8, <1>9 DEF Naming

\* What was renamed is deleted only if it is the target, which is nobody's who
\* serves; anything else is restored or stays in the quarantine.
LEMMA FinishPreserves ==
  ASSUME TypeInv, TypeInv', Naming, NEW p \in Procs, FinishRemoval(p)
  PROVE  Naming'
<1>1. /\ TypeOK /\ call \in [Procs -> Calls] /\ moved \in [Procs -> Ids \cup {None}]
      /\ desc \in Ids \cup {None} /\ life[p] = "alive" /\ call[p].at = "finish"
      /\ moved' = [moved EXCEPT ![p] = None] /\ Removed(p)
      /\ UNCHANGED <<made, life, startIds>>
  BY DEF FinishRemoval, At, TypeInv, TypeOK
<1>2. /\ Only(p) /\ call'[p].target = None /\ call'[p].at \in {"start", "giveUp", "idle"}
      /\ call'[p].at = "start" => call[p].job = "acquire"
  BY <1>1, RemovedTarget
<1>3. \A q \in Procs \ {p} : call'[q] = call[q] /\ moved'[q] = moved[q]
  BY <1>1, <1>2 DEF Only
<1>4. moved'[p] = None
  BY <1>1
<1>5. \A q \in Procs : Own(q)' = Own(q) /\ (At(q, "serve")' => q # p /\ At(q, "serve"))
  BY <1>1, <1>2, <1>3 DEF Own, At
<1>6. \/ moved[p] = call[p].target /\ desc' = desc /\ orphans' = orphans
      \/ /\ moved[p] # call[p].target
         /\ \/ desc = None /\ desc' = moved[p] /\ orphans' = orphans
            \/ /\ desc # None /\ desc' = desc
               /\ orphans' = orphans \cup {[id |-> moved[p], behind |-> desc]}
  BY DEF FinishRemoval, RestoreQuarantined
<1>7. Past'
  <2> SUFFICES ASSUME NEW id \in Ids, Known(id)' PROVE Published(id)'
    BY DEF Past
  <2>1. id # None
    BY NoneAssumption DEF Ids
  <2>2. Known(id)
    BY <1>2, <1>3, <1>4, <1>6, <2>1 DEF Known
  <2>3. Published(id) /\ id[1] \in Procs
    BY <2>2, IdParts DEF Naming, Past
  <2>4. Pending(id[1])' => Pending(id[1])
    BY <1>1, <1>2, <1>3, <2>3 DEF Pending
  <2> QED
    BY <1>1, <2>3, <2>4 DEF Published
<1>8. Spared'
  <2> SUFFICES ASSUME NEW r \in Procs, NEW q \in Procs, Removing(q)', At(r, "serve")'
               PROVE  call'[q].target # Own(r)
    BY <1>5 DEF Spared
  <2>1. Removing(q) /\ call'[q].target = call[q].target
    BY <1>2, <1>3 DEF Removing
  <2> QED
    BY <1>5, <2>1 DEF Naming, Spared
<1>9. Parked'
  BY <1>1, <1>3, <1>4 DEF Naming, Parked
<1>10. Somewhere'
  <2> SUFFICES ASSUME startIds, NEW r \in Procs, At(r, "serve"), r # p
               PROVE  desc' = Own(r) \/ Left(r)'
                      \/ \E q \in Procs \ {r} : moved'[q] = Own(r)
    BY <1>1, <1>5 DEF Somewhere
  <2>1. call[p].target # Own(r)
    BY <1>1 DEF Naming, Spared, Removing
  <2>2. Own(r) # None
    BY <1>1, OwnParts
  <2>3. CASE desc = Own(r) \/ Left(r)
    BY <1>5, <1>6, <2>2, <2>3 DEF Left
  <2>4. CASE \E q \in Procs \ {r} : moved[q] = Own(r)
    <3>1. PICK q \in Procs \ {r} : moved[q] = Own(r)
      BY <2>4
    <3>2. CASE q = p
      <4>1. CASE desc \in Ids \ {Own(r)}
        <5>1. [id |-> Own(r), behind |-> desc] \in orphans'
          BY <1>6, <2>1, <3>1, <3>2, <4>1, NoneAssumption DEF Ids
        <5> QED
          BY <1>5, <4>1, <5>1 DEF Left
      <4>2. CASE desc = None
        BY <1>6, <2>1, <3>1, <3>2, <4>2
      <4>3. CASE desc = Own(r)
        BY <1>6, <2>2, <4>3
      <4> QED
        BY <1>1, <4>1, <4>2, <4>3
    <3>3. CASE q # p
      BY <1>3, <3>1, <3>3
    <3> QED
      BY <3>2, <3>3
  <2> QED
    BY <2>3, <2>4 DEF Naming, Somewhere, Left
<1> QED
  BY <1>7, <1>8, <1>9, <1>10 DEF Naming

\* Who publishes has the lease alone, and nobody knew his name before.
LEMMA PublishPreserves ==
  ASSUME LinuxInv, TypeInv, TypeInv', Naming, NEW p \in Procs, Publish(p)
  PROVE  Naming'
<1>1. /\ TypeOK /\ call \in [Procs -> Calls] /\ life[p] = "alive" /\ call[p].at = "start"
      /\ desc' = Own(p) /\ Goto(p, "serve")
      /\ UNCHANGED <<moved, orphans, made, life, startIds>>
  BY DEF Publish, At, TypeInv, TypeOK
<1>2. Only(p) /\ Kept(p) /\ call'[p].at = "serve"
  BY <1>1, GotoEffect DEF Points
<1>3. \A q \in Procs \ {p} : call'[q] = call[q]
  BY <1>2 DEF Only
<1>4. \A q \in Procs : Own(q)' = Own(q) /\ (q # p => (At(q, "serve")' => At(q, "serve")))
  BY <1>1, <1>3 DEF Own, At
<1>5. Own(p) \in Ids /\ Own(p)[1] = p /\ Own(p)[2] = made[p] /\ made[p] \in Nat
  BY <1>1, OwnParts DEF TypeOK
<1>6. ~Known(Own(p))
  BY <1>1, <1>5 DEF Naming, Past, Published, Pending
<1>7. Past'
  <2> SUFFICES ASSUME NEW id \in Ids, Known(id)' PROVE Published(id)'
    BY DEF Past
  <2>1. CASE id = Own(p)
    BY <1>1, <1>2, <1>5, <2>1 DEF Published, Pending
  <2>2. CASE id # Own(p)
    <3>1. Known(id)
      BY <1>1, <1>2, <1>3, <2>2 DEF Known, Kept
    <3>2. Published(id) /\ id[1] \in Procs
      BY <3>1, IdParts DEF Naming, Past
    <3>3. Pending(id[1])' => Pending(id[1])
      BY <1>2, <1>3, <3>2 DEF Pending
    <3> QED
      BY <1>1, <3>2, <3>3 DEF Published
  <2> QED
    BY <2>1, <2>2
<1>8. Spared'
  <2> SUFFICES ASSUME NEW r \in Procs, NEW q \in Procs, Removing(q)', At(r, "serve")'
               PROVE  call'[q].target # Own(r)
    BY <1>4 DEF Spared
  <2>1. q # p /\ Removing(q) /\ call'[q] = call[q]
    BY <1>2, <1>3 DEF Removing
  <2>2. CASE r = p
    BY <1>6, <2>1, <2>2 DEF Known
  <2>3. CASE r # p
    BY <1>4, <2>1, <2>3 DEF Naming, Spared
  <2> QED
    BY <2>2, <2>3
<1>9. Parked'
  <2>1. moved[p] = None
    BY <1>1, NothingParked
  <2> QED
    BY <1>1, <1>3, <2>1 DEF Naming, Parked
<1>10. Somewhere'
  <2> SUFFICES ASSUME startIds, NEW r \in Procs, At(r, "serve")' PROVE desc' = Own(r)
    BY <1>1, <1>4 DEF Somewhere
  <2>1. r = p
    <3> SUFFICES ASSUME r # p PROVE FALSE
      OBVIOUS
    <3>1. Leased(r) /\ Leased(p)
      BY <1>1, <1>4 DEF At, Leased
    <3> QED
      BY <3>1, OwnersDiffer
  <2> QED
    BY <1>1, <2>1
<1> QED
  BY <1>7, <1>8, <1>9, <1>10 DEF Naming

\* The dead hold no names; their quarantines stay.
LEMMA DeathPreserves ==
  ASSUME TypeInv, TypeInv', Naming, NEW p \in Procs, Die(p)
  PROVE  Naming'
<1>1. /\ TypeOK /\ TypeOK' /\ call \in [Procs -> Calls]
      /\ life \in [Procs -> {"alive", "dead", "reused"}]
  <2>1. TypeOK /\ TypeOK'
    BY DEF TypeInv
  <2> QED
    BY <2>1 DEF TypeOK
<1>2. Return(p) /\ UNCHANGED <<desc, moved, orphans, made, startIds>>
  BY DEF Die, files
<1>3. PICK fate \in {"dead", "reused"} : life' = [life EXCEPT ![p] = fate]
  BY DEF Die
<1>4. life'[p] # "alive" /\ \A q \in Procs \ {p} : life'[q] = life[q]
  BY <1>1, <1>3
<1>5. Only(p) /\ call'[p].at = "idle" /\ call'[p].target = None
  BY <1>2, <1>1, ReturnEffect DEF Idle
<1>6. Harmless(p)
  BY <1>4, <1>5, NoneAssumption DEF Harmless, Pending, Removing, Ids
<1>7. \A q \in Procs : life'[q] = "alive" => life[q] = "alive"
  BY <1>4
<1> QED
  BY <1>2, <1>1, <1>4, <1>6, <1>7, HarmlessPreserves

\* Initially there are no descriptors.
LEMMA NamingInit == Init => Naming
<1> SUFFICES ASSUME Init PROVE Naming
  OBVIOUS
<1>1. /\ desc = None /\ orphans = {}
      /\ \A p \in Procs : moved[p] = None /\ call[p].at = "idle" /\ call[p].target = None
  BY DEF Init, Idle
<1>2. \A id \in Ids : ~Known(id)
  BY <1>1, NoneAssumption DEF Known, Ids
<1> QED
  BY <1>1, <1>2 DEF Naming, Past, Spared, Parked, Somewhere, Removing, At

\* Every step keeps the names.
LEMMA NamingStep == ASSUME LinuxInv, LinuxInv', Naming, [Next]_vars PROVE Naming'
<1>1. TypeInv /\ TypeInv'
  BY DEF LinuxInv
<1>2. CASE UNCHANGED vars \/ TimePasses
  <2>1. UNCHANGED <<desc, moved, orphans, life, startIds, made, call>>
    BY <1>2 DEF vars, files, TimePasses
  <2>2. Past'
    BY <2>1 DEF Naming, Past, Known, Published, Pending
  <2>3. Spared' /\ Parked' /\ Somewhere'
    BY <2>1 DEF Naming, Spared, Parked, Somewhere, Left, Removing, At, Own
  <2> QED
    BY <2>2, <2>3 DEF Naming
<1>3. ASSUME NEW p \in Procs, Step(p) PROVE Naming'
  BY <1>1, <1>3, AsideSteps, NewLockUnknown, ChoicePreserves, QuarantinePreserves,
     FinishPreserves, PublishPreserves DEF Step
<1>4. ASSUME NEW p \in Procs, Acquire(p) \/ StartFails(p) PROVE Naming'
  BY <1>1, <1>4, AsideSteps
<1>5. ASSUME NEW p \in Procs, Discover(p) \/ Close(p) PROVE Naming'
  BY <1>1, <1>5, ChoicePreserves
<1>6. ASSUME NEW p \in Procs, Die(p) PROVE Naming'
  BY <1>1, <1>6, DeathPreserves
<1> QED
  BY <1>2, <1>3, <1>4, <1>5, <1>6 DEF Next

\* Removing a stale descriptor never destroys that of a serving host, however
\* many processes remove at once: it is in place, or a living process is about to
\* put it back, or it was left in a quarantine by one that died or found another
\* in its place.
THEOREM DescriptorSurvives == Spec => []DescriptorKept
<1>1. Spec => []Naming
  BY NamingInit, NamingStep, LinuxInvariant, PTL DEF Spec
<1>2. LinuxInv => TypeOK
  BY DEF LinuxInv, TypeInv
<1>3. LinuxInv /\ Naming => DescriptorKept
  BY <1>2, KeptSomewhere
<1> QED
  BY <1>1, <1>3, LinuxInvariant, PTL
=============================================================================
