---------------------------- MODULE TaskRegistry ----------------------------
(***************************************************************************)
(* Class TaskRegistry (src/src/state.ts) as a state machine: the six slot  *)
(* registry, its sticky selection and the per-task revision updatedAt that *)
(* recovery uses to tell a fresh cached snapshot from a stale one.  Each   *)
(* action is one public method; the caller is the host server, which runs  *)
(* one method at a time.                                                   *)
(***************************************************************************)
EXTENDS TaskOps

CONSTANTS Times,       \* what Date.now() may return; it need not advance
          ReportedStates, \* what hooks and wrappers report to applyState
          Snapshots,   \* the cached recovery metadata clients may send
          MaxStamp     \* bound on updatedAt, a counter the code lets grow

ASSUME TimesAssumption == Times \subseteq Nat
ASSUME ReportedAssumption == ReportedStates \subseteq AgentStates
ASSUME SnapshotsAssumption == Snapshots \subseteq Recovery
ASSUME MaxStampAssumption == MaxStamp \in Nat

VARIABLES reg,         \* tasks and selectedWrapperId
          updated      \* updatedAt of each task, 0 while unregistered

vars == <<reg, updated>>

TypeOK ==
  /\ reg \in Registry
  /\ updated \in [Wrappers -> Nat]

Later(a, b) == IF a >= b THEN a ELSE b

\* Mutant: the wall clock alone, which may stand still.
StampByClock(previous, floor, t) == Later(Later(t, previous), floor)

\* Mutant: the merged snapshot's own revision is forgotten.
StampWithoutFloor(previous, floor, t) == Later(t, previous + 1)

\* nextUpdatedAt(previous, floor) at wall-clock time t.
NextUpdatedAt(previous, floor, t) == Later(Later(t, previous + 1), floor)

\* The methods' revision step, under the named bound.
Stamp(w, floor, t) ==
  /\ NextUpdatedAt(updated[w], floor, t) <= MaxStamp
  /\ updated' = [updated EXCEPT ![w] = NextUpdatedAt(@, floor, t)]

Init ==
  /\ reg = EmptyRegistry
  /\ updated = [w \in Wrappers |-> 0]

(***************************************************************************)
(* Registration and recovery.                                              *)
(***************************************************************************)
\* register of an unknown wrapper.  A recovery keeps its own revision, unless
\* the registry had no selection and this task takes it.
RegisterFirst(w, want, rec, cached, t) ==
  LET stamp == IF rec = None THEN t ELSE cached
      takes == /\ reg.selected = None
               /\ AllocateSlot(reg, want) # NoSlot
               /\ ~(rec # None /\ rec.selected)
  IN /\ w \notin Registered(reg)
     /\ SlotGranted(reg, w, want)
     /\ reg' = Register(reg, w, want, rec, FALSE)
     /\ LET next == IF takes THEN NextUpdatedAt(stamp, 0, t) ELSE stamp
        IN next <= MaxStamp /\ updated' = [updated EXCEPT ![w] = next]

\* register of a wrapper the registry already holds: a retry, or recovery.
\* A caller that names a slot never demotes a slotted task to overflow.
ReRegister(w, want, rec, cached, t) ==
  LET newer == rec # None /\ cached > updated[w]
  IN /\ w \in Registered(reg)
     /\ want = NoSlot => reg.tasks[w].slot = NoSlot
     /\ SlotGranted(reg, w, want)
     /\ reg' = Register(reg, w, want, rec, newer)
     /\ Stamp(w, IF newer THEN cached ELSE 0, t)

\* The host process of wrapper gone exits; wrapper w is promoted, and seeds a
\* new registry from the status it holds, which restore takes as it stands.
Promote(w, gone) ==
  /\ {w, gone} \subseteq Registered(reg) /\ w # gone
  /\ reg' = Restore(WithoutProcess(reg, gone), w)
  /\ updated' = [updated EXCEPT ![gone] = 0]

\* unregister, and the fallback's revision of the task it selects.
UnregisterTask(w, t) ==
  /\ w \in Registered(reg)
  /\ reg' = Unregister(reg, w)
  /\ LET next == reg'.selected
         base == [updated EXCEPT ![w] = 0]
     IN IF reg.selected = w /\ next # None
          THEN /\ NextUpdatedAt(updated[next], 0, t) <= MaxStamp
               /\ updated' = [base EXCEPT ![next] = NextUpdatedAt(@, 0, t)]
          ELSE updated' = base

(***************************************************************************)
(* Lifecycle and connection.                                               *)
(***************************************************************************)
SetState(w, state, session, t) ==
  /\ w \in Registered(reg)
  /\ reg' = ApplyState(reg, w, state, session)
  /\ Stamp(w, 0, t)

EndSession(w, session, t) ==
  /\ w \in Registered(reg)
  /\ session # None
  /\ reg.tasks[w].session = session
  /\ reg' = ClearSession(reg, w)
  /\ Stamp(w, 0, t)

Disconnect(w, t) ==
  /\ w \in Registered(reg)
  /\ reg' = MarkDisconnected(reg, w)
  /\ LET next  == reg'.selected
         moved == reg.selected = w /\ next # None
     IN /\ NextUpdatedAt(updated[w], 0, t) <= MaxStamp
        /\ moved => NextUpdatedAt(updated[next], 0, t) <= MaxStamp
        /\ updated' = [v \in Wrappers |->
                         IF v = w \/ (moved /\ v = next)
                           THEN NextUpdatedAt(updated[v], 0, t) ELSE updated[v]]

SetConnection(w, conn, t) ==
  /\ w \in Registered(reg)
  /\ reg' = MarkConnection(reg, w, conn)
  /\ Stamp(w, 0, t)

(***************************************************************************)
(* Selection.                                                              *)
(***************************************************************************)
SelectSlot(s, t) ==
  \E w \in Selectable(reg) :
    /\ reg.tasks[w].slot = s
    /\ reg' = SelectRecord(reg, w)
    /\ Stamp(w, 0, t)

SelectWrapper(w, t) ==
  /\ w \in Selectable(reg)
  /\ reg' = SelectRecord(reg, w)
  /\ Stamp(w, 0, t)

SelectRelative(delta, t) ==
  /\ Selectable(reg) # {}
  /\ reg' = SelectRecord(reg, RelativeTarget(reg, delta))
  /\ Stamp(RelativeTarget(reg, delta), 0, t)

(***************************************************************************)
(* Next: any caller, in any order, at any reading of the wall clock.       *)
(***************************************************************************)
Next ==
  \/ \E w \in Wrappers, t \in Times :
       \/ \E want \in {AnySlot, NoSlot} \cup Slots, rec \in Snapshots \cup {None} :
          \E cached \in IF rec = None THEN {0} ELSE 0 .. MaxStamp :
            \/ RegisterFirst(w, want, rec, cached, t)
            \/ ReRegister(w, want, rec, cached, t)
       \/ UnregisterTask(w, t)
       \/ \E state \in ReportedStates, s \in Sessions \cup {None} : SetState(w, state, s, t)
       \/ \E s \in Sessions : EndSession(w, s, t)
       \/ Disconnect(w, t)
       \/ \E conn \in {"connected", "reconnecting"} : SetConnection(w, conn, t)
       \/ SelectWrapper(w, t)
  \/ \E w, gone \in Wrappers : Promote(w, gone)
  \/ \E t \in Times : \/ \E s \in Slots : SelectSlot(s, t)
                      \/ \E delta \in {1, -1} : SelectRelative(delta, t)

Spec == Init /\ [][Next]_vars

-----------------------------------------------------------------------------
(***************************************************************************)
(* Safety.                                                                 *)
(***************************************************************************)
\* A hardware slot never belongs to two tasks, whatever mix of first-free
\* allocation, reserved slots, moves, recovery and promotion led here; an
\* Agent key would otherwise control whichever task the Map lists first.
NoSharedSlot == SlotsUnshared(reg)

\* The selection names a registered task that has a slot: never an overflow
\* task, and never a wrapper that was unregistered or whose process exited.
SelectionOnHardware == SelectionInSlot(reg)

(***************************************************************************)
(* Action properties.                                                      *)
(***************************************************************************)
Promoting == \E w, gone \in Wrappers : Promote(w, gone)

Kept == Registered(reg) \cap Registered(reg)'

\* The revision of a task that stays registered never goes back, and whatever
\* changes in its record, or makes it the selected task, strictly raises it,
\* even when the wall clock stands still or steps back.  Recovery's comparison
\* relies on it: two snapshots of a task that carry one revision have the same
\* record.  They may still differ in "selected": selectRecord stamps the task
\* that gains the selection alone, so of one revision there may be a snapshot
\* that is selected and a later one that is not, and never the other way
\* round.  (A promotion raises nothing: it rewrites the connection of every
\* task it restores and deliberately keeps their revisions.)
RevisionOnChange ==
  [][\A w \in Kept :
       /\ updated'[w] >= updated[w]
       /\ \/ reg'.tasks[w] = reg.tasks[w] /\ (reg'.selected = w => reg.selected = w)
          \/ updated'[w] > updated[w]
          \/ Promoting]_vars

\* A step that may have been a registration of w that changed something.
Concerned(w) == reg.tasks[w] # reg'.tasks[w] \/ updated[w] # updated'[w]

\* A recovery registration whose answer was lost is sent again with the same
\* cached snapshot.  Whatever the agent did and wherever the selection went in
\* between, the copy reverts neither: the first one left a revision that the
\* snapshot does not exceed, and revisions only grow.
LateCopyIsIgnored ==
  [][\A w \in {v \in Registered(reg') : Concerned(v)} :
       \A want \in {AnySlot, reg'.tasks[w].slot}, rec \in Snapshots, t \in Times :
         \A cached \in 0 .. MaxStamp :
           RegisterFirst(w, want, rec, cached, t) \/ ReRegister(w, want, rec, cached, t)
             => \A state \in ReportedStates, v \in Registered(reg') :
                  LET later == [ApplyState(reg', w, state, None) EXCEPT !.selected = v]
                  IN Register(later, w, want, rec, cached > updated'[w]) = later]_vars

\* The board is left without a selection only when no task can be selected:
\* an exit, a disconnection or a promotion finds every remaining candidate.
SelectionLostOnlyWhenEmpty ==
  [][reg.selected # None /\ reg'.selected = None => Selectable(reg') = {}]_vars

\* The registry after n presses of Right (delta = 1) or Left (delta = -1).
AfterPresses(r, delta, n) ==
  LET pressed[i \in 0 .. n] ==
        IF i = 0 THEN r
        ELSE SelectRecord(pressed[i - 1], RelativeTarget(pressed[i - 1], delta))
  IN pressed[n]

\* From any selection, and from none, as many presses of Right (or Left) as
\* there are tasks to select visit every one of them, and the opposite key
\* takes the last step back: no task is skipped or reached only from one side.
NavigationCycles ==
  LET S == Selectable(reg)
      n == Cardinality(S)
  IN \A delta \in {1, -1} :
       /\ {AfterPresses(reg, delta, i).selected : i \in 1 .. n} = S
       /\ reg.selected \in S =>
            AfterPresses(AfterPresses(reg, delta, 1), -delta, 1).selected = reg.selected

=============================================================================
