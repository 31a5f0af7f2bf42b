------------------------- MODULE TaskRegistryProofs -------------------------
(***************************************************************************)
(* The registry's invariants, for any number of wrappers, sessions and     *)
(* slots, and any readings of the clock.  The three are inductive only     *)
(* together: a selection is kept in a slot because unregistering and       *)
(* restoring move it, slots stay unshared because a granted slot is free,  *)
(* and both need the types.                                                *)
(***************************************************************************)
EXTENDS TaskRegistry, TaskOpsProofs

Inv == TypeOK /\ NoSharedSlot /\ SelectionOnHardware

LEMMA InvIsSound == Inv <=> Sound(reg) /\ updated \in [Wrappers -> Nat]
BY DEF Inv, TypeOK, NoSharedSlot, SelectionOnHardware, Sound

\* nextUpdatedAt is a timestamp, later than the previous one.
LEMMA NextUpdatedAtLater ==
  ASSUME NEW previous \in Nat, NEW floor \in Nat, NEW t \in Nat
  PROVE  /\ NextUpdatedAt(previous, floor, t) \in Nat
         /\ NextUpdatedAt(previous, floor, t) > previous
         /\ NextUpdatedAt(previous, floor, t) >= floor
BY DEF NextUpdatedAt, Later

\* A stamped task keeps the others' revisions.
LEMMA StampKeepsType ==
  ASSUME updated \in [Wrappers -> Nat],
         NEW w \in Wrappers, NEW floor \in Nat, NEW t \in Times,
         Stamp(w, floor, t)
  PROVE  updated' \in [Wrappers -> Nat]
BY NextUpdatedAtLater, TimesAssumption DEF Stamp

\* The initial registry is empty.
LEMMA InitInv == Init => Inv
<1> SUFFICES ASSUME Init PROVE Inv
  OBVIOUS
<1>1. Registered(reg) = {} /\ reg \in Registry /\ reg.selected = None
  BY DEF Init, EmptyRegistry, Registered, Registry
<1>2. updated \in [Wrappers -> Nat]
  BY DEF Init
<1>3. QED
  BY <1>1, <1>2 DEF Inv, TypeOK, NoSharedSlot, SelectionOnHardware,
                    SlotsUnshared, SelectionInSlot

\* Every method preserves the three invariants.
LEMMA NextInv == Inv /\ [Next]_vars => Inv'
<1> SUFFICES ASSUME Sound(reg), updated \in [Wrappers -> Nat], [Next]_vars
             PROVE  Sound(reg') /\ updated' \in [Wrappers -> Nat]
  BY InvIsSound DEF Inv, TypeOK, NoSharedSlot, SelectionOnHardware, Sound
<1>1. ASSUME NEW w \in Wrappers, NEW t \in Times,
             NEW want \in {AnySlot, NoSlot} \cup Slots, NEW rec \in Snapshots \cup {None},
             NEW cached \in 0 .. MaxStamp, RegisterFirst(w, want, rec, cached, t)
      PROVE  Sound(reg') /\ updated' \in [Wrappers -> Nat]
  <2>1. Sound(reg')
    <3>1. w \notin Registered(reg) /\ SlotGranted(reg, w, want)
          /\ reg' = Register(reg, w, want, rec, FALSE)
      BY <1>1 DEF RegisterFirst
    <3>2. rec \in Recovery \cup {None}
      BY SnapshotsAssumption
    <3>3. QED BY <3>1, <3>2, RegisterSound
  <2>2. PICK next : updated' = [updated EXCEPT ![w] = next]
                    /\ (next \in {t, cached} \/ next \in {NextUpdatedAt(t, 0, t),
                                                        NextUpdatedAt(cached, 0, t)})
    BY <1>1 DEF RegisterFirst
  <2>3. next \in Nat
    <3>1. t \in Nat /\ cached \in Nat /\ 0 \in Nat
      BY TimesAssumption, MaxStampAssumption
    <3>2. NextUpdatedAt(t, 0, t) \in Nat /\ NextUpdatedAt(cached, 0, t) \in Nat
      BY <3>1, NextUpdatedAtLater
    <3>3. QED BY <2>2, <3>1, <3>2
  <2>4. QED BY <2>1, <2>2, <2>3
<1>2. ASSUME NEW w \in Wrappers, NEW t \in Times,
             NEW want \in {AnySlot, NoSlot} \cup Slots, NEW rec \in Snapshots \cup {None},
             NEW cached \in 0 .. MaxStamp, ReRegister(w, want, rec, cached, t)
      PROVE  Sound(reg') /\ updated' \in [Wrappers -> Nat]
  <2> DEFINE newer == rec # None /\ cached > updated[w]
             floor == IF newer THEN cached ELSE 0
  <2>1. /\ w \in Registered(reg) /\ SlotGranted(reg, w, want)
        /\ want = NoSlot => reg.tasks[w].slot = NoSlot
        /\ reg' = Register(reg, w, want, rec, newer)
        /\ Stamp(w, floor, t)
    BY <1>2 DEF ReRegister
  <2>2. newer \in BOOLEAN /\ floor \in Nat
    BY MaxStampAssumption
  <2>3. rec \in Recovery \cup {None}
    BY SnapshotsAssumption
  <2> HIDE DEF newer, floor
  <2>4. Sound(reg')
    BY <2>1, <2>2, <2>3, RegisterSound
  <2>5. updated' \in [Wrappers -> Nat]
    BY <2>1, <2>2, StampKeepsType
  <2>6. QED BY <2>4, <2>5
<1>3. ASSUME NEW w \in Wrappers, NEW t \in Times, UnregisterTask(w, t)
      PROVE  Sound(reg') /\ updated' \in [Wrappers -> Nat]
  <2>1. Sound(reg')
    BY <1>3, UnregisterSound DEF UnregisterTask
  <2>2. reg'.selected \in Wrappers \cup {None}
    BY <2>1 DEF Sound, Registry
  <2>3. CASE reg.selected = w /\ reg'.selected # None
    <3> DEFINE next == reg'.selected
    <3>1. updated' = [[updated EXCEPT ![w] = 0]
                        EXCEPT ![next] = NextUpdatedAt([updated EXCEPT ![w] = 0][next], 0, t)]
      BY <1>3, <2>3 DEF UnregisterTask
    <3>2. [updated EXCEPT ![w] = 0] \in [Wrappers -> Nat] /\ next \in Wrappers
      BY <2>2, <2>3
    <3> HIDE DEF next
    <3>3. NextUpdatedAt([updated EXCEPT ![w] = 0][next], 0, t) \in Nat
      BY <3>2, NextUpdatedAtLater, TimesAssumption
    <3>4. QED BY <2>1, <3>1, <3>2, <3>3
  <2>4. CASE ~(reg.selected = w /\ reg'.selected # None)
    BY <1>3, <2>1, <2>4 DEF UnregisterTask
  <2>5. QED BY <2>3, <2>4
<1>4. ASSUME NEW w \in Wrappers, NEW t \in Times, NEW state \in ReportedStates,
             NEW s \in Sessions \cup {None}, SetState(w, state, s, t)
      PROVE  Sound(reg') /\ updated' \in [Wrappers -> Nat]
  BY <1>4, ApplyStateSound, StampKeepsType, ReportedAssumption DEF SetState
<1>5. ASSUME NEW w \in Wrappers, NEW t \in Times, NEW s \in Sessions, EndSession(w, s, t)
      PROVE  Sound(reg') /\ updated' \in [Wrappers -> Nat]
  BY <1>5, ClearSessionSound, StampKeepsType DEF EndSession
<1>6. ASSUME NEW w \in Wrappers, NEW t \in Times, Disconnect(w, t)
      PROVE  Sound(reg') /\ updated' \in [Wrappers -> Nat]
  <2>1. Sound(reg')
    BY <1>6, MarkDisconnectedSound DEF Disconnect
  <2>2. \A v \in Wrappers : NextUpdatedAt(updated[v], 0, t) \in Nat
    BY NextUpdatedAtLater, TimesAssumption
  <2>3. updated' \in [Wrappers -> Nat]
    BY <1>6, <2>2 DEF Disconnect
  <2>4. QED BY <2>1, <2>3
<1>7. ASSUME NEW w \in Wrappers, NEW t \in Times,
             NEW conn \in {"connected", "reconnecting"}, SetConnection(w, conn, t)
      PROVE  Sound(reg') /\ updated' \in [Wrappers -> Nat]
  BY <1>7, MarkConnectionSound, StampKeepsType DEF SetConnection
<1>8. ASSUME NEW w \in Selectable(reg), NEW t \in Times,
             reg' = SelectRecord(reg, w), Stamp(w, 0, t)
      PROVE  Sound(reg') /\ updated' \in [Wrappers -> Nat]
  <2>1. w \in Wrappers
    BY DEF Selectable, Candidates, Registered
  <2>2. QED BY <1>8, <2>1, SelectRecordSound, StampKeepsType
<1>9. ASSUME NEW w \in Wrappers, NEW t \in Times, SelectWrapper(w, t)
      PROVE  Sound(reg') /\ updated' \in [Wrappers -> Nat]
  BY <1>8, <1>9 DEF SelectWrapper
<1>10. ASSUME NEW t \in Times, NEW s \in Slots, SelectSlot(s, t)
       PROVE  Sound(reg') /\ updated' \in [Wrappers -> Nat]
  BY <1>8, <1>10 DEF SelectSlot
<1>11. ASSUME NEW t \in Times, NEW delta \in {1, -1}, SelectRelative(delta, t)
       PROVE  Sound(reg') /\ updated' \in [Wrappers -> Nat]
  <2>1. RelativeTarget(reg, delta) \in Selectable(reg)
    BY <1>11, RelativeTargetSelectable DEF SelectRelative, Sound
  <2>2. QED BY <1>8, <1>11, <2>1 DEF SelectRelative
<1>12. ASSUME NEW w \in Wrappers, NEW gone \in Wrappers, Promote(w, gone)
       PROVE  Sound(reg') /\ updated' \in [Wrappers -> Nat]
  BY <1>12, WithoutProcessSound, RestoreSound DEF Promote
<1>13. CASE UNCHANGED vars
  <2>1. reg' = reg /\ updated' = updated
    BY <1>13 DEF vars
  <2>2. QED BY <2>1
<1>14. QED
  <2>1. \A rec \in Snapshots \cup {None} :
          (IF rec = None THEN {0} ELSE 0 .. MaxStamp) \subseteq 0 .. MaxStamp
    BY MaxStampAssumption
  <2>2. QED BY <2>1, <1>1, <1>2, <1>3, <1>4, <1>5, <1>6, <1>7, <1>9, <1>10, <1>11, <1>12, <1>13
            DEF Next

\* The registry's types, its unshared slots and its selection hold in every
\* reachable state.
THEOREM RegistryInvariant == Spec => []Inv
<1>1. Init => Inv              BY InitInv
<1>2. Inv /\ [Next]_vars => Inv'  BY NextInv
<1>3. QED BY <1>1, <1>2, PTL DEF Spec

\* Every reachable registry is well typed.
THEOREM TypeCorrect == Spec => []TypeOK
<1>1. Inv => TypeOK  BY DEF Inv
<1>2. QED BY <1>1, RegistryInvariant, PTL

\* An Agent key never stands for two tasks (state.ts, allocateSlot/register).
THEOREM SlotsNeverShared == Spec => []NoSharedSlot
<1>1. Inv => NoSharedSlot  BY DEF Inv
<1>2. QED BY <1>1, RegistryInvariant, PTL

\* The selection is never a task that is gone, nor one without a slot
\* (state.ts, selectFallback/restore/unregister).
THEOREM SelectionAlwaysOnHardware == Spec => []SelectionOnHardware
<1>1. Inv => SelectionOnHardware  BY DEF Inv
<1>2. QED BY <1>1, RegistryInvariant, PTL

-----------------------------------------------------------------------------
(***************************************************************************)
(* Revisions.                                                              *)
(***************************************************************************)
\* A stamped task is later than it was, and no other task's revision moves.
LEMMA StampRaises ==
  ASSUME updated \in [Wrappers -> Nat],
         NEW w \in Wrappers, NEW floor \in Nat, NEW t \in Times,
         Stamp(w, floor, t)
  PROVE  /\ updated' \in [Wrappers -> Nat]
         /\ updated'[w] > updated[w] /\ updated'[w] >= floor
         /\ \A u \in Wrappers \ {w} : updated'[u] = updated[u]
BY NextUpdatedAtLater, TimesAssumption DEF Stamp

\* What a method writes to w is written to no other task.
LEMMA SetTaskElsewhere ==
  ASSUME NEW r \in Registry, NEW w \in Wrappers, NEW t,
         NEW v \in Wrappers \ {w}
  PROVE  SetTask(r, w, t).tasks[v] = r.tasks[v]
         /\ SetTask(r, w, t).selected = r.selected
BY DEF SetTask, Registry

\* The condition RevisionOnChange puts on one task.
Revised(v) ==
  /\ updated'[v] >= updated[v]
  /\ \/ reg'.tasks[v] = reg.tasks[v] /\ (reg'.selected = v => reg.selected = v)
     \/ updated'[v] > updated[v]
     \/ Promoting

\* A method that writes one task, may select it, and stamps it, is covered.
LEMMA OneTaskRevised ==
  ASSUME reg \in Registry, NEW w \in Wrappers, NEW t,
         reg'.tasks = SetTask(reg, w, t).tasks,
         reg'.selected \in {reg.selected, w},
         updated \in [Wrappers -> Nat], updated' \in [Wrappers -> Nat],
         updated'[w] > updated[w], \A u \in Wrappers \ {w} : updated'[u] = updated[u],
         NEW v \in Wrappers
  PROVE  Revised(v)
<1>1. CASE v = w
  BY <1>1 DEF Revised
<1>2. CASE v # w
  BY <1>2, SetTaskElsewhere DEF Revised
<1>3. QED BY <1>1, <1>2

\* Shapes of the methods: one task written, and at most that task selected.
LEMMA WriteAndSelectShape ==
  ASSUME reg \in Registry, NEW w, NEW t, NEW takes, NEW q,
         q = IF takes THEN [SetTask(reg, w, t) EXCEPT !.selected = w] ELSE SetTask(reg, w, t)
  PROVE  q.tasks = SetTask(reg, w, t).tasks /\ q.selected \in {reg.selected, w}
BY DEF SetTask, Registry

\* register, of a known wrapper or a new one.
LEMMA RegisterShape ==
  ASSUME reg \in Registry, NEW w, NEW want, NEW rec, NEW newer
  PROVE  LET q == Register(reg, w, want, rec, newer)
         IN \E t : q.tasks = SetTask(reg, w, t).tasks /\ q.selected \in {reg.selected, w}
<1>1. CASE w \in Registered(reg)
  <2> DEFINE task  == reg.tasks[w]
             merge == rec # None /\ newer
             from  == IF merge THEN rec ELSE task
             slot  == IF want = AnySlot THEN task.slot ELSE want
             takes == slot # NoSlot /\ (reg.selected = None \/ (merge /\ rec.selected))
             t     == [slot |-> slot, state |-> from.state, conn |-> "connected",
                       unread |-> from.unread, session |-> from.session]
  <2>1. Register(reg, w, want, rec, newer)
          = IF takes THEN [SetTask(reg, w, t) EXCEPT !.selected = w] ELSE SetTask(reg, w, t)
    BY <1>1 DEF Register, RegisterAgain
  <2> HIDE DEF takes, t
  <2>2. QED BY <2>1, WriteAndSelectShape
<1>2. CASE w \notin Registered(reg)
  <2> DEFINE slot  == AllocateSlot(reg, want)
             takes == slot # NoSlot /\ (reg.selected = None \/ (rec # None /\ rec.selected))
             t     == [slot    |-> slot,
                       state   |-> IF rec = None THEN "idle" ELSE rec.state,
                       conn    |-> "connected",
                       unread  |-> rec # None /\ rec.unread,
                       session |-> IF rec = None THEN None ELSE rec.session]
  <2>1. Register(reg, w, want, rec, newer)
          = IF takes THEN [SetTask(reg, w, t) EXCEPT !.selected = w] ELSE SetTask(reg, w, t)
    BY <1>2 DEF Register, RegisterNew
  <2> HIDE DEF takes, t
  <2>2. QED BY <2>1, WriteAndSelectShape
<1>3. QED BY <1>1, <1>2

\* One step, one task that stays registered.
LEMMA StepRevises ==
  Inv /\ Next => \A v \in Kept : Revised(v)
<1> SUFFICES ASSUME Sound(reg), updated \in [Wrappers -> Nat], Next,
                    NEW v \in Registered(reg), v \in Registered(reg')
             PROVE  Revised(v)
  BY InvIsSound DEF Kept
<1>0. reg \in Registry /\ v \in Wrappers
  BY DEF Sound, Registered
<1>1. ASSUME NEW w \in Wrappers, NEW t \in Times, NEW want, NEW rec, NEW cached,
             RegisterFirst(w, want, rec, cached, t)
      PROVE  Revised(v)
  <2> DEFINE newer == FALSE
  <2>1. w \in Wrappers \ Registered(reg) /\ reg' = Register(reg, w, want, rec, newer)
    BY <1>1 DEF RegisterFirst
  <2> HIDE DEF newer
  <2>2. PICK task : /\ reg'.tasks = SetTask(reg, w, task).tasks
                    /\ reg'.selected \in {reg.selected, w}
    BY <1>0, <2>1, RegisterShape
  <2>3. v # w
    BY <2>1
  <2>4. updated'[v] = updated[v]
    BY <1>0, <1>1, <2>3 DEF RegisterFirst
  <2>5. /\ reg'.tasks[v] = reg.tasks[v]
        /\ reg'.selected = v => reg.selected = v
    BY <1>0, <2>2, <2>3, SetTaskElsewhere
  <2>6. QED BY <1>0, <2>4, <2>5 DEF Revised
<1>2. ASSUME NEW w \in Wrappers, NEW t \in Times, NEW want, NEW rec,
             NEW cached \in 0 .. MaxStamp, ReRegister(w, want, rec, cached, t)
      PROVE  Revised(v)
  <2> DEFINE newer == rec # None /\ cached > updated[w]
             floor == IF newer THEN cached ELSE 0
  <2>1. /\ w \in Registered(reg) /\ reg' = Register(reg, w, want, rec, newer)
        /\ Stamp(w, floor, t)
    BY <1>2 DEF ReRegister
  <2>2. floor \in Nat
    BY MaxStampAssumption
  <2> HIDE DEF newer, floor
  <2>3. /\ updated' \in [Wrappers -> Nat] /\ updated'[w] > updated[w]
        /\ \A u \in Wrappers \ {w} : updated'[u] = updated[u]
    BY <2>1, <2>2, StampRaises
  <2>4. PICK task : /\ reg'.tasks = SetTask(reg, w, task).tasks
                    /\ reg'.selected \in {reg.selected, w}
    BY <1>0, <2>1, RegisterShape
  <2>5. QED BY <1>0, <2>3, <2>4, OneTaskRevised
<1>3. ASSUME NEW w \in Wrappers, NEW t \in Times, UnregisterTask(w, t)
      PROVE  Revised(v)
  <2> DEFINE rest == SetTask(reg, w, None)
  <2>1. reg' = IF reg.selected = w THEN SelectFallback(rest, {}) ELSE rest
    BY <1>3 DEF UnregisterTask, Unregister
  <2>2. rest \in Registry /\ rest.selected = reg.selected /\ rest.tasks[w] = None
    BY <1>0, <1>3, RemoveUnshared DEF SetTask, Registry
  <2>3. reg'.tasks = rest.tasks /\ (reg.selected # w => reg'.selected = reg.selected)
    <3> HIDE DEF rest
    <3>1. QED BY <2>1, <2>2 DEF SelectFallback, Registry
  <2>4. v # w
    BY <2>2, <2>3 DEF Registered
  <2>5. reg'.tasks[v] = reg.tasks[v]
    BY <1>0, <2>3, <2>4, SetTaskElsewhere
  <2>6. CASE reg.selected = w /\ reg'.selected = v
    <3>1. v # None
      BY <1>0, NoneAssumption
    <3>2. updated' = [[updated EXCEPT ![w] = 0]
                        EXCEPT ![v] = NextUpdatedAt([updated EXCEPT ![w] = 0][v], 0, t)]
      BY <1>3, <2>6, <3>1 DEF UnregisterTask
    <3>3. updated'[v] = NextUpdatedAt(updated[v], 0, t)
      BY <1>0, <2>4, <3>2
    <3>4. updated'[v] \in Nat /\ updated'[v] > updated[v]
      BY <1>0, <3>3, NextUpdatedAtLater, TimesAssumption
    <3>5. QED BY <1>0, <3>4 DEF Revised
  <2>7. CASE ~(reg.selected = w /\ reg'.selected = v)
    <3>1. updated'[v] = updated[v]
      BY <1>0, <1>3, <2>4, <2>7 DEF UnregisterTask
    <3>2. QED BY <1>0, <2>3, <2>5, <2>7, <3>1 DEF Revised
  <2>8. QED BY <2>6, <2>7
<1>4. ASSUME NEW w \in Wrappers, NEW t \in Times, NEW task,
             reg' = SetTask(reg, w, task), Stamp(w, 0, t)
      PROVE  Revised(v)
  <2>1. /\ updated' \in [Wrappers -> Nat] /\ updated'[w] > updated[w]
        /\ \A u \in Wrappers \ {w} : updated'[u] = updated[u]
    BY <1>4, StampRaises
  <2>2. reg'.selected = reg.selected
    BY <1>0, <1>4 DEF SetTask, Registry
  <2>3. QED BY <1>0, <1>4, <2>1, <2>2, OneTaskRevised
<1>5. ASSUME NEW w \in Wrappers, NEW t \in Times, NEW state, NEW s, SetState(w, state, s, t)
      PROVE  Revised(v)
  BY <1>4, <1>5 DEF SetState, ApplyState
<1>6. ASSUME NEW w \in Wrappers, NEW t \in Times, NEW s, EndSession(w, s, t)
      PROVE  Revised(v)
  BY <1>4, <1>6 DEF EndSession, ClearSession
<1>7. ASSUME NEW w \in Wrappers, NEW t \in Times, NEW conn, SetConnection(w, conn, t)
      PROVE  Revised(v)
  BY <1>4, <1>7 DEF SetConnection, MarkConnection
<1>8. ASSUME NEW w \in Wrappers, NEW t \in Times, Disconnect(w, t)
      PROVE  Revised(v)
  <2> DEFINE task  == [reg.tasks[w] EXCEPT !.state = "disconnected", !.conn = "reconnecting"]
             gone  == SetTask(reg, w, task)
             moved == reg.selected = w /\ reg'.selected # None
  <2>1. reg' = IF reg.selected = w THEN SelectFallback(gone, {w}) ELSE gone
    BY <1>8 DEF Disconnect, MarkDisconnected
  <2>2. reg'.tasks = gone.tasks /\ (reg.selected # w => reg'.selected = reg.selected)
    BY <1>0, <2>1 DEF SelectFallback, SetTask, Registry
  <2>3. updated' = [u \in Wrappers |-> IF u = w \/ (moved /\ u = reg'.selected)
                                         THEN NextUpdatedAt(updated[u], 0, t) ELSE updated[u]]
    BY <1>8 DEF Disconnect
  <2>4. NextUpdatedAt(updated[v], 0, t) \in Nat /\ NextUpdatedAt(updated[v], 0, t) > updated[v]
    BY <1>0, NextUpdatedAtLater, TimesAssumption
  <2>5. CASE v = w \/ (moved /\ v = reg'.selected)
    BY <1>0, <2>3, <2>4, <2>5 DEF Revised
  <2>6. CASE v # w /\ ~(moved /\ v = reg'.selected)
    <3>1. reg'.tasks[v] = reg.tasks[v]
      <4> HIDE DEF task
      <4>1. QED BY <1>0, <2>2, <2>6, SetTaskElsewhere
    <3>2. reg'.selected = v => reg.selected = v
      BY <1>0, <2>2, <2>6, NoneAssumption
    <3>3. updated'[v] = updated[v]
      BY <1>0, <2>3, <2>6
    <3>4. QED BY <1>0, <3>1, <3>2, <3>3 DEF Revised
  <2>7. QED BY <2>5, <2>6
<1>9. ASSUME NEW w \in Wrappers, NEW t \in Times, reg' = SelectRecord(reg, w), Stamp(w, 0, t)
      PROVE  Revised(v)
  <2> DEFINE seen == [reg.tasks[w] EXCEPT !.unread = FALSE,
                                          !.state = IF @ = "complete" THEN "idle" ELSE @]
  <2>1. reg' = [SetTask(reg, w, seen) EXCEPT !.selected = w]
    BY <1>9 DEF SelectRecord
  <2> HIDE DEF seen
  <2>2. reg'.tasks = SetTask(reg, w, seen).tasks /\ reg'.selected = w
    BY <1>0, <2>1 DEF SetTask, Registry
  <2>3. /\ updated' \in [Wrappers -> Nat] /\ updated'[w] > updated[w]
        /\ \A u \in Wrappers \ {w} : updated'[u] = updated[u]
    BY <1>9, StampRaises
  <2>4. QED BY <1>0, <2>2, <2>3, OneTaskRevised
<1>10. \A w \in Selectable(reg) : w \in Wrappers
  BY DEF Selectable, Candidates, Registered
<1>11. ASSUME NEW w \in Wrappers, NEW t \in Times, SelectWrapper(w, t)
       PROVE  Revised(v)
  BY <1>9, <1>11 DEF SelectWrapper
<1>12. ASSUME NEW t \in Times, NEW s \in Slots, SelectSlot(s, t)
       PROVE  Revised(v)
  BY <1>9, <1>10, <1>12 DEF SelectSlot
<1>13. ASSUME NEW t \in Times, NEW delta \in {1, -1}, SelectRelative(delta, t)
       PROVE  Revised(v)
  <2>1. RelativeTarget(reg, delta) \in Selectable(reg)
    BY <1>0, <1>13, RelativeTargetSelectable DEF SelectRelative
  <2>2. QED BY <1>9, <1>10, <1>13, <2>1 DEF SelectRelative
<1>14. \A rec \in Snapshots \cup {None} :
         (IF rec = None THEN {0} ELSE 0 .. MaxStamp) \subseteq 0 .. MaxStamp
  BY MaxStampAssumption
<1>15. ASSUME NEW w \in Wrappers, NEW gone \in Wrappers, Promote(w, gone)
       PROVE  Revised(v)
  <2>1. Promoting
    BY <1>15 DEF Promoting
  <2> DEFINE status == WithoutProcess(reg, gone)
  <2>2. v # gone
    <3>1. reg' = Restore(status, w)
      BY <1>15 DEF Promote
    <3>2. status.tasks[gone] = None
      BY <1>0 DEF WithoutProcess, SetTask, Registry
    <3> HIDE DEF status
    <3>3. reg'.tasks[gone] = None
      BY <3>1, <3>2 DEF Restore
    <3>4. QED BY <3>3 DEF Registered
  <2>3. updated'[v] = updated[v]
    BY <1>0, <1>15, <2>2 DEF Promote
  <2>4. QED BY <1>0, <2>1, <2>3 DEF Revised
<1>16. QED
  BY <1>14, <1>1, <1>2, <1>3, <1>5, <1>6, <1>7, <1>8, <1>11, <1>12, <1>13, <1>15 DEF Next

\* A revision stands for one record of a task, and for one gain of the
\* selection, whatever the clock reads (state.ts, nextUpdatedAt).
THEOREM RevisionsStampRecords == Spec => RevisionOnChange
<1>1. Inv /\ [Next]_vars =>
        [\A w \in Kept :
           /\ updated'[w] >= updated[w]
           /\ \/ reg'.tasks[w] = reg.tasks[w] /\ (reg'.selected = w => reg.selected = w)
              \/ updated'[w] > updated[w]
              \/ Promoting]_vars
  BY StepRevises DEF Revised
<1>2. QED BY <1>1, RegistryInvariant, PTL DEF Spec, RevisionOnChange

-----------------------------------------------------------------------------
(***************************************************************************)
(* The selection.                                                          *)
(***************************************************************************)
\* A fallback that finds nobody had nobody to find.
LEMMA FallbackFindsAll ==
  ASSUME NEW r \in Registry, NEW exclude, NEW inc \in BOOLEAN, NEW q,
         q = [r EXCEPT !.selected = FallbackWrapper(r, exclude, inc)], q.selected = None
  PROVE  q.tasks = r.tasks /\ Candidates(q, exclude, inc) = {}
<1>1. q.tasks = r.tasks /\ FallbackWrapper(r, exclude, inc) = None
  BY DEF Registry
<1>2. Candidates(r, exclude, inc) \subseteq Wrappers
  BY DEF Candidates, Registered
<1>3. Candidates(r, exclude, inc) = {}
  BY <1>1, <1>2, FallbackIsCandidate, NoneAssumption
<1> QED
  BY <1>1, <1>3 DEF Candidates, Registered

\* A step that leaves nobody selected leaves nobody to select.
LEMMA SelectionLeaves ==
  ASSUME Inv, Next, reg.selected # None, reg'.selected = None
  PROVE  Selectable(reg') = {}
<1>1. Sound(reg) /\ reg \in Registry
  BY InvIsSound DEF Sound
<1>2. ASSUME NEW w \in Wrappers, NEW want, NEW rec, NEW newer,
             reg' = Register(reg, w, want, rec, newer)
      PROVE  FALSE
  <2>1. reg'.selected \in {reg.selected, w}
    BY <1>1, <1>2, RegisterShape
  <2> QED
    BY <2>1, NoneAssumption
<1>3. ASSUME NEW w \in Wrappers, NEW task, reg' = SetTask(reg, w, task) PROVE FALSE
  BY <1>1, <1>3 DEF SetTask, Registry
<1>4. ASSUME NEW w \in Wrappers, reg' = SelectRecord(reg, w) PROVE FALSE
  <2>1. reg'.selected = w
    BY <1>1, <1>4 DEF SelectRecord, SetTask, Registry
  <2> QED
    BY <2>1, NoneAssumption
<1>5. ASSUME NEW w \in Wrappers, NEW t \in Times, UnregisterTask(w, t)
      PROVE  Selectable(reg') = {}
  <2> DEFINE rest == SetTask(reg, w, None)
  <2>1. reg' = IF reg.selected = w THEN SelectFallback(rest, {}) ELSE rest
    BY <1>5 DEF UnregisterTask, Unregister
  <2>2. rest \in Registry
    BY <1>1, RemoveUnshared
  <2> HIDE DEF rest
  <2>3. reg' = [rest EXCEPT !.selected = FallbackWrapper(rest, {}, FALSE)]
    BY <1>3, <2>1 DEF SelectFallback, rest
  <2> QED
    BY <2>2, <2>3, FallbackFindsAll DEF Selectable
<1>6. ASSUME NEW w \in Wrappers, NEW t \in Times, Disconnect(w, t)
      PROVE  Selectable(reg') = {}
  <2> DEFINE task == [reg.tasks[w] EXCEPT !.state = "disconnected", !.conn = "reconnecting"]
             gone == SetTask(reg, w, task)
  <2>1. w \in Registered(reg)
        /\ reg' = IF reg.selected = w THEN SelectFallback(gone, {w}) ELSE gone
    BY <1>6 DEF Disconnect, MarkDisconnected
  <2>2. reg.tasks[w] \in Task
    BY <1>1, <2>1, SlotRange
  <2>3. task \in Task /\ task.conn = "reconnecting" /\ task.slot = reg.tasks[w].slot
    BY <2>2 DEF Task, TaskStates
  <2> HIDE DEF task
  <2>4. gone \in Registry /\ gone.tasks[w] = task
    BY <1>1, <2>1, <2>3, SetTaskSound DEF Sound
  <2> HIDE DEF gone
  <2>5. reg' = [gone EXCEPT !.selected = FallbackWrapper(gone, {w}, FALSE)]
    BY <1>3, <2>1 DEF SelectFallback, gone
  <2>6. reg'.tasks = gone.tasks /\ Candidates(reg', {w}, FALSE) = {}
    BY <2>4, <2>5, FallbackFindsAll
  <2>7. reg'.tasks[w].conn # "connected"
    BY <2>3, <2>4, <2>6
  <2> QED
    BY <2>6, <2>7 DEF Selectable, Candidates
<1>7. ASSUME NEW w \in Wrappers, NEW gone \in Wrappers, Promote(w, gone)
      PROVE  Selectable(reg') = {}
  <2>1. PICK r : r = WithoutProcess(reg, gone) /\ reg' = Restore(r, w)
    BY <1>7 DEF Promote
  <2>2. Sound(r)
    BY <1>1, <2>1, WithoutProcessSound
  <2>3. PICK q \in Registry : Rewritten(q, r, w)
    BY <2>2, RestoreRewrites
  <2>4. reg' = [q EXCEPT !.selected = FallbackWrapper(q, {}, TRUE)]
    BY <2>1, <2>3, NoneAssumption DEF Registered, Rewritten
  <2>5. Candidates(reg', {}, TRUE) = {}
    BY <2>4, FallbackFindsAll
  <2> QED
    BY <2>5 DEF Selectable, Candidates
<1>8. \A w \in Selectable(reg) : w \in Wrappers
  BY DEF Selectable, Candidates, Registered
<1>9. ASSUME NEW t \in Times, NEW delta \in {1, -1}, SelectRelative(delta, t) PROVE FALSE
  <2>1. RelativeTarget(reg, delta) \in Selectable(reg)
    BY <1>1, <1>9, RelativeTargetSelectable DEF SelectRelative
  <2> QED
    BY <1>4, <1>8, <1>9, <2>1 DEF SelectRelative
<1>10. ASSUME NEW w \in Wrappers, NEW t, NEW state, NEW s, SetState(w, state, s, t)
       PROVE  FALSE
  BY <1>3, <1>10 DEF SetState, ApplyState
<1>11. ASSUME NEW w \in Wrappers, NEW t, NEW s, EndSession(w, s, t) PROVE FALSE
  BY <1>3, <1>11 DEF EndSession, ClearSession
<1>12. ASSUME NEW w \in Wrappers, NEW t, NEW conn, SetConnection(w, conn, t) PROVE FALSE
  BY <1>3, <1>12 DEF SetConnection, MarkConnection
<1>13. ASSUME NEW w \in Wrappers, NEW t, SelectWrapper(w, t) PROVE FALSE
  BY <1>4, <1>13 DEF SelectWrapper
<1>14. ASSUME NEW t \in Times, NEW s \in Slots, SelectSlot(s, t) PROVE FALSE
  BY <1>4, <1>8, <1>14 DEF SelectSlot
<1>15. ASSUME NEW w \in Wrappers, NEW want, NEW rec, NEW cached, NEW t,
              RegisterFirst(w, want, rec, cached, t) \/ ReRegister(w, want, rec, cached, t)
       PROVE  FALSE
  BY <1>2, <1>15 DEF RegisterFirst, ReRegister
<1> QED
  BY <1>5, <1>6, <1>7, <1>9, <1>10, <1>11, <1>12, <1>13, <1>14, <1>15
     DEF Next

\* An exit, a disconnection or a promotion leaves the board without a selection
\* only when there is nobody to select (state.ts, selectFallback).
THEOREM SelectionNeverDropped == Spec => SelectionLostOnlyWhenEmpty
<1>1. Inv /\ [Next]_vars =>
        [reg.selected # None /\ reg'.selected = None => Selectable(reg') = {}]_vars
  BY SelectionLeaves DEF vars
<1> QED
  BY <1>1, RegistryInvariant, PTL DEF Spec, SelectionLostOnlyWhenEmpty

-----------------------------------------------------------------------------
(***************************************************************************)
(* A registration that arrives twice.                                      *)
(***************************************************************************)
\* A registration leaves a revision that its snapshot does not exceed.
LEMMA CopyNotNewer ==
  ASSUME Inv, NEW w \in Wrappers, NEW want, NEW rec, rec # None,
         NEW cached \in 0 .. MaxStamp, NEW t \in Times,
         RegisterFirst(w, want, rec, cached, t) \/ ReRegister(w, want, rec, cached, t)
  PROVE  ~(cached > updated'[w])
<1>1. cached \in Nat /\ t \in Nat /\ 0 \in Nat /\ updated \in [Wrappers -> Nat]
  BY MaxStampAssumption, TimesAssumption DEF Inv, TypeOK
<1>2. CASE RegisterFirst(w, want, rec, cached, t)
  <2>1. PICK next \in {cached, NextUpdatedAt(cached, 0, t)} :
          updated' = [updated EXCEPT ![w] = next]
    BY <1>2 DEF RegisterFirst
  <2>2. /\ NextUpdatedAt(cached, 0, t) \in Nat
        /\ NextUpdatedAt(cached, 0, t) > cached
    BY <1>1, NextUpdatedAtLater
  <2> QED
    BY <1>1, <2>1, <2>2
<1>3. CASE ReRegister(w, want, rec, cached, t)
  <2> DEFINE floor == IF cached > updated[w] THEN cached ELSE 0
  <2>1. Stamp(w, floor, t) /\ floor \in Nat
    BY <1>1, <1>3 DEF ReRegister
  <2>2. updated[w] \in Nat /\ updated'[w] \in Nat
    <3> HIDE DEF floor
    <3> QED
      BY <1>1, <2>1, StampKeepsType
  <2>3. updated'[w] > updated[w] /\ updated'[w] >= floor
    <3> HIDE DEF floor
    <3> QED
      BY <1>1, <2>1, StampRaises
  <2> QED
    BY <1>1, <2>2, <2>3
<1> QED
  BY <1>2, <1>3

\* A copy that is not newer changes nothing of a connected task that keeps its
\* slot, where something is selected.
LEMMA OldCopyChangesNothing ==
  ASSUME NEW r \in Registry, NEW w \in Registered(r), r.tasks[w].conn = "connected",
         r.selected # None, NEW want \in {AnySlot, r.tasks[w].slot}, NEW rec,
         NEW newer \in BOOLEAN, rec = None \/ ~newer
  PROVE  Register(r, w, want, rec, newer) = r
<1> DEFINE task == r.tasks[w]
           same == [slot |-> task.slot, state |-> task.state, conn |-> "connected",
                    unread |-> task.unread, session |-> task.session]
<1>1. w \in Wrappers /\ task \in Task
  BY SlotRange DEF Registered
<1>2. task = same
  BY <1>1 DEF Task
<1>3. Register(r, w, want, rec, newer) = SetTask(r, w, same)
  BY DEF Register, RegisterAgain
<1>4. SetTask(r, w, task) = r
  BY <1>1 DEF SetTask, Registry
<1> QED
  BY <1>2, <1>3, <1>4

\* The registry between the registration and its copy: w's agent has reported,
\* and v was selected.
Between(r, w, state, v) == [ApplyState(r, w, state, None) EXCEPT !.selected = v]

\* It keeps w's slot and connection.
LEMMA ReportBetween ==
  ASSUME NEW r \in Registry, NEW w \in Registered(r), NEW state \in AgentStates,
         NEW v \in Wrappers
  PROVE  LET later == Between(r, w, state, v)
         IN /\ later \in Registry /\ w \in Registered(later) /\ later.selected = v
            /\ later.tasks[w].slot = r.tasks[w].slot
            /\ later.tasks[w].conn = r.tasks[w].conn
<1> DEFINE later == Between(r, w, state, v)
           task == r.tasks[w]
           told == [task EXCEPT !.state   = state,
                                !.unread  = state = "complete" \/ (state # "idle" /\ @),
                                !.session = IF None = None THEN @ ELSE None]
<1>1. w \in Wrappers /\ task \in Task
  BY SlotRange DEF Registered
<1>2. told \in Task /\ told.slot = task.slot /\ told.conn = task.conn
  <2> HIDE DEF task
  <2>1. (state = "complete" \/ (state # "idle" /\ task.unread)) \in BOOLEAN
    OBVIOUS
  <2> QED
    BY <1>1, <2>1 DEF Task, TaskStates
<1>3. ApplyState(r, w, state, None) = SetTask(r, w, told)
  BY DEF ApplyState
<1> HIDE DEF told
<1>4. later.tasks = [r.tasks EXCEPT ![w] = told] /\ later.selected = v /\ later \in Registry
  <2>1. PICK q : q = SetTask(r, w, told)
    OBVIOUS
  <2>2. q.tasks = [r.tasks EXCEPT ![w] = told] /\ q \in Registry
    BY <1>1, <1>2, <2>1 DEF SetTask, Registry
  <2>3. later = [q EXCEPT !.selected = v]
    BY <1>3, <2>1 DEF Between
  <2> HIDE DEF later
  <2> QED
    BY <2>2, <2>3 DEF Registry
<1> HIDE DEF later
<1>5. later.tasks[w] = told
  BY <1>1, <1>4 DEF Registry
<1>6. w \in Registered(later)
  BY <1>1, <1>2, <1>5, NoneIsNoTask DEF Registered
<1> QED
  BY <1>2, <1>4, <1>5, <1>6 DEF later

\* What LateCopyIsIgnored asks of a step that registered w.
CopyIgnored(w, want, rec, cached) ==
  \A state \in ReportedStates, v \in Registered(reg') :
    Register(Between(reg', w, state, v), w, want, rec, cached > updated'[w])
      = Between(reg', w, state, v)

\* A registration's copy is ignored.
LEMMA CopyIsIgnored ==
  ASSUME Inv, Inv', NEW w \in Registered(reg'), NEW want \in {AnySlot, reg'.tasks[w].slot},
         NEW rec \in Snapshots, NEW t \in Times, NEW cached \in 0 .. MaxStamp,
         RegisterFirst(w, want, rec, cached, t) \/ ReRegister(w, want, rec, cached, t)
  PROVE  CopyIgnored(w, want, rec, cached)
<1>1. Sound(reg) /\ Sound(reg') /\ reg' \in Registry /\ w \in Wrappers
  BY DEF Inv, TypeOK, NoSharedSlot, SelectionOnHardware, Sound, Registered
<1>2. reg'.tasks[w] \in Task
  BY <1>1 DEF Registry, Registered
<1>3. want \in {AnySlot, NoSlot} \cup Slots
  BY <1>2 DEF Task
<1>4. PICK newer \in BOOLEAN :
        /\ SlotGranted(reg, w, want)
        /\ w \in Registered(reg) /\ want = NoSlot => reg.tasks[w].slot = NoSlot
        /\ reg' = Register(reg, w, want, rec, newer)
  BY DEF RegisterFirst, ReRegister
<1>5. Connects(reg', reg, w)
  BY <1>1, <1>3, <1>4, RegisterSound, SnapshotsAssumption
<1>6. reg'.tasks[w].conn = "connected"
  BY <1>1, <1>5 DEF Connects, Sound, Registry
<1>7. rec = None \/ ~(cached > updated'[w])
  BY <1>1, CopyNotNewer
<1> DEFINE verdict == cached > updated'[w]
<1>8. verdict \in BOOLEAN /\ (rec = None \/ ~verdict)
  BY <1>7
<1> HIDE DEF verdict
<1> SUFFICES ASSUME NEW state \in ReportedStates, NEW v \in Registered(reg')
             PROVE  Register(Between(reg', w, state, v), w, want, rec, verdict)
                      = Between(reg', w, state, v)
  BY DEF CopyIgnored, verdict
<1>9. v \in Wrappers /\ v # None /\ state \in AgentStates
  BY ReportedAssumption, NoneAssumption DEF Registered
<1>10. PICK later : later = Between(reg', w, state, v)
  OBVIOUS
<1>11. /\ later \in Registry /\ w \in Registered(later) /\ later.selected = v
       /\ later.tasks[w].slot = reg'.tasks[w].slot /\ later.tasks[w].conn = "connected"
  BY <1>1, <1>6, <1>9, <1>10, ReportBetween
<1>12. want \in {AnySlot, later.tasks[w].slot} /\ later.selected # None
  BY <1>9, <1>11
<1>13. Register(later, w, want, rec, verdict) = later
  BY <1>8, <1>11, <1>12, OldCopyChangesNothing
<1> QED
  BY <1>10, <1>13

\* The second copy of a recovery registration reverts neither what the agent
\* reported nor what was selected since the first (state.ts, register).
THEOREM CopiesAreIgnored == Spec => LateCopyIsIgnored
<1>1. Inv /\ [Next]_vars =>
        [\A w \in {v \in Registered(reg') : Concerned(v)} :
           \A want \in {AnySlot, reg'.tasks[w].slot}, rec \in Snapshots, t \in Times :
             \A cached \in 0 .. MaxStamp :
               RegisterFirst(w, want, rec, cached, t) \/ ReRegister(w, want, rec, cached, t)
                 => \A state \in ReportedStates, v \in Registered(reg') :
                      LET later == [ApplyState(reg', w, state, None) EXCEPT !.selected = v]
                      IN Register(later, w, want, rec, cached > updated'[w]) = later]_vars
  BY NextInv, CopyIsIgnored DEF CopyIgnored, Between
<1> QED
  BY <1>1, RegistryInvariant, PTL DEF Spec, LateCopyIsIgnored

-----------------------------------------------------------------------------
(***************************************************************************)
(* Navigation.  Right goes to the next selectable task by slot and from    *)
(* the last to the first; Left is Right over the slots counted down.  So   *)
(* both walk a ring: a set of places in which what is closed under "the    *)
(* next one" is everything, so that a walk visits a new place with every   *)
(* step until it has visited them all.                                     *)
(***************************************************************************)
\* w is next after a, or first when a is last.
Follows(S, pos, a, w) ==
  \/ pos[a] < pos[w] /\ \A v \in S : pos[v] > pos[a] => pos[v] >= pos[w]
  \/ (\A v \in S : pos[v] <= pos[a]) /\ (\A v \in S : pos[w] <= pos[v])

Placed(S, pos) == \A w \in S : pos[w] \in Int /\ -SlotCount <= pos[w] /\ pos[w] <= SlotCount

LEMMA EveryNatural ==
  ASSUME NEW T \in SUBSET Nat, 0 \in T, \A n \in T : n + 1 \in T
  PROVE  T = Nat
<1> DEFINE Missing == Nat \ T
<1>1. ASSUME Missing # {}
      PROVE  FALSE
  <2>1. PICK m \in Missing : \A n \in Missing : m <= n
    <3> HIDE DEF Missing
    <3>1. Missing \in SUBSET Nat  BY DEF Missing
    <3> QED BY <1>1, <3>1, LeastNatural
  <2>2. m \in Nat /\ m # 0
    OBVIOUS
  <2>3. m - 1 \in Nat /\ m - 1 \notin Missing
    BY <2>1, <2>2
  <2>4. m - 1 \in T /\ (m - 1) + 1 = m
    BY <2>2, <2>3
  <2> QED
    BY <2>4
<1> QED
  BY <1>1

LEMMA FirstPlace ==
  ASSUME NEW pos, NEW S, Placed(S, pos), S # {}
  PROVE  \E w \in S : \A v \in S : pos[w] <= pos[v]
<1> DEFINE T == {pos[w] + SlotCount : w \in S}
<1>1. T \in SUBSET Nat /\ T # {}
  BY SlotCountAssumption DEF Placed
<1>2. PICK m \in T : \A n \in T : m <= n
  <2> HIDE DEF T
  <2> QED BY <1>1, LeastNatural
<1>3. PICK w \in S : m = pos[w] + SlotCount
  OBVIOUS
<1>4. \A v \in S : m <= pos[v] + SlotCount
  BY <1>2
<1> QED
  BY <1>3, <1>4, SlotCountAssumption DEF Placed

LEMMA LastPlace ==
  ASSUME NEW pos, NEW S, Placed(S, pos), S # {}
  PROVE  \E w \in S : \A v \in S : pos[v] <= pos[w]
<1> DEFINE T == {SlotCount - pos[w] : w \in S}
<1>1. T \in SUBSET Nat /\ T # {}
  BY SlotCountAssumption DEF Placed
<1>2. PICK m \in T : \A n \in T : m <= n
  <2> HIDE DEF T
  <2> QED BY <1>1, LeastNatural
<1>3. PICK w \in S : m = SlotCount - pos[w]
  OBVIOUS
<1>4. \A v \in S : m <= SlotCount - pos[v]
  BY <1>2
<1> QED
  BY <1>3, <1>4, SlotCountAssumption DEF Placed

\* What has, with every place, the one that follows has them all.
LEMMA ClosedIsAll ==
  ASSUME NEW pos, NEW S, Placed(S, pos), NEW P \in SUBSET S, P # {},
         \A a \in P, w \in S : Follows(S, pos, a, w) => w \in P
  PROVE  P = S
<1>1. \A T \in SUBSET S : Placed(T, pos)
  BY DEF Placed
<1>2. PICK last \in P : \A v \in P : pos[v] <= pos[last]
  BY <1>1, LastPlace
<1>3. \A v \in S : pos[v] <= pos[last]
  <2> DEFINE Above == {v \in S : pos[v] > pos[last]}
  <2>1. ASSUME Above # {}
        PROVE  FALSE
    <3>1. PICK w \in Above : \A v \in Above : pos[w] <= pos[v]
      <4>1. Above \in SUBSET S  OBVIOUS
      <4> HIDE DEF Above
      <4> QED BY <1>1, <2>1, <4>1, FirstPlace
    <3>2. w \in S /\ pos[last] < pos[w] /\ \A v \in S : pos[v] > pos[last] => pos[v] >= pos[w]
      BY <3>1 DEF Placed
    <3>3. w \in P
      BY <1>2, <3>2 DEF Follows
    <3> QED
      BY <1>2, <3>2, <3>3 DEF Placed
  <2> QED
    BY <2>1 DEF Placed
<1>4. PICK first \in S : \A v \in S : pos[first] <= pos[v]
  BY FirstPlace
<1>5. first \in P
  BY <1>2, <1>3, <1>4 DEF Follows
<1> DEFINE Missed == S \ P
<1>6. ASSUME Missed # {}
      PROVE  FALSE
  <2>1. PICK w \in Missed : \A v \in Missed : pos[w] <= pos[v]
    <3>1. Missed \in SUBSET S  OBVIOUS
    <3> HIDE DEF Missed
    <3> QED BY <1>1, <1>6, <3>1, FirstPlace
  <2> DEFINE Below == {v \in P : pos[v] < pos[w]}
  <2>2. CASE Below = {}
    <3>1. pos[w] <= pos[first]
      BY <1>4, <1>5, <2>1, <2>2 DEF Placed
    <3>2. \A v \in S : pos[w] <= pos[v]
      BY <1>4, <2>1, <3>1 DEF Placed
    <3>3. Follows(S, pos, last, w)
      BY <1>3, <3>2 DEF Follows
    <3> QED
      BY <1>2, <2>1, <3>3
  <2>3. CASE Below # {}
    <3>1. PICK a \in Below : \A v \in Below : pos[v] <= pos[a]
      <4>1. Below \in SUBSET S  OBVIOUS
      <4> HIDE DEF Below
      <4> QED BY <1>1, <2>3, <4>1, LastPlace
    <3>2. a \in P /\ pos[a] < pos[w]
      BY <3>1
    <3>3. \A v \in S : pos[v] > pos[a] => pos[v] >= pos[w]
      <4>1. \A v \in P : pos[v] < pos[w] => pos[v] <= pos[a]
        BY <3>1
      <4>2. \A v \in S : v \notin P => pos[w] <= pos[v]
        BY <2>1
      <4> QED
        BY <2>1, <3>2, <4>1, <4>2 DEF Placed
    <3>4. Follows(S, pos, a, w)
      BY <3>2, <3>3 DEF Follows
    <3> QED
      BY <2>1, <3>2, <3>4
  <2> QED
    BY <2>2, <2>3
<1> QED
  BY <1>6

\* As many steps as there are places visit them all.
LEMMA WalkVisitsAll ==
  ASSUME NEW pos, NEW S, Placed(S, pos), IsFiniteSet(S), S # {},
         NEW x, \A i \in 1 .. Cardinality(S) : x[i] \in S,
         \A i \in 1 .. Cardinality(S) - 1 : \A w \in S : Follows(S, pos, x[i], w) => w = x[i + 1]
  PROVE  {x[i] : i \in 1 .. Cardinality(S)} = S
<1> DEFINE n == Cardinality(S)
           P(k) == {x[i] : i \in 1 .. k}
           Short == {k \in 1 .. n : P(k) # S /\ Cardinality(P(k)) < k}
<1>1. n \in Nat /\ n >= 1
  BY FS_CardinalityType, FS_EmptySet
<1>2. ASSUME NEW k \in 1 .. n
      PROVE  P(k) \in SUBSET S /\ IsFiniteSet(P(k)) /\ Cardinality(P(k)) \in Nat
  <2>1. P(k) \in SUBSET S
    BY <1>1
  <2> HIDE DEF P
  <2> QED
    BY <2>1, FS_Subset, FS_CardinalityType
<1>3. Short = {}
  <2> SUFFICES ASSUME Short # {} PROVE FALSE
    OBVIOUS
  <2>1. PICK k \in Short : \A j \in Short : k <= j
    <3>1. Short \in SUBSET Nat  BY <1>1
    <3> HIDE DEF Short
    <3> QED BY <3>1, LeastNatural
  <2>2. k \in 1 .. n /\ P(k) # S /\ Cardinality(P(k)) < k
    OBVIOUS
  <2>3. CASE k = 1
    <3>1. P(k) = {x[1]}
      BY <2>3
    <3>2. Cardinality({x[1]}) = 1
      BY FS_Singleton
    <3>3. Cardinality(P(k)) = 1
      BY <3>1, <3>2
    <3> HIDE DEF P
    <3> QED
      BY <2>2, <2>3, <3>3
  <2>4. CASE k > 1
    <3> DEFINE j == k - 1
    <3>1. j \in 1 .. n /\ j \notin Short /\ j + 1 = k /\ j \in 1 .. n - 1
      BY <1>1, <2>1, <2>2, <2>4
    <3>2. P(j) = S \/ Cardinality(P(j)) >= j
      <4> HIDE DEF P
      <4> QED BY <1>2, <3>1
    <3>3. P(k) = P(j) \cup {x[k]}
      BY <2>2, <3>1
    <3>4. x[k] \in S
      BY <2>2
    <3>5. P(j) # S
      <4> HIDE DEF P
      <4> QED BY <2>2, <3>3, <3>4
    <3>6. x[k] \notin P(j)
      <4> SUFFICES ASSUME x[k] \in P(j) PROVE FALSE
        OBVIOUS
      <4>1. ASSUME NEW a \in P(j), NEW w \in S, Follows(S, pos, a, w)
            PROVE  w \in P(j)
        <5>1. PICK i \in 1 .. j : a = x[i]
          BY <4>1
        <5>2. i \in 1 .. n - 1 /\ w = x[i + 1]
          BY <1>1, <3>1, <4>1, <5>1
        <5>3. CASE i + 1 \in 1 .. j
          BY <5>2, <5>3
        <5>4. CASE i + 1 = k
          BY <5>2, <5>4
        <5> QED
          BY <3>1, <5>3, <5>4
      <4>2. P(j) # {} /\ P(j) \in SUBSET S
        BY <1>2, <3>1
      <4> HIDE DEF P
      <4> QED
        BY <3>5, <4>1, <4>2, ClosedIsAll
    <3>7. Cardinality(P(k)) = Cardinality(P(j)) + 1
      <4> HIDE DEF P
      <4> QED BY <1>2, <3>1, <3>3, <3>6, FS_AddElement
    <3> HIDE DEF P
    <3> QED
      BY <1>2, <2>2, <3>1, <3>2, <3>5, <3>7
  <2> QED
    BY <2>2, <2>3, <2>4
<1>4. n \in 1 .. n /\ n \notin Short
  BY <1>1, <1>3
<1>5. P(n) = S
  <2>1. P(n) # S => Cardinality(P(n)) >= n
    <3> HIDE DEF P
    <3> QED BY <1>1, <1>2, <1>4
  <2> HIDE DEF P
  <2> QED
    BY <1>1, <1>2, <1>4, <2>1, FS_Subset
<1> QED
  BY <1>5

-----------------------------------------------------------------------------
(***************************************************************************)
(* Presses.  AfterPresses is a recursive function over the presses so far: *)
(* it exists, and is the same however many presses are to come.            *)
(***************************************************************************)
Press(r, delta) == SelectRecord(r, RelativeTarget(r, delta))

\* f is the registry after each of n presses.
Pressing(f, r, delta, n) ==
  f = [i \in 0 .. n |-> IF i = 0 THEN r ELSE Press(f[i - 1], delta)]

LEMMA PressesExist ==
  ASSUME NEW r, NEW delta, NEW n \in Nat
  PROVE  \E f : Pressing(f, r, delta, n)
<1> DEFINE T == {m \in Nat : \E f : Pressing(f, r, delta, m)}
<1>1. 0 \in T
  <2> DEFINE f == [i \in 0 .. 0 |-> r]
  <2>1. Pressing(f, r, delta, 0)
    BY DEF Pressing
  <2> QED
    BY <2>1
<1>2. ASSUME NEW m \in T
      PROVE  m + 1 \in T
  <2>1. PICK f : Pressing(f, r, delta, m)
    OBVIOUS
  <2> DEFINE g == [i \in 0 .. m + 1 |-> IF i <= m THEN f[i] ELSE Press(f[m], delta)]
  <2>2. m \in Nat
    OBVIOUS
  <2>3. \A i \in 0 .. m : g[i] = f[i]
    BY <2>2
  <2>4. g[m + 1] = Press(f[m], delta)
    BY <2>2
  <2>5. \A i \in 0 .. m : f[i] = IF i = 0 THEN r ELSE Press(f[i - 1], delta)
    BY <2>1, <2>2 DEF Pressing
  <2>6. \A i \in 0 .. m + 1 : g[i] = IF i = 0 THEN r ELSE Press(g[i - 1], delta)
    <3> TAKE i \in 0 .. m + 1
    <3>1. CASE i = m + 1
      <4>1. i # 0 /\ i - 1 = m /\ g[m] = f[m]
        BY <2>2, <2>3, <3>1
      <4> HIDE DEF g
      <4> QED
        BY <2>4, <3>1, <4>1
    <3>2. CASE i \in 0 .. m /\ i # 0
      <4>1. i - 1 \in 0 .. m
        BY <2>2, <3>2
      <4> HIDE DEF g
      <4> QED
        BY <2>3, <2>5, <3>2, <4>1
    <3>3. CASE i = 0
      <4>1. i \in 0 .. m
        BY <2>2, <3>3
      <4> HIDE DEF g
      <4> QED
        BY <2>3, <2>5, <3>3, <4>1
    <3> QED
      BY <2>2, <3>1, <3>2, <3>3
  <2>7. Pressing(g, r, delta, m + 1)
    <3>1. g = [i \in 0 .. m + 1 |-> g[i]]
      OBVIOUS
    <3> HIDE DEF g
    <3> QED
      BY <2>6, <3>1 DEF Pressing
  <2> QED
    BY <2>2, <2>7
<1>3. T = Nat
  <2> HIDE DEF T
  <2>1. T \in SUBSET Nat  BY DEF T
  <2> QED BY <1>1, <1>2, <2>1, EveryNatural
<1> QED
  BY <1>3

LEMMA PressesAgree ==
  ASSUME NEW r, NEW delta, NEW n \in Nat, NEW m \in Nat, NEW f, NEW g,
         Pressing(f, r, delta, n), Pressing(g, r, delta, m), NEW k \in Nat, k <= n, k <= m
  PROVE  f[k] = g[k]
<1> DEFINE T == {i \in Nat : i <= n /\ i <= m => f[i] = g[i]}
<1>1. 0 \in T
  BY DEF Pressing
<1>2. ASSUME NEW i \in T
      PROVE  i + 1 \in T
  <2>1. i \in Nat /\ (i <= n /\ i <= m => f[i] = g[i])
    OBVIOUS
  <2>2. ASSUME i + 1 <= n, i + 1 <= m
        PROVE  f[i + 1] = g[i + 1]
    <3>1. f[i + 1] = Press(f[i], delta) /\ g[i + 1] = Press(g[i], delta)
      <4>1. i + 1 \in 0 .. n /\ i + 1 \in 0 .. m /\ i + 1 # 0 /\ (i + 1) - 1 = i
        BY <2>1, <2>2
      <4> QED
        BY <4>1 DEF Pressing
    <3>2. f[i] = g[i]
      BY <2>1, <2>2
    <3> QED
      BY <3>1, <3>2
  <2> QED
    BY <2>1, <2>2
<1>3. T = Nat
  <2> HIDE DEF T
  <2>1. T \in SUBSET Nat  BY DEF T
  <2> QED BY <1>1, <1>2, <2>1, EveryNatural
<1> QED
  BY <1>3

LEMMA PressedAgain ==
  ASSUME NEW r, NEW delta, NEW n \in Nat
  PROVE  /\ AfterPresses(r, delta, 0) = r
         /\ AfterPresses(r, delta, n + 1) = Press(AfterPresses(r, delta, n), delta)
<1> DEFINE made(m) == CHOOSE f : Pressing(f, r, delta, m)
<1>1. \A m \in Nat : AfterPresses(r, delta, m) = made(m)[m]
  BY DEF AfterPresses, Pressing, Press
<1>2. \A m \in Nat : Pressing(made(m), r, delta, m)
  BY PressesExist
<1> HIDE DEF made
<1>3. made(0)[0] = r
  BY <1>2 DEF Pressing
<1>4. made(n + 1)[n + 1] = Press(made(n + 1)[n], delta)
  <2>1. n + 1 \in 0 .. n + 1 /\ n + 1 # 0 /\ (n + 1) - 1 = n /\ n + 1 \in Nat
    OBVIOUS
  <2> QED
    BY <1>2, <2>1 DEF Pressing
<1>5. made(n + 1)[n] = made(n)[n]
  <2>1. n + 1 \in Nat /\ n <= n + 1 /\ n <= n
    OBVIOUS
  <2> QED
    BY <1>2, <2>1, PressesAgree
<1> QED
  BY <1>1, <1>3, <1>4, <1>5

\* The selectable tasks by slot, counted up for Right and down for Left.
Place(r, delta) ==
  [w \in Selectable(r) |-> IF delta = 1 THEN r.tasks[w].slot ELSE -r.tasks[w].slot]

LEMMA SelectableSlots ==
  ASSUME NEW r, Sound(r)
  PROVE  /\ Selectable(r) \in SUBSET Registered(r) /\ IsFiniteSet(Selectable(r))
         /\ \A w \in Selectable(r) : r.tasks[w].slot \in 1 .. SlotCount
         /\ \A v, w \in Selectable(r) : r.tasks[v].slot = r.tasks[w].slot => v = w
<1> DEFINE S == Selectable(r)
           f == [w \in S |-> r.tasks[w].slot]
<1>1. S \in SUBSET Registered(r) /\ \A w \in S : r.tasks[w].slot # NoSlot
  BY DEF Selectable, Candidates
<1>2. \A w \in S : r.tasks[w].slot \in 1 .. SlotCount
  BY <1>1, SlotRange, SlotCountAssumption DEF Sound, NoSlot
<1>3. \A v, w \in S : r.tasks[v].slot = r.tasks[w].slot => v = w
  BY <1>1 DEF Sound, SlotsUnshared
<1>4. f \in Injection(S, 1 .. SlotCount)
  <2>1. f \in [S -> 1 .. SlotCount]
    BY <1>2
  <2>2. \A v, w \in S : f[v] = f[w] => v = w
    BY <1>3
  <2>3. IsInjective(f)
    BY <2>2 DEF IsInjective
  <2> QED
    BY <2>1, <2>3 DEF Injection
<1>5. IsFiniteSet(1 .. SlotCount)
  BY FS_Interval, SlotCountAssumption
<1>6. IsFiniteSet(S)
  <2> HIDE DEF f, S
  <2> QED BY <1>4, <1>5, FS_Injection
<1> QED
  BY <1>1, <1>2, <1>3, <1>6

LEMMA PlaceOfSlot ==
  ASSUME NEW r, Sound(r), NEW delta
  PROVE  /\ Placed(Selectable(r), Place(r, delta))
         /\ \A v, w \in Selectable(r) : Place(r, delta)[v] = Place(r, delta)[w] => v = w
BY SelectableSlots, SlotCountAssumption DEF Placed, Place

\* One place follows each.
LEMMA OneFollows ==
  ASSUME NEW pos, NEW S, Placed(S, pos), \A v, w \in S : pos[v] = pos[w] => v = w,
         NEW a \in S, NEW v \in S, NEW w \in S, Follows(S, pos, a, v), Follows(S, pos, a, w)
  PROVE  v = w
<1>1. pos[v] = pos[w]
  BY DEF Placed, Follows
<1> QED
  BY <1>1

\* The lowest slot is the lowest, and the highest the highest.
LEMMA LowestIsLowest ==
  ASSUME NEW r \in Registry, NEW S \in SUBSET Registered(r), S # {}
  PROVE  \A v \in S : r.tasks[LowestSlot(r, S)].slot <= r.tasks[v].slot
<1> DEFINE pos == [w \in S |-> r.tasks[w].slot]
<1>1. Placed(S, pos)
  BY SlotRange, SlotCountAssumption DEF Placed
<1>2. \E w \in S : \A v \in S : pos[w] <= pos[v]
  <2> HIDE DEF pos
  <2> QED BY <1>1, FirstPlace
<1>3. \E w \in S : \A v \in S : r.tasks[w].slot <= r.tasks[v].slot
  BY <1>2
<1> QED
  BY <1>3 DEF LowestSlot

LEMMA HighestIsHighest ==
  ASSUME NEW r \in Registry, NEW S \in SUBSET Registered(r), S # {}
  PROVE  \A v \in S : r.tasks[HighestSlot(r, S)].slot >= r.tasks[v].slot
<1> DEFINE pos == [w \in S |-> r.tasks[w].slot]
<1>1. Placed(S, pos)
  BY SlotRange, SlotCountAssumption DEF Placed
<1>2. \E w \in S : \A v \in S : pos[v] <= pos[w]
  <2> HIDE DEF pos
  <2> QED BY <1>1, LastPlace
<1>3. \E w \in S : \A v \in S : r.tasks[w].slot >= r.tasks[v].slot
  <2>1. PICK w \in S : \A v \in S : pos[v] <= pos[w]
    BY <1>2
  <2>2. \A v \in S : r.tasks[v].slot \in Int
    BY SlotRange, SlotCountAssumption
  <2> QED
    BY <2>1, <2>2
<1> QED
  BY <1>3 DEF HighestSlot

\* selectRelative goes to the place that follows.
LEMMA TargetFollows ==
  ASSUME NEW r, Sound(r), NEW delta \in {1, -1}, r.selected \in Selectable(r)
  PROVE  Follows(Selectable(r), Place(r, delta), r.selected, RelativeTarget(r, delta))
<1> DEFINE S     == Selectable(r)
           a     == r.selected
           Right == {w \in S : r.tasks[w].slot > r.tasks[a].slot}
           Left  == {w \in S : r.tasks[w].slot < r.tasks[a].slot}
           right == LowestSlot(r, IF Right = {} THEN S ELSE Right)
           left  == HighestSlot(r, IF Left = {} THEN S ELSE Left)
<1>1. /\ S \in SUBSET Registered(r) /\ a \in S /\ r \in Registry
      /\ \A w \in S : r.tasks[w].slot \in 1 .. SlotCount
  BY SelectableSlots DEF Sound
<1>2. RelativeTarget(r, delta) = IF delta = 1 THEN right ELSE left
  BY <1>1 DEF RelativeTarget
<1>3. CASE delta = 1
  <2> DEFINE A == IF Right = {} THEN S ELSE Right
  <2>1. A \in SUBSET Registered(r) /\ A # {} /\ A \subseteq S
    BY <1>1
  <2>2. right \in A /\ \A v \in A : r.tasks[right].slot <= r.tasks[v].slot
    <3> HIDE DEF A, S
    <3> QED BY <1>1, <2>1, LowestSlotInSet, LowestIsLowest DEF A
  <2> HIDE DEF right
  <2>3. \A w \in S : Place(r, delta)[w] = r.tasks[w].slot
    BY <1>3 DEF Place
  <2>4. Follows(S, Place(r, delta), a, right)
    <3>1. CASE Right = {}
      BY <1>1, <2>1, <2>2, <2>3, <3>1 DEF Follows
    <3>2. CASE Right # {}
      BY <1>1, <2>1, <2>2, <2>3, <3>2 DEF Follows
    <3> QED BY <3>1, <3>2
  <2> QED
    BY <1>2, <1>3, <2>4
<1>4. CASE delta = -1
  <2> DEFINE A == IF Left = {} THEN S ELSE Left
  <2>1. A \in SUBSET Registered(r) /\ A # {} /\ A \subseteq S
    BY <1>1
  <2>2. left \in A /\ \A v \in A : r.tasks[left].slot >= r.tasks[v].slot
    <3> HIDE DEF A, S
    <3> QED BY <1>1, <2>1, HighestSlotInSet, HighestIsHighest DEF A
  <2> HIDE DEF left
  <2>3. \A w \in S : Place(r, delta)[w] = -r.tasks[w].slot
    BY <1>4 DEF Place
  <2>4. Follows(S, Place(r, delta), a, left)
    <3>1. CASE Left = {}
      BY <1>1, <2>1, <2>2, <2>3, <3>1 DEF Follows
    <3>2. CASE Left # {}
      BY <1>1, <2>1, <2>2, <2>3, <3>2 DEF Follows
    <3> QED BY <3>1, <3>2
  <2> QED
    BY <1>2, <1>4, <2>4
<1> QED
  BY <1>3, <1>4

\* A press moves the selection and no task.
LEMMA PressMoves ==
  ASSUME NEW r, Sound(r), NEW delta, Selectable(r) # {}, NEW q, q = Press(r, delta)
  PROVE  /\ Sound(q) /\ q.selected = RelativeTarget(r, delta) /\ q.selected \in Selectable(r)
         /\ Selectable(q) = Selectable(r)
         /\ \A other : Place(q, other) = Place(r, other)
<1> DEFINE w == RelativeTarget(r, delta)
           seen == [r.tasks[w] EXCEPT !.unread = FALSE, !.state = IF @ = "complete" THEN "idle" ELSE @]
<1>1. r \in Registry /\ w \in Selectable(r)
  BY RelativeTargetSelectable DEF Sound
<1>2. q = SelectRecord(r, w)
  BY DEF Press
<1> HIDE DEF w
<1>3. Sound(q)
  BY <1>1, <1>2, SelectRecordSound
<1>4. w \in Wrappers /\ w \in Registered(r)
  BY <1>1 DEF Selectable, Candidates, Registered
<1>5. q.selected = w /\ q.tasks = [r.tasks EXCEPT ![w] = seen]
  BY <1>1, <1>2 DEF SelectRecord, SetTask, Registry
<1>6. r.tasks[w] \in Task
  BY <1>1, <1>4, SlotRange
<1>7. /\ seen # None /\ seen.slot = r.tasks[w].slot /\ seen.conn = r.tasks[w].conn
      /\ seen.state = "disconnected" <=> r.tasks[w].state = "disconnected"
  <2>1. seen \in Task
    BY <1>6 DEF Task, TaskStates, AgentStates
  <2> QED
    BY <1>6, <2>1, NoneIsNoTask DEF Task
<1> HIDE DEF seen
<1>8. \A v \in Wrappers : /\ v \in Registered(q) <=> v \in Registered(r)
                          /\ q.tasks[v].slot = r.tasks[v].slot
                          /\ q.tasks[v].conn = r.tasks[v].conn
                          /\ q.tasks[v].state = "disconnected" <=> r.tasks[v].state = "disconnected"
  BY <1>1, <1>4, <1>5, <1>7 DEF Registry, Registered
<1>9. Selectable(q) = Selectable(r)
  <2>1. Registered(q) = Registered(r)
    BY <1>8 DEF Registered
  <2>2. \A v \in Registered(r) : v \in Wrappers
    BY DEF Registered
  <2> QED
    BY <1>8, <2>1, <2>2 DEF Selectable, Candidates
<1>10. \A v \in Selectable(r) : v \in Wrappers
  BY DEF Selectable, Candidates, Registered
<1>11. ASSUME NEW other
       PROVE  Place(q, other) = Place(r, other)
  <2>1. \A v \in Selectable(r) : q.tasks[v].slot = r.tasks[v].slot
    BY <1>8, <1>10
  <2> QED
    BY <1>9, <2>1 DEF Place
<1> QED
  BY <1>1, <1>3, <1>5, <1>9, <1>11 DEF w

\* The walk of a key that is pressed again and again.
LEMMA PressesWalk ==
  ASSUME NEW r, Sound(r), NEW delta \in {1, -1}, Selectable(r) # {}, NEW n \in Nat
  PROVE  LET q == AfterPresses(r, delta, n) IN
         /\ Sound(q) /\ Selectable(q) = Selectable(r)
         /\ \A other : Place(q, other) = Place(r, other)
         /\ n >= 1 => q.selected \in Selectable(r)
<1> DEFINE Good(m) == LET q == AfterPresses(r, delta, m) IN
                      /\ Sound(q) /\ Selectable(q) = Selectable(r)
                      /\ \A other : Place(q, other) = Place(r, other)
                      /\ m >= 1 => q.selected \in Selectable(r)
           T == {m \in Nat : Good(m)}
<1>1. 0 \in T
  <2>1. AfterPresses(r, delta, 0) = r
    BY PressedAgain
  <2> QED
    BY <2>1
<1>2. ASSUME NEW m \in T
      PROVE  m + 1 \in T
  <2> DEFINE q == AfterPresses(r, delta, m)
             p == AfterPresses(r, delta, m + 1)
  <2>1. m \in Nat /\ Sound(q) /\ Selectable(q) = Selectable(r) /\ \A other : Place(q, other) = Place(r, other)
    OBVIOUS
  <2>2. p = Press(q, delta)
    BY <2>1, PressedAgain
  <2> HIDE DEF q, p
  <2>3. /\ Sound(p) /\ p.selected \in Selectable(r) /\ Selectable(p) = Selectable(r)
        /\ \A other : Place(p, other) = Place(r, other)
    BY <2>1, <2>2, PressMoves
  <2> QED
    BY <2>1, <2>3 DEF p
<1>3. T = Nat
  <2> HIDE DEF T
  <2>1. T \in SUBSET Nat  BY DEF T
  <2> QED BY <1>1, <1>2, <2>1, EveryNatural
<1>4. Good(n)
  <2> HIDE DEF Good
  <2> QED BY <1>3
<1> QED
  BY <1>4

\* From any selection, and from none, as many presses of Right (or of Left) as
\* there are selectable tasks visit each of them, and the opposite key takes a
\* press back (state.ts, selectRelative).
THEOREM NavigationIsARing == Spec => []NavigationCycles
<1> DEFINE S == Selectable(reg)
           n == Cardinality(S)
<1>1. ASSUME Sound(reg), NEW delta \in {1, -1}
      PROVE  /\ {AfterPresses(reg, delta, i).selected : i \in 1 .. n} = S
             /\ reg.selected \in S =>
                  AfterPresses(AfterPresses(reg, delta, 1), -delta, 1).selected = reg.selected
  <2>1. IsFiniteSet(S) /\ n \in Nat
    BY <1>1, SelectableSlots, FS_CardinalityType
  <2>2. CASE S = {}
    <3>1. n = 0
      BY <2>2, FS_EmptySet
    <3> QED
      BY <2>2, <3>1
  <2>3. CASE S # {}
    <3> DEFINE pos == Place(reg, delta)
               q(i) == AfterPresses(reg, delta, i)
               x == [i \in Nat |-> q(i).selected]
    <3>1. \A i \in Nat : /\ Sound(q(i)) /\ Selectable(q(i)) = S
                         /\ \A other : Place(q(i), other) = Place(reg, other)
                         /\ i >= 1 => q(i).selected \in S
      BY <1>1, <2>3, PressesWalk
    <3>2. \A i \in Nat : q(i + 1) = Press(q(i), delta)
      BY PressedAgain
    <3>3. q(0) = reg
      BY PressedAgain
    <3>4. Placed(S, pos) /\ \A v, w \in S : pos[v] = pos[w] => v = w
      BY <1>1, PlaceOfSlot
    <3> HIDE DEF S, q, pos, n
    <3>5. \A i \in Nat : q(i).selected \in S => Follows(S, pos, q(i).selected, q(i + 1).selected)
      <4> SUFFICES ASSUME NEW i \in Nat, q(i).selected \in S
                   PROVE  Follows(S, pos, q(i).selected, q(i + 1).selected)
        OBVIOUS
      <4>1. q(i + 1).selected = RelativeTarget(q(i), delta)
        BY <2>3, <3>1, <3>2, PressMoves
      <4>2. Sound(q(i)) /\ q(i).selected \in Selectable(q(i)) /\ Selectable(q(i)) = S
        BY <3>1
      <4>3. Place(q(i), delta) = pos
        BY <3>1 DEF pos
      <4>4. Follows(Selectable(q(i)), Place(q(i), delta), q(i).selected, RelativeTarget(q(i), delta))
        BY <1>1, <4>2, TargetFollows
      <4> QED
        BY <4>1, <4>2, <4>3, <4>4
    <3>6. {x[i] : i \in 1 .. n} = S
      <4>1. \A i \in 1 .. n : x[i] \in S
        <5> TAKE i \in 1 .. n
        <5>1. i \in Nat /\ i >= 1
          BY <2>1
        <5>2. x[i] = q(i).selected
          BY <5>1
        <5> QED
          BY <3>1, <5>1, <5>2
      <4>2. \A i \in 1 .. n - 1 : \A w \in S : Follows(S, pos, x[i], w) => w = x[i + 1]
        <5> TAKE i \in 1 .. n - 1
        <5> TAKE w \in S
        <5>1. i \in Nat /\ i >= 1 /\ i + 1 \in Nat /\ i + 1 >= 1
          BY <2>1
        <5>2. x[i] = q(i).selected /\ x[i + 1] = q(i + 1).selected
          BY <5>1
        <5> HIDE DEF x
        <5>3. q(i).selected \in S /\ q(i + 1).selected \in S
          BY <3>1, <5>1
        <5>4. Follows(S, pos, q(i).selected, q(i + 1).selected)
          BY <3>5, <5>1, <5>3
        <5> QED
          BY <3>4, <5>2, <5>3, <5>4, OneFollows
      <4> HIDE DEF x
      <4> QED
        BY <2>1, <2>3, <3>4, <4>1, <4>2, WalkVisitsAll DEF n
    <3>7. {q(i).selected : i \in 1 .. n} = S
      <4>1. \A i \in 1 .. n : x[i] = q(i).selected
        BY <2>1
      <4> HIDE DEF x
      <4> QED
        BY <3>6, <4>1
    <3>8. ASSUME reg.selected \in S
          PROVE  AfterPresses(q(1), -delta, 1).selected = reg.selected
      <4> DEFINE back == -delta
                 there == q(1).selected
                 again == AfterPresses(q(1), back, 1).selected
                 down == Place(reg, back)
      <4>1. back \in {1, -1} /\ (delta = 1 <=> back # 1)
        OBVIOUS
      <4>2. /\ Sound(q(1)) /\ Selectable(q(1)) = S /\ Place(q(1), back) = down
            /\ there \in S
        <5>1. 1 \in Nat /\ 1 >= 1
          OBVIOUS
        <5> QED
          BY <3>1, <5>1
      <4>3. Follows(S, pos, reg.selected, there)
        <5>1. q(0 + 1) = q(1)
          OBVIOUS
        <5> QED
          BY <3>3, <3>5, <3>8, <5>1
      <4>4. Follows(S, down, there, reg.selected)
        <5>1. \A w \in S : pos[w] \in Int /\ down[w] = -pos[w]
          BY <1>1, <4>1, SelectableSlots DEF pos, Place, S
        <5> QED
          BY <3>8, <4>2, <4>3, <5>1 DEF Follows
      <4>5. again \in S /\ Follows(S, down, there, again)
        <5>1. AfterPresses(q(1), back, 0 + 1) = Press(AfterPresses(q(1), back, 0), back)
              /\ AfterPresses(q(1), back, 0) = q(1)
          BY PressedAgain
        <5>2. AfterPresses(q(1), back, 1) = Press(q(1), back)
          BY <5>1
        <5> HIDE DEF back
        <5>3. again = RelativeTarget(q(1), back) /\ again \in S
          BY <2>3, <4>2, <5>2, PressMoves
        <5> QED
          BY <4>1, <4>2, <5>3, TargetFollows
      <4>6. Placed(S, down) /\ \A v, w \in S : down[v] = down[w] => v = w
        BY <1>1, PlaceOfSlot DEF S
      <4> HIDE DEF down, again, there
      <4>7. again = reg.selected
        BY <3>8, <4>2, <4>4, <4>5, <4>6, OneFollows
      <4> QED
        BY <4>7 DEF again
    <3> QED
      BY <3>7, <3>8 DEF q
  <2> QED
    BY <2>2, <2>3
<1>2. Inv => NavigationCycles
  BY <1>1, InvIsSound DEF NavigationCycles
<1> QED
  BY <1>2, RegistryInvariant, PTL
=============================================================================
