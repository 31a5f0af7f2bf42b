--------------------------- MODULE TaskOpsProofs ---------------------------
(***************************************************************************)
(* What the operators of TaskOps return and preserve, for every set of     *)
(* wrappers and sessions and every number of slots: each method of         *)
(* TaskRegistry takes a sound registry to a sound registry.                *)
(***************************************************************************)
EXTENDS TaskOps, FiniteSetTheorems, TLAPS

Sound(r) == r \in Registry /\ SlotsUnshared(r) /\ SelectionInSlot(r)

\* q is r with a task of w's that is connected, whatever became of the selection.
Connects(q, r, w) ==
  \E t \in Task : t.conn = "connected" /\ q.tasks = [r.tasks EXCEPT ![w] = t]

-----------------------------------------------------------------------------
(***************************************************************************)
(* Minima.  The operators choose by slot, so they return something only if *)
(* a least slot exists.                                                    *)
(***************************************************************************)
\* Every nonempty set of naturals has a least element.
LEMMA LeastNatural ==
  ASSUME NEW T \in SUBSET Nat, T # {}
  PROVE  \E m \in T : \A n \in T : m <= n
<1> DEFINE Below == {1 .. n : n \in T}
<1>1. IsWellFoundedOn(StrictSubsetOrdering(Nat), FiniteSubsetsOf(Nat))
  BY FS_StrictSubsetOrderingWellFounded
<1>2. Below \subseteq FiniteSubsetsOf(Nat)
  <2>1. ASSUME NEW n \in T PROVE 1 .. n \in FiniteSubsetsOf(Nat)
    <3>1. IsFiniteSet(1 .. n)  BY FS_Interval
    <3>2. QED BY <3>1 DEF FiniteSubsetsOf
  <2>2. QED BY <2>1
<1>3. Below # {}  OBVIOUS
<1>4. PICK x \in Below : \A y \in Below : ~(<<y, x>> \in StrictSubsetOrdering(Nat))
  <2> HIDE DEF Below
  <2>1. QED BY <1>1, <1>2, <1>3, WFMin
<1>5. PICK m \in T : x = 1 .. m
  OBVIOUS
<1>6. ASSUME NEW n \in T, n < m PROVE FALSE
  <2>1. 1 .. n \in Below  OBVIOUS
  <2>2. 1 .. n \subseteq 1 .. m  BY <1>6
  <2>3. m \in 1 .. m /\ m \notin 1 .. n  BY <1>6
  <2>4. <<1 .. n, x>> \in StrictSubsetOrdering(Nat)
    BY <2>2, <2>3, <1>5 DEF StrictSubsetOrdering
  <2>5. QED BY <1>4, <2>1, <2>4
<1>7. QED BY <1>6

\* A registered task's slot is a natural number up to SlotCount.
LEMMA SlotRange ==
  ASSUME NEW r \in Registry, NEW w \in Registered(r)
  PROVE  r.tasks[w] \in Task /\ r.tasks[w].slot \in 0 .. SlotCount
BY SlotCountAssumption, NoneIsNoTask DEF Registry, Registered, Task, Slots, NoSlot

\* Sorting by slot and taking the first finds a task of the list.
LEMMA LowestSlotInSet ==
  ASSUME NEW r \in Registry, NEW S \in SUBSET Registered(r), S # {}
  PROVE  LowestSlot(r, S) \in S
<1> DEFINE T == {r.tasks[w].slot : w \in S}
<1>1. T \in SUBSET Nat /\ T # {}
  BY SlotRange, SlotCountAssumption
<1>2. PICK m \in T : \A n \in T : m <= n
  <2> HIDE DEF T
  <2>1. QED BY <1>1, LeastNatural
<1>3. \E w \in S : \A v \in S : r.tasks[w].slot <= r.tasks[v].slot
  BY <1>2
<1>4. QED BY <1>3 DEF LowestSlot

\* And so does taking the last.
LEMMA HighestSlotInSet ==
  ASSUME NEW r \in Registry, NEW S \in SUBSET Registered(r), S # {}
  PROVE  HighestSlot(r, S) \in S
<1> DEFINE T == {SlotCount - r.tasks[w].slot : w \in S}
<1>1. T \in SUBSET Nat /\ T # {}
  BY SlotRange, SlotCountAssumption
<1>2. PICK m \in T : \A n \in T : m <= n
  <2> HIDE DEF T
  <2>1. QED BY <1>1, LeastNatural
<1>3. \E w \in S : \A v \in S : r.tasks[w].slot >= r.tasks[v].slot
  <2>1. PICK w \in S : m = SlotCount - r.tasks[w].slot
    OBVIOUS
  <2>2. \A v \in S : m <= SlotCount - r.tasks[v].slot
    BY <1>2
  <2>3. \A v \in S : r.tasks[v].slot \in 0 .. SlotCount
    BY SlotRange
  <2>4. QED BY <2>1, <2>2, <2>3, SlotCountAssumption
<1>4. QED BY <1>3 DEF HighestSlot

-----------------------------------------------------------------------------
(***************************************************************************)
(* Selection.                                                              *)
(***************************************************************************)
\* selectFallback finds a candidate if there is one, and nothing otherwise.
LEMMA FallbackIsCandidate ==
  ASSUME NEW r \in Registry, NEW exclude, NEW inc \in BOOLEAN
  PROVE  LET C == Candidates(r, exclude, inc)
         IN IF C = {} THEN FallbackWrapper(r, exclude, inc) = None
                      ELSE FallbackWrapper(r, exclude, inc) \in C
<1> DEFINE C == Candidates(r, exclude, inc)
           Ranked(st) == {w \in C : r.tasks[w].state = st}
<1>1. C \subseteq Registered(r) /\ \A st : Ranked(st) \subseteq C
  BY DEF Candidates
<1>2. CASE C = {}
  BY <1>2 DEF FallbackWrapper
<1>3. CASE C # {} /\ Ranked("waiting") # {}
  <2>1. LowestSlot(r, Ranked("waiting")) \in Ranked("waiting")
    <3>1. Ranked("waiting") \in SUBSET Registered(r) BY <1>1
    <3> HIDE DEF Ranked, C
    <3>2. QED BY <1>3, <3>1, LowestSlotInSet
  <2>2. QED BY <1>1, <1>3, <2>1 DEF FallbackWrapper
<1>4. CASE C # {} /\ Ranked("waiting") = {} /\ Ranked("executing") # {}
  <2>1. LowestSlot(r, Ranked("executing")) \in Ranked("executing")
    <3>1. Ranked("executing") \in SUBSET Registered(r) BY <1>1
    <3> HIDE DEF Ranked, C
    <3>2. QED BY <1>4, <3>1, LowestSlotInSet
  <2>2. QED BY <1>1, <1>4, <2>1 DEF FallbackWrapper
<1>5. CASE C # {} /\ Ranked("waiting") = {} /\ Ranked("executing") = {}
  <2>1. LowestSlot(r, C) \in C
    <3> HIDE DEF C
    <3>1. QED BY <1>1, <1>5, LowestSlotInSet
  <2>2. QED BY <1>5, <2>1 DEF FallbackWrapper
<1>6. QED BY <1>2, <1>3, <1>4, <1>5

\* selectRelative lands on a task it may select.
LEMMA RelativeTargetSelectable ==
  ASSUME NEW r \in Registry, NEW delta, Selectable(r) # {}
  PROVE  RelativeTarget(r, delta) \in Selectable(r)
<1> DEFINE S      == Selectable(r)
           within == r.selected \in S
           Right  == {w \in S : within /\ r.tasks[w].slot > r.tasks[r.selected].slot}
           Left   == {w \in S : within /\ r.tasks[w].slot < r.tasks[r.selected].slot}
           Ahead  == IF Right = {} THEN S ELSE Right
           Behind == IF Left = {} THEN S ELSE Left
<1>1. S \subseteq Registered(r)
  BY DEF Selectable, Candidates
<1>2. /\ Ahead \in SUBSET S /\ Ahead # {}
      /\ Behind \in SUBSET S /\ Behind # {}
  OBVIOUS
<1>3. LowestSlot(r, Ahead) \in Ahead
  <2> HIDE DEF Ahead, S
  <2>1. QED BY <1>1, <1>2, LowestSlotInSet
<1>4. HighestSlot(r, Behind) \in Behind
  <2> HIDE DEF Behind, S
  <2>1. QED BY <1>1, <1>2, HighestSlotInSet
<1>5. RelativeTarget(r, delta) = IF delta = 1 THEN LowestSlot(r, Ahead)
                                              ELSE HighestSlot(r, Behind)
  BY DEF RelativeTarget
<1>6. QED
  <2> HIDE DEF Ahead, Behind, S
  <2>1. RelativeTarget(r, delta) \in S BY <1>2, <1>3, <1>4, <1>5
  <2>2. QED BY <2>1 DEF S

-----------------------------------------------------------------------------
(***************************************************************************)
(* Preservation.  Most methods rewrite one task without touching its slot; *)
(* they are instances of one lemma.                                        *)
(***************************************************************************)
\* A task put in a slot that is no other task's leaves the registry sound.
LEMMA PlaceSound ==
  ASSUME NEW r, Sound(r),
         NEW w \in Wrappers, NEW t \in Task,
         t.slot # NoSlot => TaskAtSlot(r, t.slot) \subseteq {w},
         r.selected = w => t.slot # NoSlot
  PROVE  /\ Sound(SetTask(r, w, t))
         /\ w \in Registered(SetTask(r, w, t))
         /\ SetTask(r, w, t).tasks[w] = t
<1> DEFINE q == SetTask(r, w, t)
<1>1. r \in Registry /\ t # None
  BY NoneIsNoTask DEF Sound
<1>2. q.tasks = [r.tasks EXCEPT ![w] = t] /\ q.selected = r.selected
  BY <1>1 DEF SetTask, Registry
<1>3. q \in Registry /\ q.tasks[w] = t
  BY <1>1 DEF SetTask, Registry
<1>4. Registered(q) = Registered(r) \cup {w}
  BY <1>1, <1>2 DEF Registered, Registry
<1>5. \A v \in Registered(q) \ {w} : v \in Registered(r) /\ q.tasks[v] = r.tasks[v]
  BY <1>1, <1>2, <1>4 DEF Registered, Registry
<1> HIDE DEF q
<1>6. SlotsUnshared(q)
  BY <1>3, <1>5 DEF Sound, SlotsUnshared, TaskAtSlot
<1>7. SelectionInSlot(q)
  BY <1>2, <1>3, <1>4, <1>5 DEF Sound, SelectionInSlot
<1>8. QED BY <1>3, <1>4, <1>6, <1>7 DEF Sound, q

\* In particular a task rewritten in its own slot.
LEMMA SetTaskSound ==
  ASSUME NEW r, Sound(r),
         NEW w \in Registered(r),
         NEW t \in Task, t.slot = r.tasks[w].slot
  PROVE  /\ Sound(SetTask(r, w, t))
         /\ w \in Registered(SetTask(r, w, t))
         /\ SetTask(r, w, t).tasks[w] = t
<1>1. w \in Wrappers
  BY DEF Registered
<1>2. t.slot # NoSlot => TaskAtSlot(r, t.slot) \subseteq {w}
  BY DEF Sound, SlotsUnshared, TaskAtSlot
<1>3. r.selected = w => t.slot # NoSlot
  BY <1>1, NoneAssumption DEF Sound, SelectionInSlot
<1>4. QED BY <1>1, <1>2, <1>3, PlaceSound

\* So does moving the selection to a registered task in a slot.
LEMMA MoveSelectionSound ==
  ASSUME NEW r \in Registry, SlotsUnshared(r),
         NEW f, f = None \/ (f \in Registered(r) /\ r.tasks[f].slot # NoSlot)
  PROVE  Sound([r EXCEPT !.selected = f])
<1> DEFINE q == [r EXCEPT !.selected = f]
<1>1. q \in Registry /\ q.tasks = r.tasks /\ q.selected = f
  BY DEF Registry, Registered
<1>2. Registered(q) = Registered(r)
  BY <1>1 DEF Registered
<1> HIDE DEF q
<1>3. SlotsUnshared(q) /\ SelectionInSlot(q)
  BY <1>1, <1>2 DEF SlotsUnshared, SelectionInSlot
<1>4. QED BY <1>1, <1>3 DEF Sound, q

\* A removed task leaves no slot shared.
LEMMA RemoveUnshared ==
  ASSUME NEW r, Sound(r), NEW w \in Wrappers
  PROVE  /\ SetTask(r, w, None) \in Registry
         /\ SlotsUnshared(SetTask(r, w, None))
         /\ r.selected # w => Sound(SetTask(r, w, None))
<1> DEFINE q == SetTask(r, w, None)
<1>1. r \in Registry
  BY DEF Sound
<1>2. q.tasks = [r.tasks EXCEPT ![w] = None] /\ q.selected = r.selected /\ q \in Registry
  BY <1>1 DEF SetTask, Registry
<1>3. Registered(q) = Registered(r) \ {w}
  BY <1>1, <1>2 DEF Registered, Registry
<1>4. \A v \in Registered(q) : q.tasks[v] = r.tasks[v]
  BY <1>1, <1>2, <1>3 DEF Registered, Registry
<1> HIDE DEF q
<1>5. SlotsUnshared(q)
  BY <1>3, <1>4 DEF Sound, SlotsUnshared
<1>6. r.selected # w => SelectionInSlot(q)
  BY <1>2, <1>3, <1>4 DEF Sound, SelectionInSlot
<1>7. QED BY <1>2, <1>5, <1>6 DEF Sound, q

\* selectFallback gives a sound registry even where the selection has gone.
LEMMA FallbackSound ==
  ASSUME NEW r \in Registry, SlotsUnshared(r), NEW exclude, NEW inc \in BOOLEAN
  PROVE  Sound([r EXCEPT !.selected = FallbackWrapper(r, exclude, inc)])
<1> DEFINE f == FallbackWrapper(r, exclude, inc)
<1>1. f = None \/ (f \in Registered(r) /\ r.tasks[f].slot # NoSlot)
  BY FallbackIsCandidate DEF Candidates
<1> HIDE DEF f
<1>2. Sound([r EXCEPT !.selected = f])
  BY <1>1, MoveSelectionSound
<1>3. QED BY <1>2 DEF f

\* selectSlot, selectWrapper and selectRelative.
LEMMA SelectRecordSound ==
  ASSUME NEW r, Sound(r), NEW w \in Selectable(r)
  PROVE  Sound(SelectRecord(r, w))
<1> DEFINE task == r.tasks[w]
           seen == [task EXCEPT !.unread = FALSE,
                                !.state = IF @ = "complete" THEN "idle" ELSE @]
           q    == SetTask(r, w, seen)
<1>1. r \in Registry /\ w \in Registered(r) /\ task.slot # NoSlot
  BY DEF Sound, Selectable, Candidates
<1>2. task \in Task
  BY <1>1, SlotRange
<1>3. seen \in Task /\ seen.slot = task.slot
  <2> HIDE DEF task
  <2>1. QED BY <1>2 DEF Task, TaskStates, AgentStates
<1>4. Sound(q) /\ w \in Registered(q) /\ q.tasks[w].slot # NoSlot
  <2> HIDE DEF seen
  <2>1. QED BY <1>1, <1>3, SetTaskSound
<1>5. SelectRecord(r, w) = [q EXCEPT !.selected = w]
  BY DEF SelectRecord
<1> HIDE DEF q
<1>6. QED BY <1>4, <1>5, MoveSelectionSound DEF Sound

\* applyState.
LEMMA ApplyStateSound ==
  ASSUME NEW r, Sound(r), NEW w \in Registered(r),
         NEW state \in AgentStates, NEW session \in Sessions \cup {None}
  PROVE  Sound(ApplyState(r, w, state, session))
<1> DEFINE task == r.tasks[w]
           t    == [task EXCEPT !.state   = state,
                                !.unread  = state = "complete" \/ (state # "idle" /\ @),
                                !.session = IF session = None THEN @ ELSE session]
<1>1. task \in Task
  BY SlotRange DEF Sound
<1>2. t \in Task /\ t.slot = task.slot
  <2> HIDE DEF task
  <2>1. (state = "complete" \/ (state # "idle" /\ task.unread)) \in BOOLEAN
    OBVIOUS
  <2>2. (IF session = None THEN task.session ELSE session) \in Sessions \cup {None}
    BY <1>1 DEF Task
  <2>3. QED BY <1>1, <2>1, <2>2 DEF Task, TaskStates
<1>3. ApplyState(r, w, state, session) = SetTask(r, w, t)
  BY DEF ApplyState
<1> HIDE DEF t
<1>4. QED BY <1>2, <1>3, SetTaskSound

\* clearSession.
LEMMA ClearSessionSound ==
  ASSUME NEW r, Sound(r), NEW w \in Registered(r)
  PROVE  Sound(ClearSession(r, w))
<1> DEFINE task == r.tasks[w]
           t    == [task EXCEPT !.session = None,
                                !.state   = IF @ \in {"waiting", "executing"}
                                              THEN "idle" ELSE @]
<1>1. task \in Task
  BY SlotRange DEF Sound
<1>2. t \in Task /\ t.slot = task.slot
  <2> HIDE DEF task
  <2>1. QED BY <1>1 DEF Task, TaskStates, AgentStates
<1>3. ClearSession(r, w) = SetTask(r, w, t)
  BY DEF ClearSession
<1> HIDE DEF t
<1>4. QED BY <1>2, <1>3, SetTaskSound

\* markReconnecting and markConnected.
LEMMA MarkConnectionSound ==
  ASSUME NEW r, Sound(r), NEW w \in Registered(r),
         NEW conn \in {"connected", "reconnecting"}
  PROVE  Sound(MarkConnection(r, w, conn))
<1>1. r.tasks[w] \in Task
  BY SlotRange DEF Sound
<1>2. /\ [r.tasks[w] EXCEPT !.conn = conn] \in Task
      /\ [r.tasks[w] EXCEPT !.conn = conn].slot = r.tasks[w].slot
  BY <1>1 DEF Task
<1>3. QED BY <1>2, SetTaskSound DEF MarkConnection

\* markDisconnected: the fallback runs on the registry the mark leaves.
LEMMA MarkDisconnectedSound ==
  ASSUME NEW r, Sound(r), NEW w \in Registered(r)
  PROVE  Sound(MarkDisconnected(r, w))
<1> DEFINE t    == [r.tasks[w] EXCEPT !.state = "disconnected", !.conn = "reconnecting"]
           gone == SetTask(r, w, t)
<1>1. r.tasks[w] \in Task
  BY SlotRange DEF Sound
<1>2. t \in Task /\ t.slot = r.tasks[w].slot
  BY <1>1 DEF Task, TaskStates
<1>3. Sound(gone)
  <2> HIDE DEF t
  <2>1. QED BY <1>2, SetTaskSound
<1>4. Sound(SelectFallback(gone, {w}))
  <2> HIDE DEF gone
  <2>1. QED BY <1>3, FallbackSound DEF SelectFallback, Sound
<1>5. MarkDisconnected(r, w) = IF r.selected = w THEN SelectFallback(gone, {w}) ELSE gone
  BY DEF MarkDisconnected
<1> HIDE DEF gone
<1>6. QED BY <1>3, <1>4, <1>5

\* unregister.
LEMMA UnregisterSound ==
  ASSUME NEW r, Sound(r), NEW w \in Registered(r)
  PROVE  Sound(Unregister(r, w))
<1> DEFINE rest == SetTask(r, w, None)
<1>1. w \in Wrappers
  BY DEF Registered
<1>2. /\ rest \in Registry /\ SlotsUnshared(rest)
      /\ r.selected # w => Sound(rest)
  BY <1>1, RemoveUnshared
<1>3. Unregister(r, w) = IF r.selected = w THEN SelectFallback(rest, {}) ELSE rest
  BY DEF Unregister
<1> HIDE DEF rest
<1>4. Sound(SelectFallback(rest, {}))
  BY <1>2, FallbackSound DEF SelectFallback
<1>5. QED BY <1>2, <1>3, <1>4

-----------------------------------------------------------------------------
(***************************************************************************)
(* Registration, and what a promoted host restores.                        *)
(***************************************************************************)
\* A slot granted to w is in range, and no other task's.
LEMMA AllocatedSlot ==
  ASSUME NEW r \in Registry, NEW w \in Wrappers \ Registered(r),
         NEW want \in {AnySlot, NoSlot} \cup Slots, SlotGranted(r, w, want)
  PROVE  LET slot == AllocateSlot(r, want)
         IN /\ slot \in Slots \cup {NoSlot}
            /\ slot # NoSlot => TaskAtSlot(r, slot) = {}
<1> DEFINE slot == AllocateSlot(r, want)
<1>1. CASE want # AnySlot
  <2>1. slot = want
    BY <1>1 DEF AllocateSlot
  <2>2. want \in Slots => TaskAtSlot(r, want) \subseteq {w}
    BY SlotCountAssumption DEF SlotGranted, Slots, AnySlot, NoSlot
  <2>3. w \notin TaskAtSlot(r, want)
    BY DEF TaskAtSlot
  <2>4. QED BY <1>1, <2>1, <2>2, <2>3
<1>2. CASE want = AnySlot /\ FreeSlots(r) = {}
  BY <1>2 DEF AllocateSlot
<1>3. CASE want = AnySlot /\ FreeSlots(r) # {}
  <2>1. FreeSlots(r) \in SUBSET Nat
    BY SlotCountAssumption DEF FreeSlots, Slots
  <2>2. \E s \in FreeSlots(r) : \A n \in FreeSlots(r) : s <= n
    BY <1>3, <2>1, LeastNatural
  <2>3. slot \in FreeSlots(r)
    BY <1>3, <2>2 DEF AllocateSlot
  <2>4. QED BY <2>3 DEF FreeSlots
<1>4. QED BY <1>1, <1>2, <1>3

\* register, of a wrapper the registry does not hold.
LEMMA RegisterNewSound ==
  ASSUME NEW r, Sound(r), NEW w \in Wrappers \ Registered(r),
         NEW want \in {AnySlot, NoSlot} \cup Slots, SlotGranted(r, w, want),
         NEW rec \in Recovery \cup {None}
  PROVE  Sound(RegisterNew(r, w, want, rec)) /\ Connects(RegisterNew(r, w, want, rec), r, w)
<1> DEFINE slot  == AllocateSlot(r, want)
           takes == slot # NoSlot /\ (r.selected = None \/ (rec # None /\ rec.selected))
           t     == [slot    |-> slot,
                     state   |-> IF rec = None THEN "idle" ELSE rec.state,
                     conn    |-> "connected",
                     unread  |-> rec # None /\ rec.unread,
                     session |-> IF rec = None THEN None ELSE rec.session]
           next  == SetTask(r, w, t)
<1>1. r \in Registry /\ r.selected # w
  BY NoneAssumption DEF Sound, SelectionInSlot
<1>2. slot \in Slots \cup {NoSlot} /\ (slot # NoSlot => TaskAtSlot(r, slot) = {})
  BY <1>1, AllocatedSlot
<1>3. t \in Task /\ t.slot = slot
  <2> HIDE DEF slot
  <2>1. (rec # None /\ rec.unread) \in BOOLEAN
    OBVIOUS
  <2>2. (IF rec = None THEN "idle" ELSE rec.state) \in TaskStates
    BY DEF Recovery, TaskStates, AgentStates
  <2>3. (IF rec = None THEN None ELSE rec.session) \in Sessions \cup {None}
    BY DEF Recovery
  <2>4. QED BY <1>2, <2>1, <2>2, <2>3 DEF Task
<1>4. /\ Sound(next) /\ w \in Registered(next)
      /\ takes => next.tasks[w].slot # NoSlot
  <2> HIDE DEF slot, t
  <2>1. Sound(next) /\ w \in Registered(next) /\ next.tasks[w] = t
    BY <1>1, <1>2, <1>3, PlaceSound
  <2>2. QED BY <2>1, <1>3
<1>5. takes => Sound([next EXCEPT !.selected = w])
  <2> HIDE DEF next, takes
  <2>1. QED BY <1>4, MoveSelectionSound DEF Sound
<1>6. RegisterNew(r, w, want, rec) = IF takes THEN [next EXCEPT !.selected = w] ELSE next
  BY DEF RegisterNew
<1>7. Connects(next, r, w) /\ Connects([next EXCEPT !.selected = w], r, w)
  <2> HIDE DEF t
  <2>1. t.conn = "connected"
    BY DEF t
  <2>2. next.tasks = [r.tasks EXCEPT ![w] = t] /\ [next EXCEPT !.selected = w].tasks = next.tasks
    BY <1>1, <1>4 DEF SetTask, Sound, Registry
  <2> QED BY <1>3, <2>1, <2>2 DEF Connects
<1> HIDE DEF next, takes
<1>8. QED BY <1>4, <1>5, <1>6, <1>7

\* register, of a wrapper the registry holds; want never demotes a task that
\* has a slot to overflow.
LEMMA RegisterAgainSound ==
  ASSUME NEW r, Sound(r), NEW w \in Registered(r),
         NEW want \in {AnySlot, NoSlot} \cup Slots, SlotGranted(r, w, want),
         want = NoSlot => r.tasks[w].slot = NoSlot,
         NEW rec \in Recovery \cup {None}, NEW newer \in BOOLEAN
  PROVE  /\ Sound(RegisterAgain(r, w, want, rec, newer))
         /\ Connects(RegisterAgain(r, w, want, rec, newer), r, w)
<1> DEFINE task  == r.tasks[w]
           merge == rec # None /\ newer
           from  == IF merge THEN rec ELSE task
           slot  == IF want = AnySlot THEN task.slot ELSE want
           takes == slot # NoSlot /\ (r.selected = None \/ (merge /\ rec.selected))
           t     == [slot    |-> slot,
                     state   |-> from.state,
                     conn    |-> "connected",
                     unread  |-> from.unread,
                     session |-> from.session]
           next  == SetTask(r, w, t)
<1>1. w \in Wrappers /\ task \in Task
  BY SlotRange DEF Sound, Registered
<1>2. slot \in Slots \cup {NoSlot}
  <2> HIDE DEF task
  <2>1. QED BY <1>1 DEF Task
<1>3. slot # NoSlot => TaskAtSlot(r, slot) \subseteq {w}
  <2>1. CASE want = AnySlot
    BY <2>1 DEF Sound, SlotsUnshared, TaskAtSlot
  <2>2. CASE want # AnySlot
    BY <2>2 DEF SlotGranted
  <2>3. QED BY <2>1, <2>2
<1>4. r.selected = w => slot # NoSlot
  BY <1>1, NoneAssumption DEF Sound, SelectionInSlot
<1>5. t \in Task /\ t.slot = slot
  <2> HIDE DEF slot, task
  <2>1. /\ from.state \in TaskStates /\ from.unread \in BOOLEAN
        /\ from.session \in Sessions \cup {None}
    BY <1>1 DEF Task, Recovery
  <2> HIDE DEF from
  <2>2. QED BY <1>2, <2>1 DEF Task
<1>6. /\ Sound(next) /\ w \in Registered(next)
      /\ takes => next.tasks[w].slot # NoSlot
  <2> HIDE DEF slot, t
  <2>1. Sound(next) /\ w \in Registered(next) /\ next.tasks[w] = t
    BY <1>1, <1>3, <1>4, <1>5, PlaceSound
  <2>2. QED BY <2>1, <1>5
<1>7. takes => Sound([next EXCEPT !.selected = w])
  <2> HIDE DEF next, takes
  <2>1. QED BY <1>6, MoveSelectionSound DEF Sound
<1>8. RegisterAgain(r, w, want, rec, newer)
        = IF takes THEN [next EXCEPT !.selected = w] ELSE next
  BY DEF RegisterAgain
<1>9. Connects(next, r, w) /\ Connects([next EXCEPT !.selected = w], r, w)
  <2> HIDE DEF t
  <2>1. t.conn = "connected"
    BY DEF t
  <2>2. next.tasks = [r.tasks EXCEPT ![w] = t] /\ [next EXCEPT !.selected = w].tasks = next.tasks
    BY <1>6 DEF SetTask, Sound, Registry
  <2> QED BY <1>5, <2>1, <2>2 DEF Connects
<1> HIDE DEF next, takes
<1>10. QED BY <1>6, <1>7, <1>8, <1>9

\* Both at once.
LEMMA RegisterSound ==
  ASSUME NEW r, Sound(r), NEW w \in Wrappers,
         NEW want \in {AnySlot, NoSlot} \cup Slots, SlotGranted(r, w, want),
         w \in Registered(r) /\ want = NoSlot => r.tasks[w].slot = NoSlot,
         NEW rec \in Recovery \cup {None}, NEW newer \in BOOLEAN
  PROVE  Sound(Register(r, w, want, rec, newer)) /\ Connects(Register(r, w, want, rec, newer), r, w)
BY RegisterNewSound, RegisterAgainSound DEF Register

\* withoutProcess.
LEMMA WithoutProcessSound ==
  ASSUME NEW r, Sound(r), NEW gone \in Wrappers
  PROVE  Sound(WithoutProcess(r, gone))
<1> DEFINE rest == SetTask(r, gone, None)
<1>1. /\ rest \in Registry /\ SlotsUnshared(rest)
      /\ r.selected # gone => Sound(rest)
  BY RemoveUnshared
<1>2. WithoutProcess(r, gone)
        = IF r.selected = gone THEN [rest EXCEPT !.selected = None] ELSE rest
  BY DEF WithoutProcess
<1> HIDE DEF rest
<1>3. Sound([rest EXCEPT !.selected = None])
  BY <1>1, MoveSelectionSound
<1>4. QED BY <1>1, <1>2, <1>3

\* restore rewrites connections, which gives q, and the selection if need be.
Rewritten(q, r, connected) ==
  /\ Registered(q) = Registered(r) /\ q.selected = r.selected
  /\ \A w \in Registered(r) : q.tasks[w].slot = r.tasks[w].slot
  /\ Restore(r, connected)
       = IF q.selected \in Registered(q) THEN q
         ELSE [q EXCEPT !.selected = FallbackWrapper(q, {}, TRUE)]

\* There is such a q.
LEMMA RestoreRewrites ==
  ASSUME NEW r, Sound(r), NEW connected
  PROVE  \E q \in Registry : Rewritten(q, r, connected)
<1> DEFINE Back(w) == [r.tasks[w] EXCEPT !.conn = IF w = connected THEN "connected"
                                                                   ELSE "reconnecting"]
           tasks == [w \in Wrappers |-> IF r.tasks[w] = None THEN None ELSE Back(w)]
           q     == [tasks |-> tasks, selected |-> r.selected]
<1>1. \A w \in Registered(r) : Back(w) \in Task /\ Back(w).slot = r.tasks[w].slot
  <2> TAKE w \in Registered(r)
  <2>1. r.tasks[w] \in Task
    BY SlotRange DEF Sound
  <2>2. QED BY <2>1 DEF Task
<1>2. Registered(q) = Registered(r)
  BY <1>1, NoneIsNoTask DEF Registered
<1>3. \A w \in Registered(r) : q.tasks[w].slot = r.tasks[w].slot
  BY <1>1 DEF Registered
<1>4. q \in Registry
  <2>1. tasks \in [Wrappers -> Task \cup {None}]
    <3> HIDE DEF Back
    <3>1. QED BY <1>1 DEF Registered
  <2>2. r.selected \in Wrappers \cup {None}
    BY DEF Sound, Registry
  <2> HIDE DEF tasks
  <2>3. QED BY <2>1, <2>2 DEF Registry
<1>5. q.selected = r.selected
  OBVIOUS
<1>6. Restore(r, connected)
        = IF q.selected \in Registered(q) THEN q
          ELSE [q EXCEPT !.selected = FallbackWrapper(q, {}, TRUE)]
  BY DEF Restore
<1> HIDE DEF q
<1>7. QED BY <1>2, <1>3, <1>4, <1>5, <1>6 DEF Rewritten

\* restore.
LEMMA RestoreSound ==
  ASSUME NEW r, Sound(r), NEW connected
  PROVE  Sound(Restore(r, connected))
<1>1. PICK q \in Registry : Rewritten(q, r, connected)
  BY RestoreRewrites
<1>2. SlotsUnshared(q) /\ SelectionInSlot(q)
  BY <1>1 DEF Sound, SlotsUnshared, SelectionInSlot, Rewritten
<1>3. Sound([q EXCEPT !.selected = FallbackWrapper(q, {}, TRUE)])
  BY <1>2, FallbackSound
<1>4. QED BY <1>1, <1>2, <1>3 DEF Sound, Rewritten
=============================================================================
