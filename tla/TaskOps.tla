------------------------------ MODULE TaskOps ------------------------------
(***************************************************************************)
(* The value semantics of class TaskRegistry (src/src/state.ts): every     *)
(* public method is an operator from a registry value to the registry      *)
(* value it leaves.  A registry is a record                                *)
(*     [tasks : Wrappers -> Task \cup {None}, selected : wrapper or None]  *)
(* None standing for null, undefined and a missing Map entry.              *)
(*                                                                         *)
(* Left out because nothing here depends on them: names, kinds, working    *)
(* directories, process ids and registration times.  updatedAt is kept     *)
(* apart, in the modules that reason about revisions, so that a recovery   *)
(* snapshot's "is it newer" verdict is a parameter of Register.            *)
(***************************************************************************)
EXTENDS Integers, FiniteSets

CONSTANTS Wrappers,    \* wrapper identities (randomUUID per agent process)
          Sessions,    \* hook session identities
          SlotCount,   \* TASK_SLOT_COUNT, six in the product
          None         \* null / undefined / absent

ASSUME SlotCountAssumption == SlotCount \in Nat \ {0}
ASSUME NoneAssumption == None \notin Wrappers /\ None \notin Sessions

NoSlot  == 0           \* slot: null, an overflow task
AnySlot == -1          \* slot omitted: first free slot
Slots   == 1 .. SlotCount

AgentStates == {"idle", "executing", "waiting", "complete", "error"}
TaskStates  == AgentStates \cup {"disconnected"}

Task == [slot    : Slots \cup {NoSlot},
         state   : TaskStates,
         conn    : {"connected", "reconnecting"},
         unread  : BOOLEAN,
         session : Sessions \cup {None}]

ASSUME NoneIsNoTask == None \notin Task /\ None \notin TaskStates

Registry == [tasks    : [Wrappers -> Task \cup {None}],
             selected : Wrappers \cup {None}]

\* What a client caches of its own task and sends back after a host exit.
Recovery == [state    : TaskStates,
             unread   : BOOLEAN,
             selected : BOOLEAN,
             session  : Sessions \cup {None}]

EmptyRegistry == [tasks |-> [w \in Wrappers |-> None], selected |-> None]

Registered(reg)   == {w \in Wrappers : reg.tasks[w] # None}
TaskAtSlot(reg, s) == {w \in Registered(reg) : reg.tasks[w].slot = s}
FreeSlots(reg)    == {s \in Slots : TaskAtSlot(reg, s) = {}}

\* What every caller may rely on: no slot held twice, and a selection that is
\* a registered task in a slot.
SlotsUnshared(reg) ==
  \A w, v \in Registered(reg) :
    w # v /\ reg.tasks[w].slot # NoSlot => reg.tasks[w].slot # reg.tasks[v].slot

SelectionInSlot(reg) ==
  reg.selected # None =>
    reg.selected \in Registered(reg) /\ reg.tasks[reg.selected].slot # NoSlot

\* A method's writes to one task.
SetTask(reg, w, task) == [reg EXCEPT !.tasks[w] = task]

LowestSlot(reg, S) ==
  CHOOSE w \in S : \A v \in S : reg.tasks[w].slot <= reg.tasks[v].slot
HighestSlot(reg, S) ==
  CHOOSE w \in S : \A v \in S : reg.tasks[w].slot >= reg.tasks[v].slot

(***************************************************************************)
(* Selection.                                                              *)
(***************************************************************************)
\* What fallbackWrapperId may choose from.
Candidates(reg, exclude, includeReconnecting) ==
  {w \in Registered(reg) \ exclude :
     /\ reg.tasks[w].slot # NoSlot
     /\ reg.tasks[w].state # "disconnected"
     /\ includeReconnecting \/ reg.tasks[w].conn = "connected"}

Selectable(reg) == Candidates(reg, {}, FALSE)

\* fallbackWrapperId: waiting first, then executing, then the lowest slot.
FallbackWrapper(reg, exclude, includeReconnecting) ==
  LET C          == Candidates(reg, exclude, includeReconnecting)
      Ranked(st) == {w \in C : reg.tasks[w].state = st}
  IN CASE C = {}                  -> None
       [] Ranked("waiting") # {}  -> LowestSlot(reg, Ranked("waiting"))
       [] Ranked("waiting") = {} /\ Ranked("executing") # {}
                                  -> LowestSlot(reg, Ranked("executing"))
       [] OTHER                   -> LowestSlot(reg, C)

SelectFallback(reg, exclude) ==
  [reg EXCEPT !.selected = FallbackWrapper(reg, exclude, FALSE)]

\* selectRecord acknowledges a completion as it selects.
SelectRecord(reg, w) ==
  LET task == reg.tasks[w]
      seen == [task EXCEPT !.unread = FALSE,
                           !.state = IF @ = "complete" THEN "idle" ELSE @]
  IN [SetTask(reg, w, seen) EXCEPT !.selected = w]

\* Mutant: stops at the ends instead of wrapping around.
TargetWithoutWrap(reg, delta) ==
  LET S    == Selectable(reg)
      Ahead == {w \in S : /\ reg.selected \in S
                          /\ delta * (reg.tasks[w].slot - reg.tasks[reg.selected].slot) > 0}
  IN IF Ahead = {} THEN IF reg.selected \in S THEN reg.selected ELSE LowestSlot(reg, S)
     ELSE IF delta = 1 THEN LowestSlot(reg, Ahead) ELSE HighestSlot(reg, Ahead)

\* selectRelative's target: the neighbour by slot, wrapping around; from no
\* selectable selection, Right starts at the lowest and Left at the highest.
RelativeTarget(reg, delta) ==
  LET S      == Selectable(reg)
      within == reg.selected \in S
      Right  == {w \in S : within /\ reg.tasks[w].slot > reg.tasks[reg.selected].slot}
      Left   == {w \in S : within /\ reg.tasks[w].slot < reg.tasks[reg.selected].slot}
  IN IF delta = 1
       THEN LowestSlot(reg, IF Right = {} THEN S ELSE Right)
       ELSE HighestSlot(reg, IF Left = {} THEN S ELSE Left)

(***************************************************************************)
(* Registration.  want is AnySlot, NoSlot or a slot; rec is a Recovery or  *)
(* None; newer says that rec's updatedAt exceeds the registered task's.    *)
(***************************************************************************)
\* Mutant: a requested slot is taken without asking who owns it.
SlotUnchecked(reg, w, want) == want \in {AnySlot, NoSlot} \cup Slots

\* allocateSlot and the reservation check: SlotConflictError leaves no trace.
SlotGranted(reg, w, want) ==
  \/ want \in {AnySlot, NoSlot}
  \/ want \in Slots /\ TaskAtSlot(reg, want) \subseteq {w}

AllocateSlot(reg, want) ==
  CASE want # AnySlot                          -> want
    [] want = AnySlot /\ FreeSlots(reg) = {}   -> NoSlot
    [] OTHER -> CHOOSE s \in FreeSlots(reg) : \A r \in FreeSlots(reg) : s <= r

RegisterNew(reg, w, want, rec) ==
  LET slot  == AllocateSlot(reg, want)
      takes == slot # NoSlot /\ (reg.selected = None \/ (rec # None /\ rec.selected))
      next  == SetTask(reg, w,
                 [slot    |-> slot,
                  state   |-> IF rec = None THEN "idle" ELSE rec.state,
                  conn    |-> "connected",
                  unread  |-> rec # None /\ rec.unread,
                  session |-> IF rec = None THEN None ELSE rec.session])
  IN IF takes THEN [next EXCEPT !.selected = w] ELSE next

RegisterAgain(reg, w, want, rec, newer) ==
  LET task  == reg.tasks[w]
      merge == rec # None /\ newer
      from  == IF merge THEN rec ELSE task
      slot  == IF want = AnySlot THEN task.slot ELSE want
      takes == slot # NoSlot /\ (reg.selected = None \/ (merge /\ rec.selected))
      next  == SetTask(reg, w,
                 [slot    |-> slot,
                  state   |-> from.state,
                  conn    |-> "connected",
                  unread  |-> from.unread,
                  session |-> from.session])
  IN IF takes THEN [next EXCEPT !.selected = w] ELSE next

Register(reg, w, want, rec, newer) ==
  IF w \in Registered(reg) THEN RegisterAgain(reg, w, want, rec, newer)
                           ELSE RegisterNew(reg, w, want, rec)

\* withoutProcess (task-recovery.ts): the wrapper whose host process exited is
\* dropped from the cached status, and so is a selection it held.
WithoutProcess(status, gone) ==
  LET rest == SetTask(status, gone, None)
  IN IF status.selected = gone THEN [rest EXCEPT !.selected = None] ELSE rest

\* restore: the cached tasks come back with only the promoted wrapper
\* connected; a cache that names no selection falls back, reconnecting
\* tasks included.
Restore(status, connected) ==
  LET tasks == [w \in Wrappers |->
                  IF status.tasks[w] = None THEN None
                  ELSE [status.tasks[w] EXCEPT
                          !.conn = IF w = connected THEN "connected"
                                                    ELSE "reconnecting"]]
      reg   == [tasks |-> tasks, selected |-> status.selected]
  IN IF status.selected \in Registered(reg) THEN reg
     ELSE [reg EXCEPT !.selected = FallbackWrapper(reg, {}, TRUE)]

\* Mutant: the selection keeps naming the task that went.
UnregisterSelected(reg, w) == [reg EXCEPT !.tasks[w] = None]

\* Mutant: the selection is dropped, with no fallback.
UnregisterWithoutFallback(reg, w) ==
  [tasks |-> [reg.tasks EXCEPT ![w] = None],
   selected |-> IF reg.selected = w THEN None ELSE reg.selected]

Unregister(reg, w) ==
  LET rest == SetTask(reg, w, None)
  IN IF reg.selected = w THEN SelectFallback(rest, {}) ELSE rest

(***************************************************************************)
(* Lifecycle.                                                              *)
(***************************************************************************)
\* applyState; session = None leaves the session identity alone.
ApplyState(reg, w, state, session) ==
  LET task == reg.tasks[w]
  IN SetTask(reg, w,
       [task EXCEPT !.state   = state,
                    !.unread  = state = "complete" \/ (state # "idle" /\ @),
                    !.session = IF session = None THEN @ ELSE session])

ClearSession(reg, w) ==
  LET task == reg.tasks[w]
  IN SetTask(reg, w,
       [task EXCEPT !.session = None,
                    !.state   = IF @ \in {"waiting", "executing"} THEN "idle" ELSE @])

\* markConnected and markReconnecting.
MarkConnection(reg, w, conn) ==
  SetTask(reg, w, [reg.tasks[w] EXCEPT !.conn = conn])

MarkDisconnected(reg, w) ==
  LET gone == SetTask(reg, w, [reg.tasks[w] EXCEPT !.state = "disconnected",
                                                   !.conn  = "reconnecting"])
  IN IF reg.selected = w THEN SelectFallback(gone, {w}) ELSE gone

=============================================================================
