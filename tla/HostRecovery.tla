---------------------------- MODULE HostRecovery ----------------------------
(***************************************************************************)
(* The life of several "opencontrol run" processes (src/src/cli.ts): one   *)
(* hosts the task registry, the others hold a registration and a stream of *)
(* statuses (client.ts, client-registration.ts).  When a stream ends, its  *)
(* process races for the lease with the status it saw last.  The winner    *)
(* seeds a new registry from it (task-recovery.ts), the others register    *)
(* again with their own snapshots, while the new host's timers run.        *)
(*                                                                         *)
(* The lease is the singleton that RuntimeLease implements.  The registry  *)
(* is TaskRegistry's; of the server, whose every handler is in HostServer, *)
(* this keeps one registration per wrapper and its two timers.  A process  *)
(* is one wrapper, and its pid stands for the wrapper.                     *)
(***************************************************************************)
EXTENDS TaskOps

CONSTANTS Wants,    \* what newcomers ask for: AnySlot or a slot
          Reports,  \* states that agents report
          Budgets,  \* what the environment may do in a behaviour
          MaxStamp  \* bound on updatedAt, above what the budgets can reach

ASSUME WantsAssumption   == Wants \subseteq Slots \cup {AnySlot}
ASSUME ReportsAssumption == Reports \subseteq AgentStates
ASSUME StampsAssumption  == MaxStamp \in Nat

VARIABLES reg, updated,  \* the host's TaskRegistry
          host,          \* the owner of the lease
          serving,       \* its descriptor is published
          held,          \* the host's current registration of each wrapper
          pc,            \* where each process is in runWrappedAgent
          last,          \* lastStatus of each client
          first,         \* activeRegistration.task, until there is a lastStatus
          served,        \* activeRegistration.descriptor: whose host that was
          budget,
          settled,       \* ghost: the registry when last everybody agreed on it,
                         \*        without a choice that a host could not keep
          touched,       \* ghost: tasks changed, and their wrappers not told yet
          behind         \* ghost: wrappers not told of the last choice of a task

registryVars == <<reg, updated>>
hostVars     == <<host, serving, held>>
clientVars   == <<last, first, served>>
ghostVars    == <<settled, touched, behind>>
vars         == <<registryVars, hostVars, pc, clientVars, budget, ghostVars>>

Registrations == INSTANCE TaskRegistry WITH Times <- {}, Snapshots <- {},
                                            ReportedStates <- Reports

Steps == {"out", "joining", "starting", "hosting", "failing", "leaving",
          "pending", "streaming", "lost", "rejoining", "gone"}

Snapshot == [task : Task, selected : BOOLEAN, updated : Nat]
Status   == [reg : Registry, updated : [Wrappers -> Nat]]

ASSUME NoneIsNoCache ==
  None \notin Snapshot /\ None \notin Status /\ None \notin Recovery /\ None \notin Registry

TypeOK ==
  /\ reg \in Registry /\ updated \in [Wrappers -> Nat]
  /\ host \in Wrappers \cup {None} /\ serving \in BOOLEAN
  /\ held \in [Wrappers -> {"none", "pending", "open"}]
  /\ pc \in [Wrappers -> Steps]
  /\ last \in [Wrappers -> Status \cup {None}]
  /\ first \in [Wrappers -> Snapshot \cup {None}]
  /\ served \in [Wrappers -> Wrappers \cup {None}]
  /\ settled \in Registry \cup {None}
  /\ touched \subseteq Wrappers /\ behind \subseteq Wrappers

NoStamps == [w \in Wrappers |-> 0]
NoneHeld == [w \in Wrappers |-> "none"]

Init ==
  /\ reg = EmptyRegistry /\ updated = NoStamps
  /\ host = None /\ serving = FALSE /\ held = NoneHeld
  /\ pc = [w \in Wrappers |-> "out"]
  /\ last = [w \in Wrappers |-> None] /\ first = last /\ served = last
  /\ budget \in Budgets
  /\ settled = None /\ touched = {} /\ behind = {}

Spend(what) == budget[what] > 0 /\ budget' = [budget EXCEPT ![what] = @ - 1]

Goes(w, step) == pc' = [pc EXCEPT ![w] = step]

Alive == {w \in Wrappers : pc[w] \notin {"out", "gone"}}

-----------------------------------------------------------------------------
(***************************************************************************)
(* What a client knows of its own task, and what it sends of it.           *)
(***************************************************************************)
SnapshotOf(r, u, w) == [task |-> r.tasks[w], selected |-> r.selected = w, updated |-> u[w]]

\* taskFromStatus(lastStatus, w) ?? activeRegistration.task
Cached(w) ==
  IF last[w] # None /\ w \in Registered(last[w].reg)
    THEN SnapshotOf(last[w].reg, last[w].updated, w)
    ELSE first[w]

\* Mutants: the slot is left to the host; the newest state is not sent.
AnyRecoverySlot(snapshot) == AnySlot
BareRecovery(snapshot) ==
  [state |-> "idle", unread |-> FALSE, selected |-> snapshot.selected, session |-> None]

\* recoveryRegistration: the slot, null included, and the recovery metadata.
RecoverySlot(snapshot) == snapshot.task.slot
RecoveryOf(snapshot) ==
  [state    |-> snapshot.task.state, unread |-> snapshot.task.unread,
   selected |-> snapshot.selected,   session |-> snapshot.task.session]

\* Date.now() when the host stamps w's task: the clock is past every revision
\* of that task anybody holds.
Now(w) ==
  LET copies == {updated[w]} \cup {last[v].updated[w] : v \in {x \in Wrappers : last[x] # None}}
                  \cup {first[v].updated : v \in {x \in {w} : first[x] # None}}
  IN 1 + (CHOOSE s \in copies : \A t \in copies : s >= t)

\* A host that goes on without the chosen task, alive as it is, chooses another,
\* and what everybody agreed on says no more of the choice.  The tasks that come
\* back are to be as they were.
Forgets ==
  settled' = IF settled # None /\ settled.selected \in Alive \ Registered(reg')
               THEN [settled EXCEPT !.selected = None] ELSE settled

-----------------------------------------------------------------------------
(***************************************************************************)
(* Hosting.                                                                *)
(***************************************************************************)
\* listenRuntime up to its lease: the winner goes on alone, the others turn
\* to the winner.
ListenRuntime(w, otherwise) ==
  /\ IF host = None THEN host' = w /\ Goes(w, "starting")
                    ELSE UNCHANGED host /\ Goes(w, otherwise)
  /\ UNCHANGED <<registryVars, serving, held, clientVars, budget, ghostVars>>

Start(w)   == pc[w] = "out"  /\ ListenRuntime(w, "joining")
Recover(w) == pc[w] = "lost" /\ ListenRuntime(w, "rejoining")

\* Mutant: the seed comes without its selection.
SeedUnselected(w) == [WithoutProcess(last[w].reg, served[w]) EXCEPT !.selected = None]

\* The initialize callback of a promoted process: the cached status without
\* the process that hosted before is restored, and its own task registered in
\* it once more, with nothing newer to say.
Seed(w) == WithoutProcess(last[w].reg, served[w])

Promote(w) ==
  \E seed \in {Seed(w)} : \E restored \in {Restore(seed, w)} :
    LET own == SnapshotOf(restored, last[w].updated, w)
    IN /\ reg' = Register(restored, w, RecoverySlot(own), RecoveryOf(own), FALSE)
       /\ updated' = [v \in Wrappers |-> CASE v = w                    -> Now(w)
                                           [] v \notin Registered(reg') -> 0
                                           [] OTHER                     -> last[w].updated[v]]
       /\ Now(w) <= MaxStamp

\* listenRuntime from its lease on: the initialize callback, and publication.
Publish(w) ==
  /\ pc[w] = "starting"
  /\ \/ last[w] # None /\ Promote(w)
     \/ /\ last[w] = None /\ first[w] # None
        /\ Registrations!RegisterFirst(w, RecoverySlot(first[w]), RecoveryOf(first[w]),
                                       first[w].updated, Now(w))
     \/ /\ last[w] = None /\ first[w] = None
        /\ \E want \in Wants : Registrations!RegisterFirst(w, want, None, 0, Now(w))
  /\ serving' = TRUE
  /\ Goes(w, "hosting")
  /\ Forgets
  /\ UNCHANGED <<host, held, clientVars, budget, touched, behind>>

\* startHostHardware throws in the callback that publishes; the process then
\* closes its server before it gives up the lease and races again.
HardwareFails(w) ==
  /\ pc[w] = "starting" /\ served[w] # None /\ Spend("hardware")
  /\ Goes(w, "failing")
  /\ UNCHANGED <<registryVars, hostVars, clientVars, ghostVars>>

\* The end of a host process takes everything it held with it.
NoHost ==
  /\ host' = None /\ serving' = FALSE /\ held' = NoneHeld
  /\ reg' = EmptyRegistry /\ updated' = NoStamps

\* Mutant: a promotion that failed leaves its lease behind.
ClosedKeepingLease(w) ==
  /\ pc[w] \in {"failing", "leaving"}
  /\ Goes(w, IF pc[w] = "failing" THEN "lost" ELSE "gone")
  /\ UNCHANGED <<registryVars, hostVars, clientVars, budget, ghostVars>>

Closed(w) ==
  /\ pc[w] \in {"failing", "leaving"}
  /\ NoHost
  /\ Goes(w, IF pc[w] = "failing" THEN "lost" ELSE "gone")
  /\ UNCHANGED <<clientVars, budget, ghostVars>>

\* What an unregistration leaves, with the revision of a task that takes over
\* the selection.
RemoveTask(w) ==
  LET next == Unregister(reg, w).selected
  IN /\ Registrations!UnregisterTask(w, IF next = None THEN 0 ELSE Now(next))
     /\ held' = [held EXCEPT ![w] = "none"]

-----------------------------------------------------------------------------
(***************************************************************************)
(* Registering with the host.                                              *)
(***************************************************************************)
Offline  == ~serving
Granted(w, want) == serving /\ SlotGranted(reg, w, want)

\* registerClient of a newcomer, and its answer.
Join(w, want) ==
  /\ pc[w] = "joining" /\ Granted(w, want)
  /\ Registrations!RegisterFirst(w, want, None, 0, Now(w))
  /\ held' = [held EXCEPT ![w] = "pending"]
  /\ first' = [first EXCEPT ![w] = SnapshotOf(reg', updated', w)]
  /\ served' = [served EXCEPT ![w] = host]
  /\ Goes(w, "pending")
  /\ UNCHANGED <<host, serving, last, budget, ghostVars>>

\* A newcomer gives up at once at a slot conflict, and after ten attempts when
\* there is no host.
JoinFails(w) ==
  /\ pc[w] = "joining" /\ (Offline \/ \E want \in Wants : ~Granted(w, want))
  /\ Goes(w, "gone")
  /\ UNCHANGED <<registryVars, hostVars, clientVars, budget, ghostVars>>

\* handleRegister of a recovery registration.
Reregister(w) ==
  \E own \in {Cached(w)} :
     /\ pc[w] = "rejoining" /\ Granted(w, RecoverySlot(own))
     /\ \/ Registrations!RegisterFirst(w, RecoverySlot(own), RecoveryOf(own), own.updated, Now(w))
        \/ Registrations!ReRegister(w, RecoverySlot(own), RecoveryOf(own), own.updated, Now(w))
     /\ held' = [held EXCEPT ![w] = "pending"]
     /\ UNCHANGED <<host, serving>>

Rejoin(w) ==
  /\ Reregister(w)
  /\ served' = [served EXCEPT ![w] = host]
  /\ first' = [first EXCEPT ![w] = IF last[w] = None THEN SnapshotOf(reg', updated', w) ELSE @]
  /\ Goes(w, "pending")
  /\ UNCHANGED <<last, budget, ghostVars>>

\* The answer is lost, which counts as HOST_OFFLINE: the client tries again.
RejoinUnanswered(w) ==
  /\ Reregister(w) /\ Spend("answers")
  /\ UNCHANGED <<pc, clientVars, ghostVars>>

\* The deadline of registerClientWhenReady, while there is no host or somebody
\* else has the slot; then the loop races again.
GiveUp(w) ==
  /\ pc[w] = "rejoining" /\ ~Granted(w, RecoverySlot(Cached(w)))
  /\ Goes(w, "lost")
  /\ UNCHANGED <<registryVars, hostVars, clientVars, budget, ghostVars>>

-----------------------------------------------------------------------------
(***************************************************************************)
(* Streams.                                                                *)
(***************************************************************************)
Attachable(w) == serving /\ host = served[w] /\ held[w] = "pending"
Connected(w)  == host = served[w] /\ held[w] = "open"

Connect(w) ==
  /\ pc[w] = "pending"
  /\ IF Attachable(w) THEN held' = [held EXCEPT ![w] = "open"] /\ Goes(w, "streaming")
                      ELSE UNCHANGED held /\ Goes(w, "lost")
  /\ UNCHANGED <<registryVars, host, serving, clientVars, budget, ghostVars>>

\* Everybody alive is attached and has seen the registry as it is.
Attached(w) == serving /\ (pc[w] = "hosting" \/ (pc[w] = "streaming" /\ Connected(w)))
Agreed(l)   == serving /\ \A w \in Alive :
                 Attached(w) /\ (w # host => l[w] # None /\ l[w].reg = reg)

\* Some process holds a later revision of w's task than the host does: one that
\* the host let go with the task, when its lease ran out.
NewerHeld(w) == \E v \in Alive : last[v] # None /\ last[v].updated[w] > updated[w]

\* A status frame arrives.
Deliver(w) ==
  /\ pc[w] = "streaming" /\ Connected(w)
  /\ last[w] # [reg |-> reg, updated |-> updated]
  /\ last' = [last EXCEPT ![w] = [reg |-> reg, updated |-> updated]]
  /\ first' = [first EXCEPT ![w] = None]
  /\ settled' = IF Agreed(last') THEN reg ELSE settled
  /\ touched' = IF NewerHeld(w) THEN touched ELSE touched \ {w}
  /\ behind' = behind \ {w}
  /\ UNCHANGED <<registryVars, hostVars, pc, served, budget>>

\* The stream ends for the client: with its host, or on its own.
StreamEnds(w) ==
  /\ pc[w] = "streaming" /\ ~(Connected(w) /\ serving)
  /\ Goes(w, "lost")
  /\ UNCHANGED <<registryVars, hostVars, clientVars, budget, ghostVars>>

StreamBreaks(w) ==
  /\ pc[w] = "streaming" /\ Connected(w) /\ serving /\ Spend("breaks")
  /\ Goes(w, "lost")
  /\ UNCHANGED <<registryVars, hostVars, clientVars, ghostVars>>

\* The 'close' event at the host of a stream its client no longer reads.
SocketClosed(w) ==
  /\ serving /\ held[w] = "open" /\ pc[w] # "streaming"
  /\ Registrations!SetConnection(w, "reconnecting", Now(w))
  /\ held' = [held EXCEPT ![w] = "none"]
  /\ UNCHANGED <<host, serving, pc, clientVars, budget, ghostVars>>

\* Mutant: the timer is armed for registrations whose answer was read.
AnsweredExpires(w) ==
  /\ serving /\ held[w] = "pending" /\ served[w] = host
  /\ RemoveTask(w) /\ Forgets
  /\ UNCHANGED <<host, serving, pc, clientVars, budget, touched, behind>>

\* The 30 s timer of a registration; only a slow client lets it run out.
PendingExpires(w) ==
  /\ serving /\ held[w] = "pending"
  /\ IF pc[w] \in {"pending", "rejoining"} THEN Spend("slow") ELSE UNCHANGED budget
  /\ RemoveTask(w) /\ Forgets
  /\ UNCHANGED <<host, serving, pc, clientVars, touched, behind>>

\* The 5 s lease of a task that is reconnecting.
LeaseExpires(w) ==
  /\ serving /\ w \in Registered(reg) /\ reg.tasks[w].conn = "reconnecting"
  /\ RemoveTask(w) /\ Forgets
  /\ UNCHANGED <<host, serving, pc, clientVars, budget, touched, behind>>

-----------------------------------------------------------------------------
(***************************************************************************)
(* Agents, the user, and the ends of processes.                            *)
(***************************************************************************)
\* A hook of w's agent reaches the host.
Report(w, state) ==
  /\ serving /\ w \in Registered(reg) /\ w \in Alive /\ reg.tasks[w].state # state
  /\ Spend("events")
  /\ Registrations!SetState(w, state, None, Now(w))
  /\ settled' = None /\ touched' = touched \cup {w}
  /\ UNCHANGED <<hostVars, pc, clientVars, behind>>

SelectSlot(s) ==
  \E w \in Selectable(reg) :
    /\ serving /\ reg.selected # w
    /\ Spend("events")
    /\ reg.tasks[w].slot = s /\ Registrations!SelectSlot(s, Now(w))
    /\ settled' = None /\ touched' = touched \cup {w}
    /\ behind' = Wrappers \ {host}
    /\ UNCHANGED <<hostVars, pc, clientVars>>

\* shutdown of the host process: its task goes, then the server closes.
HostLeaves(w) ==
  /\ pc[w] = "hosting" /\ Spend("ends")
  /\ RemoveTask(w)
  /\ serving' = FALSE
  /\ Goes(w, "leaving")
  /\ UNCHANGED <<host, clientVars, ghostVars>>

\* shutdown of a client cancels the registration it knows of.  One that was
\* made meanwhile, and whose answer it has not seen, is nobody's to cancel.
ClientLeaves(w) ==
  /\ pc[w] \in {"pending", "streaming", "lost", "rejoining"} /\ Spend("ends")
  /\ IF /\ serving /\ host = served[w] /\ w \in Registered(reg)
        /\ pc[w] \in {"lost", "rejoining"} => held[w] # "pending"
       THEN RemoveTask(w)
       ELSE UNCHANGED <<registryVars, held>>
  /\ Goes(w, "gone")
  /\ UNCHANGED <<host, serving, clientVars, ghostVars>>

\* A process is killed, or its machine's terminal goes.
Die(w) ==
  /\ w \in Alive /\ Spend("ends")
  /\ Goes(w, "gone")
  /\ IF host = w THEN NoHost ELSE UNCHANGED <<registryVars, hostVars>>
  /\ UNCHANGED <<clientVars, ghostVars>>

-----------------------------------------------------------------------------
\* What a process does next by itself; at each place of its program one of these.
Proceed(w) == \/ Recover(w) \/ Publish(w) \/ Closed(w)
              \/ \E want \in Wants : Join(w, want)
              \/ Rejoin(w) \/ GiveUp(w) \/ Connect(w) \/ StreamEnds(w)

HostTimers(w) == SocketClosed(w) \/ PendingExpires(w) \/ LeaseExpires(w)

Faults(w) == HardwareFails(w) \/ JoinFails(w) \/ RejoinUnanswered(w) \/ StreamBreaks(w)
Ending(w) == HostLeaves(w) \/ ClientLeaves(w) \/ Die(w)

Next ==
  \/ \E w \in Wrappers : \/ Start(w) \/ Proceed(w) \/ Deliver(w) \/ HostTimers(w)
                         \/ Faults(w) \/ Ending(w)
                         \/ \E state \in Reports : Report(w, state)
  \/ \E s \in Slots : SelectSlot(s)

Spec == Init /\ [][Next]_vars

\* Programs go on, timers fire and sockets close.  Nobody has to start, report,
\* choose or end, and no status has to arrive.
Fairness == \A w \in Wrappers : WF_vars(Proceed(w)) /\ WF_vars(HostTimers(w))

FairSpec == Spec /\ Fairness

-----------------------------------------------------------------------------
(***************************************************************************)
(* Safety.                                                                 *)
(***************************************************************************)
\* However the host came by its registry, from a peer's cache or from the
\* wrapper itself, a task is in the slot its own wrapper knows: a survivor's
\* Agent key and LED never move, over any number of hosts.
SlotAsKnown ==
  \A w \in Registered(reg) :
    w \in Alive /\ Cached(w) # None => reg.tasks[w].slot = Cached(w).task.slot

\* Two registries that show the survivors alike.
CarriedOver(before, after, survivors) ==
  /\ \A w \in Registered(before) \cap survivors : after.tasks[w] = before.tasks[w]
  /\ before.selected \in survivors => after.selected = before.selected

\* A crash, or several, is invisible to the survivors: when everybody agrees
\* again and no agent reported and nobody chose in between, every survivor has
\* its slot, its state and its unread mark, and the selection is where it was,
\* unless a host went on without the selected task.
CrashIsInvisible ==
  [][settled # None /\ Agreed(last)' /\ ~Agreed(last) => CarriedOver(settled, reg', Alive')]_vars

\* What a client has seen of its own task is not taken back by a host with an
\* older cache: the next status shows the same, unless its agent reported or
\* the user chose it since, and some process still knows of that.
OwnTaskNotReverted ==
  [][\A w \in Wrappers :
       (last[w] # None /\ last'[w] # last[w] /\ w \notin touched) =>
         /\ w \in Registered(last'[w].reg)
         /\ last'[w].reg.tasks[w].state = last[w].reg.tasks[w].state
         /\ last'[w].reg.tasks[w].unread = last[w].reg.tasks[w].unread]_vars

\* architecture.md: "Selection changes only through Agent controls, relative
\* task controls, or selected-process exit."  A wrapper that comes back without
\* having been told of the user's last choice does not undo it by registering.
StaleCacheStealsNothing ==
  [][\A w \in behind :
       pc[w] = "rejoining" /\ held'[w] = "pending" /\ reg'.selected = w
         => reg.selected \in {w, None}]_vars

-----------------------------------------------------------------------------
(***************************************************************************)
(* Liveness.                                                               *)
(***************************************************************************)
\* Somebody else, alive, has the slot that w comes back for.
ShutOut(w) ==
  /\ serving /\ Cached(w) # None
  /\ \E v \in TaskAtSlot(reg, RecoverySlot(Cached(w))) : v # w /\ v \in Alive

\* Whoever loses its host finds one again, or becomes one: the race, the
\* descriptor, the retries and the timers never leave a survivor outside for
\* good, except when a live task has taken its slot.
SurvivorsReturn ==
  \A w \in Wrappers :
    pc[w] \in {"lost", "rejoining", "starting"} ~> (Attached(w) \/ w \notin Alive \/ ShutOut(w))

\* A task whose process is gone does not stay on the board, whichever host
\* restored it and whatever was registered for it.
GoneTasksGo ==
  \A w \in Wrappers :
    (serving /\ w \in Registered(reg) /\ pc[w] = "gone")
      ~> (~serving \/ w \notin Registered(reg))
=============================================================================
