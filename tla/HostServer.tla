----------------------------- MODULE HostServer -----------------------------
(***************************************************************************)
(* Class HostServer (src/src/server.ts): the elected host process, serving *)
(* wrappers over a loopback HTTP interface.  A wrapper registers (POST),   *)
(* opens its event stream (GET, server-sent events), sends hooks (POST)    *)
(* and leaves (DELETE), or just disappears.  Node runs one callback at a   *)
(* time, so an action is a request handler or a timer up to its next       *)
(* await.  What interleaves is everything between callbacks: requests of   *)
(* several wrappers, a hook whose body is still on its way, the 'close'    *)
(* events of sockets, the 30 s registration timers and the 5 s reconnect   *)
(* leases.                                                                 *)
(*                                                                         *)
(* An instance (one registration of a wrapper) is named by its wrapper and *)
(* its generation, which the code counts up per wrapper and never reuses;  *)
(* the code's random instance id adds nothing to that pair.                *)
(***************************************************************************)
EXTENDS TaskOps

CONSTANTS Host,        \* the wrapper that runs inside the host process
          Clients,     \* the others
          Caches,      \* statuses a promoted host may hold (with Host in them)
          Recoveries,  \* cached metadata clients re-register with
          HookStates,  \* what harness.stateForHookEvent makes of an event
          Limits,      \* values of MAX_TASKS and MAX_STREAMS, both 64 in the product
          MaxGen,      \* bound on a wrapper's registrations
          MaxHooks     \* bound on hook requests whose body is being read

ASSUME HostAssumption ==
  Host \in Wrappers /\ Wrappers = Clients \cup {Host} /\ Host \notin Clients
\* Wrapper identities are UUIDs.
ASSUME FiniteAssumption == IsFiniteSet(Wrappers)
\* A status shows a registry as TaskRegistryProofs says they are.  Two of its
\* tasks may show one session: SyncSession takes the file over for the task that
\* registers and leaves the other task as it is.
ASSUME CachesAssumption ==
  \A c \in Caches :
    c \in Registry /\ SlotsUnshared(c) /\ SelectionInSlot(c) /\ Host \in Registered(c)
ASSUME RecoveriesAssumption == Recoveries \subseteq Recovery
\* markDisconnected has no caller: nothing a client holds says "disconnected".
ASSUME StatesAssumption ==
  /\ \A c \in Caches : \A w \in Registered(c) : c.tasks[w].state \in AgentStates
  /\ \A rec \in Recoveries : rec.state \in AgentStates
ASSUME HookStatesAssumption == HookStates \subseteq AgentStates
ASSUME LimitsAssumption ==
  /\ Limits \subseteq [tasks : Nat, streams : Nat]
  /\ {MaxGen, MaxHooks} \subseteq Nat

VARIABLES
  limits,     \* the limits of this build, which never change
  phase,      \* "starting" (descriptor not published), "open", "closed"
  reg,        \* tasks: the TaskRegistry
  owners,     \* sessionOwners
  tracker,    \* tracker: the state of each live hook session
  gen,        \* wrapperGenerations, 0 where the Map has no entry
  leases,     \* reconnectLeases: the generation each armed 5 s timer carries
  writers,    \* localWriters
  instances,  \* instances
  current,    \* currentInstanceByWrapper, as a generation; 0 for none
  sockets,    \* streams whose 'close' event has not been emitted yet
  hooks,      \* hook requests past the ownership check, awaiting their body
  sent        \* the last status written to each wrapper's open stream

sessionVars == <<owners, tracker>>
streamVars  == <<instances, current, sockets>>
vars == <<limits, phase, reg, sessionVars, gen, leases, writers, streamVars, hooks, sent>>

Generations == 0 .. MaxGen + 1
Instance == [wrapper : Wrappers, generation : Generations,
             stream  : {"pending", "open", "dropped"},  \* res, opened
             armed   : BOOLEAN]                         \* expires
HookKinds == {"end", "report"}
Hook == [wrapper : Wrappers, session : Sessions \cup {None},
         kind : HookKinds, state : AgentStates]

TypeOK ==
  /\ limits \in Limits
  /\ phase \in {"starting", "open", "closed"}
  /\ reg \in Registry
  /\ owners \in [Sessions -> Wrappers \cup {None}]
  /\ tracker \in [Sessions -> AgentStates \cup {None}]
  /\ gen \in [Wrappers -> Generations]
  /\ leases \in [Wrappers -> Generations \cup {None}]
  /\ writers \subseteq Wrappers
  /\ instances \subseteq Instance
  /\ current \in [Wrappers -> Generations]
  /\ sockets \subseteq Wrappers \X Generations
  /\ hooks \subseteq Hook
  /\ sent \in [Wrappers -> Registry \cup {None}]

Init ==
  /\ limits \in Limits
  /\ phase = "starting"
  /\ reg = EmptyRegistry
  /\ owners = [s \in Sessions |-> None]
  /\ tracker = [s \in Sessions |-> None]
  /\ gen = [w \in Wrappers |-> 0]
  /\ leases = [w \in Wrappers |-> None]
  /\ writers = {}
  /\ instances = {}
  /\ current = [w \in Wrappers |-> 0]
  /\ sockets = {}
  /\ hooks = {}
  /\ sent = [w \in Wrappers |-> None]

(***************************************************************************)
(* What several handlers do.                                               *)
(***************************************************************************)
InstancesOf(w) == {i \in instances : i.wrapper = w}
CurrentOf(w)   == {i \in InstancesOf(w) : i.generation = current[w]}
Streaming(insts, w) == \E i \in insts : i.wrapper = w /\ i.stream = "open"

\* notifyStateChange: the new status goes to every open stream.
Notify ==
  sent' = [w \in Wrappers |-> IF Streaming(instances', w) THEN reg' ELSE None]

\* No notification: a stream that stays open keeps what it last saw.
Silent ==
  sent' = [w \in Wrappers |-> IF Streaming(instances', w) THEN sent[w] ELSE None]

NotifyIf(changed) == IF changed THEN Notify ELSE Silent

\* What the tracker holds for a task's session.
Tracked(task) == IF task.state = "disconnected" THEN None ELSE task.state

\* syncTaskSession: after a registration the task's session is w's only one.
SyncSession(w, previous) ==
  LET task    == reg'.tasks[w]
      dropped == {s \in Sessions : /\ s # task.session
                                   /\ owners[s] = w \/ s = previous}
  IN /\ owners' = [s \in Sessions |->
                     IF s = task.session THEN w
                     ELSE IF s \in dropped THEN None ELSE owners[s]]
     /\ tracker' = [s \in Sessions |->
                      IF s = task.session THEN Tracked(task)
                      ELSE IF s \in dropped THEN None ELSE tracker[s]]

\* Mutant: a wrapper keeps the generation of its first registration, and with it
\* the lease that was armed meanwhile.
KeepGeneration(w) ==
  /\ gen' = [gen EXCEPT ![w] = IF @ = 0 THEN 1 ELSE @]
  /\ UNCHANGED leases

\* advanceWrapperGeneration, which also cancels a reconnect lease.
AdvanceGeneration(w) ==
  /\ gen[w] < MaxGen + 1
  /\ gen' = [gen EXCEPT ![w] = @ + 1]
  /\ leases' = [leases EXCEPT ![w] = None]

SessionOf(w) == IF w \in Registered(reg) THEN reg.tasks[w].session ELSE None

\* removeWrapper, once its generation check has passed.
RemoveWrapper(w) ==
  /\ AdvanceGeneration(w)
  /\ writers' = writers \ {w}
  /\ instances' = instances \ InstancesOf(w)
  /\ current' = [current EXCEPT ![w] = 0]
  /\ owners' = [s \in Sessions |-> IF owners[s] = w THEN None ELSE owners[s]]
  /\ tracker' = [s \in Sessions |-> IF owners[s] = w THEN None ELSE tracker[s]]
  /\ reg' = IF w \in Registered(reg) THEN Unregister(reg, w) ELSE reg
  /\ NotifyIf(w \in Registered(reg))

\* closeInstance, where removeWrapper then finds a newer generation.
CloseOnly(i) ==
  /\ instances' = instances \ {i}
  /\ current' = [current EXCEPT ![i.wrapper] = IF @ = i.generation THEN 0 ELSE @]
  /\ Silent
  /\ UNCHANGED <<reg, sessionVars, gen, leases, writers>>

CloseAndRemove(i) ==
  IF gen[i.wrapper] = i.generation THEN RemoveWrapper(i.wrapper) ELSE CloseOnly(i)

(***************************************************************************)
(* The host process: listenRuntime's initialize callback, then shutdown.   *)
(***************************************************************************)
\* isTaskRegistration: recovery names its slot or null, and only recovery may
\* ask for none.
WellFormed(want, rec) == (rec # None => want # AnySlot) /\ (want = NoSlot => rec # None)

\* registerLocalWrapper of a fresh host, or of a promoted wrapper that knows
\* nothing but its own task; then attachWriter.
StartFresh(want, rec) ==
  /\ phase = "starting"
  /\ reg = EmptyRegistry /\ limits.tasks > 0
  /\ WellFormed(want, rec)
  /\ reg' = Register(reg, Host, want, rec, FALSE)
  /\ AdvanceGeneration(Host)
  /\ SyncSession(Host, None)
  /\ writers' = {Host}
  /\ phase' = "open"
  /\ UNCHANGED <<limits, streamVars, hooks>>
  /\ Notify

\* Under whom a restored session is filed: the last task listed with it, by slot,
\* overflow tasks at the end; None if no task shows it.
ListedLast(cache, s, w) ==
  LET place(v) == IF cache.tasks[v].slot = NoSlot THEN SlotCount + 1 ELSE cache.tasks[v].slot
      holders  == {v \in Registered(cache) : cache.tasks[v].session = s}
  IN IF holders = {} THEN w = None
     ELSE w \in holders /\ \A v \in holders : place(v) <= place(w)

Files(cache) == {f \in [Sessions -> Wrappers \cup {None}] :
                   \A s \in Sessions : ListedLast(cache, s, f[s])}

\* restoreTaskStatus on a promoted host: every task but its own gets a
\* reconnect lease of generation 0.
RestoreTaskStatus(cache) ==
  /\ phase = "starting"
  /\ reg = EmptyRegistry
  /\ Cardinality(Registered(cache)) <= limits.tasks
  /\ reg' = Restore(cache, Host)
  /\ owners' \in Files(cache)
  /\ tracker' = [s \in Sessions |-> IF owners'[s] = None THEN None
                                    ELSE Tracked(cache.tasks[owners'[s]])]
  /\ leases' = [w \in Wrappers |-> IF w \in Registered(cache) \ {Host} THEN 0 ELSE None]
  /\ UNCHANGED <<limits, phase, gen, writers, streamVars, hooks>>
  /\ Notify

\* registerLocalWrapper of the promoted wrapper, with its own cached task,
\* which the restored status holds at the same revision; then attachWriter.
StartPromoted ==
  /\ phase = "starting"
  /\ Host \in Registered(reg)
  /\ reg' = Register(reg, Host, reg.tasks[Host].slot, None, FALSE)
  /\ AdvanceGeneration(Host)
  /\ SyncSession(Host, reg.tasks[Host].session)
  /\ writers' = {Host}
  /\ phase' = "open"
  /\ UNCHANGED <<limits, streamVars, hooks>>
  /\ Notify

\* The agent of the host process failed: its task shows the error first.
ReportLocalFailure ==
  /\ phase = "open"
  /\ Host \in Registered(reg)
  /\ reg' = ApplyState(reg, Host, "error", None)
  /\ UNCHANGED <<limits, phase, sessionVars, gen, leases, writers, streamVars, hooks>>
  /\ NotifyIf(reg' # reg)

\* The host's agent has exited: unregisterWrapper, and close, which runs up to
\* its await in the same callback.
Shutdown ==
  /\ phase = "open"
  /\ AdvanceGeneration(Host)
  /\ phase' = "closed"
  /\ leases' = [w \in Wrappers |-> None]
  /\ writers' = writers \ {Host}
  /\ instances' = {}
  /\ current' = [w \in Wrappers |-> 0]
  /\ owners' = [s \in Sessions |-> IF owners[s] = Host THEN None ELSE owners[s]]
  /\ tracker' = [s \in Sessions |-> IF owners[s] = Host THEN None ELSE tracker[s]]
  /\ reg' = IF Host \in Registered(reg) THEN Unregister(reg, Host) ELSE reg
  /\ hooks' = {}
  /\ Silent
  /\ UNCHANGED <<limits, sockets>>

(***************************************************************************)
(* Wrappers' registrations and streams.                                    *)
(***************************************************************************)
\* Mutant: the task limit is not applied to a wrapper that comes back.
RoomUnlessSeen(w) == gen[w] > 0 \/ Cardinality(Registered(reg)) < limits.tasks

\* The two 429 answers.
HasRoom(w) ==
  /\ w \in Registered(reg) \/ Cardinality(Registered(reg)) < limits.tasks
  /\ current[w] # 0 \/ Cardinality(instances) < limits.streams

\* Mutant: the previous registration is left in the map.
NotSuperseded(w) == {}

\* supersedeCurrentInstance.
Superseded(w) == CurrentOf(w)

\* handleRegister: a first registration, a retry, or recovery.  The previous
\* registration is superseded; its stream, if open, is ended.
RegisterClient(w, want, rec, newer) ==
  /\ phase = "open"
  /\ gen[w] < MaxGen
  /\ WellFormed(want, rec)
  /\ want = NoSlot /\ w \in Registered(reg) => reg.tasks[w].slot = NoSlot
  /\ HasRoom(w)
  /\ SlotGranted(reg, w, want)
  /\ reg' = Register(reg, w, want, rec, newer)
  /\ SyncSession(w, SessionOf(w))
  /\ AdvanceGeneration(w)
  /\ instances' = (instances \ Superseded(w)) \cup
       {[wrapper |-> w, generation |-> gen[w] + 1, stream |-> "pending", armed |-> TRUE]}
  /\ current' = [current EXCEPT ![w] = gen[w] + 1]
  /\ UNCHANGED <<limits, phase, writers, sockets, hooks>>
  /\ Notify

\* handleInstanceStream: the first GET of the current registration; the status
\* goes to this stream alone.
StreamOpen(i) ==
  /\ i \in CurrentOf(i.wrapper)
  /\ i.stream = "pending"
  /\ instances' = (instances \ {i}) \cup {[i EXCEPT !.stream = "open", !.armed = FALSE]}
  /\ sockets' = sockets \cup {<<i.wrapper, i.generation>>}
  /\ sent' = [sent EXCEPT ![i.wrapper] = reg]
  /\ UNCHANGED <<limits, phase, reg, sessionVars, gen, leases, writers, current, hooks>>

\* Mutant: any 'close' event is believed.
ClosesAnyone(w, g) == TRUE

\* Whose 'close' event this is: it counts only for the current registration
\* of the current generation, still in the map.
ClosesCurrent(w, g) == gen[w] = g /\ \E i \in CurrentOf(w) : i.generation = g

StreamDropped(w, g) ==
  {IF i.wrapper = w /\ i.generation = g THEN [i EXCEPT !.stream = "dropped"] ELSE i :
     i \in instances}

Reconnecting(w) ==
  IF w \in Registered(reg) THEN MarkConnection(reg, w, "reconnecting") ELSE reg

\* Mutant: the task is marked, but no client is told.
DropStreamUntold(w, g) ==
  /\ instances' = StreamDropped(w, g)
  /\ reg' = Reconnecting(w)
  /\ leases' = [leases EXCEPT ![w] = g]
  /\ Silent

\* Mutant: no lease limits the wait.
DropStreamUnleased(w, g) ==
  /\ instances' = StreamDropped(w, g)
  /\ reg' = Reconnecting(w)
  /\ leases' = leases
  /\ NotifyIf(reg' # reg)

\* The task stays, and its wrapper has five seconds to come back.
DropStream(w, g) ==
  /\ instances' = StreamDropped(w, g)
  /\ reg' = Reconnecting(w)
  /\ leases' = [leases EXCEPT ![w] = g]
  /\ NotifyIf(reg' # reg)

\* The 'close' event of a stream, from either end.  It may come long after the
\* host itself ended that stream: then it is no longer anybody's.
SocketClosed(w, g) ==
  /\ <<w, g>> \in sockets
  /\ sockets' = sockets \ {<<w, g>>}
  /\ UNCHANGED <<limits, phase, sessionVars, gen, writers, current, hooks>>
  /\ IF ClosesCurrent(w, g) THEN DropStream(w, g)
                            ELSE UNCHANGED <<reg, leases, instances, sent>>

\* handleInstanceDelete: only the current registration may leave.
InstanceDelete(i) ==
  /\ i \in CurrentOf(i.wrapper)
  /\ UNCHANGED <<limits, phase, sockets, hooks>>
  /\ CloseAndRemove(i)

(***************************************************************************)
(* Timers.                                                                 *)
(***************************************************************************)
\* The 30 s timer of a registration whose stream never came.
PendingExpire(i) ==
  /\ i.armed
  /\ i.stream # "open"
  /\ UNCHANGED <<limits, phase, sockets, hooks>>
  /\ CloseAndRemove(i)

\* The 5 s reconnect lease, which removes only the generation it was made for.
\* (None fires between restoring and registering: that is one callback.)
LeaseExpire(w) ==
  /\ phase = "open"
  /\ leases[w] # None
  /\ UNCHANGED <<limits, phase, sockets, hooks>>
  /\ IF leases[w] = gen[w]
       THEN RemoveWrapper(w)
       ELSE /\ leases' = [leases EXCEPT ![w] = None]
            /\ UNCHANGED <<reg, sessionVars, gen, writers, instances, current, sent>>

(***************************************************************************)
(* Hooks of the agents, relayed by short-lived processes.                  *)
(***************************************************************************)
\* handleHook up to its await: the wrapper must be registered now.
HookArrives(h) ==
  /\ phase = "open"
  /\ h.wrapper \in Registered(reg)
  /\ Cardinality(hooks) < MaxHooks
  /\ h \notin hooks
  /\ hooks' = hooks \cup {h}
  /\ UNCHANGED <<limits, phase, reg, sessionVars, gen, leases, writers, streamVars, sent>>

\* tasks.clearSession, which asks whether the task has that session.
ClearTaskSession(r, w, s) ==
  IF w \in Registered(r) /\ s # None /\ r.tasks[w].session = s THEN ClearSession(r, w) ELSE r

\* SessionEnd, from the session's owner or for a session nobody owns.
EndSession(w, s) ==
  IF owners[s] \notin {None, w} THEN UNCHANGED <<reg, sessionVars>>   \* 403
  ELSE /\ reg' = ClearTaskSession(reg, w, s)
       /\ owners' = [owners EXCEPT ![s] = None]
       /\ tracker' = [tracker EXCEPT ![s] = None]

\* Mutant: a session changes hands without a word.
ReportUnowned(w, s, state) ==
  /\ reg' = IF w \in Registered(reg) THEN ApplyState(reg, w, state, s) ELSE reg
  /\ owners' = [owners EXCEPT ![s] = w]
  /\ tracker' = [tracker EXCEPT ![s] = state]

\* A state report under session s, which becomes the wrapper's only session.
\* The wrapper may be gone by now: it was asked for before the await.
Report(w, s, state) ==
  IF owners[s] \notin {None, w} THEN UNCHANGED <<reg, sessionVars>>   \* 409
  ELSE LET others == {x \in Sessions \ {s} : owners[x] = w}
           kept   == [x \in Sessions |-> IF x \in others THEN None ELSE owners[x]]
           seen   == [x \in Sessions |-> IF x \in others THEN None ELSE tracker[x]]
           own    == SessionOf(w)
           freed  == IF own \in others THEN ClearTaskSession(reg, w, own) ELSE reg
       IN /\ owners' = [kept EXCEPT ![s] = w]
          /\ tracker' = [seen EXCEPT ![s] = state]
          /\ reg' = IF w \in Registered(reg) THEN ApplyState(freed, w, state, s) ELSE reg

\* A failure of the wrapper's process, which has no session to name.
ReportFailure(w, state) ==
  /\ reg' = IF w \in Registered(reg) THEN ApplyState(reg, w, state, None) ELSE reg
  /\ UNCHANGED sessionVars

\* handleHook from its await on.  Whatever changed is published.
HookBody(h) ==
  /\ h \in hooks
  /\ hooks' = hooks \ {h}
  /\ UNCHANGED <<limits, phase, gen, leases, writers, streamVars>>
  /\ CASE h.kind = "end"                        -> EndSession(h.wrapper, h.session)
       [] h.kind = "report" /\ h.session # None -> Report(h.wrapper, h.session, h.state)
       [] OTHER                                 -> ReportFailure(h.wrapper, h.state)
  /\ NotifyIf(<<reg, tracker>>' # <<reg, tracker>>)

(***************************************************************************)
(* Controls.                                                               *)
(***************************************************************************)
Chosen(next) ==
  /\ phase = "open"
  /\ reg' = next
  /\ UNCHANGED <<limits, phase, sessionVars, gen, leases, writers, streamVars, hooks>>
  /\ Notify

\* selectSlot, for an Agent key.
SelectSlot(s) ==
  \E w \in Selectable(reg) : reg.tasks[w].slot = s /\ Chosen(SelectRecord(reg, w))

\* selectRelative, for Left and Right.
SelectRelative(delta) ==
  Selectable(reg) # {} /\ Chosen(SelectRecord(reg, RelativeTarget(reg, delta)))

-----------------------------------------------------------------------------
\* The hook requests agents send: SessionEnd names its session.
HookInputs ==
  [wrapper : Wrappers, session : Sessions, kind : {"end"}, state : {"idle"}] \cup
  [wrapper : Wrappers, session : Sessions \cup {None}, kind : {"report"}, state : HookStates]

Wants == {AnySlot, NoSlot} \cup Slots

Starting == \/ \E want \in Wants, rec \in Recoveries \cup {None} : StartFresh(want, rec)
            \/ \E cache \in Caches : RestoreTaskStatus(cache)
            \/ StartPromoted

Registering ==
  \E w \in Clients, want \in Wants, rec \in Recoveries \cup {None}, newer \in BOOLEAN :
    (newer => rec # None /\ w \in Registered(reg)) /\ RegisterClient(w, want, rec, newer)

Streams == \E i \in instances : StreamOpen(i) \/ InstanceDelete(i) \/ PendingExpire(i)

Next ==
  \/ Starting
  \/ ReportLocalFailure
  \/ Shutdown
  \/ Registering
  \/ Streams
  \/ \E w \in Clients, g \in Generations : SocketClosed(w, g)
  \/ \E w \in Clients : LeaseExpire(w)
  \/ \E h \in HookInputs : HookArrives(h)
  \/ \E h \in hooks : HookBody(h)
  \/ \E s \in Slots : SelectSlot(s)
  \/ \E delta \in {1, -1} : SelectRelative(delta)

Spec == Init /\ [][Next]_vars

\* A timer that was set and not cleared fires: setTimeout's promise while the
\* process lives.  Nothing is assumed of clients, sockets or users.
TimersFire ==
  /\ \A w \in Clients : WF_vars(LeaseExpire(w))
  /\ \A w \in Clients, g \in Generations :
       WF_vars(\E i \in instances : i.wrapper = w /\ i.generation = g /\ PendingExpire(i))

FairSpec == Spec /\ TimersFire

-----------------------------------------------------------------------------
(***************************************************************************)
(* Safety.                                                                 *)
(***************************************************************************)
Reachable(w) == w \in writers \/ \E i \in CurrentOf(w) : i.stream \in {"pending", "open"}

\* A task of an open host is either reachable (by the local writer or by a
\* stream that is open or still has its 30 s to open) and says so, or it is
\* marked reconnecting with a lease of its own generation running.  So no
\* order of close events, retries, leases and late timers leaves a task that
\* looks alive with nobody behind it, or a wait that nothing ends.
ReachableOrLeased ==
  phase = "open" =>
    \A w \in Registered(reg) :
      /\ reg.tasks[w].conn = "connected" => Reachable(w) /\ leases[w] = None
      /\ reg.tasks[w].conn = "reconnecting" =>
           leases[w] = gen[w] /\ ~Streaming(instances, w)

\* A registration in the map is the current one of its wrapper and generation,
\* it belongs to a task, and its timer runs exactly until its stream opens: a
\* retried registration leaves no predecessor through which keys, a late DELETE
\* or a late timer could reach the task.
RegistrationsAreCurrent ==
  \A i \in instances :
    /\ current[i.wrapper] = i.generation /\ gen[i.wrapper] = i.generation
    /\ i.wrapper \in Registered(reg)
    /\ i.armed <=> i.stream = "pending"

\* Whenever some task can be selected, one is: the controls have a target even
\* after the selected task went while every other was reconnecting.
SelectionPresent == Selectable(reg) # {} => reg.selected # None

\* Every open stream has been told the present state: no handler changes what
\* a client sees (and would restore after a crash) without publishing it.
ClientViewFresh ==
  \A i \in instances : i.stream = "open" => sent[i.wrapper] = reg

\* The limits hold across retries and recoveries too: no more tasks and no more
\* registrations than the product allows.
WithinLimits ==
  /\ Cardinality(Registered(reg)) <= limits.tasks
  /\ Cardinality(instances) <= limits.streams

\* The session books agree: the wrapper a session is filed under, while it is
\* registered, shows that session and no other; and exactly the filed sessions
\* have a state.  This relates three tables that five handlers update by hand.
\* (Of two tasks that show one session, at most one has it filed.)
SessionBooksAgree ==
  \A s \in Sessions :
    /\ owners[s] \in Registered(reg) => reg.tasks[owners[s]].session = s
    /\ owners[s] = None <=> tracker[s] = None

\* A session is filed only under a wrapper that is registered
\* (test/server.test.ts, 'rejects hooks for unregistered wrappers even with the
\* bearer token', asserts it of the table).  The check is made before the
\* request's body is read, and not again.
OwnersAreRegistered ==
  \A s \in Sessions : owners[s] # None => owners[s] \in Registered(reg)

(***************************************************************************)
(* Action properties.                                                      *)
(***************************************************************************)
\* No timer takes a task from under an open stream: not the 30 s timer of an
\* earlier registration, nor a 5 s lease armed before its wrapper came back,
\* however late they fire.
TimersSpareStreams ==
  [][(\E w \in Clients : LeaseExpire(w)) \/ (\E i \in instances : PendingExpire(i))
       => \A w \in Registered(reg) : Streaming(instances, w) => w \in Registered(reg')]_vars

(***************************************************************************)
(* Liveness, under TimersFire.                                             *)
(***************************************************************************)
\* A wrapper that falls silent does not hold its slot: whatever is reconnecting
\* or registered without a stream comes back, is removed, or the host closes.
SilentTasksSettle ==
  \A w \in Clients :
    (phase = "open" /\ w \in Registered(reg) /\ ~Streaming(instances, w))
      ~> (phase = "closed" \/ w \notin Registered(reg) \/ Streaming(instances, w))

=============================================================================
