-------------------------- MODULE HostServerProofs --------------------------
(***************************************************************************)
(* What holds of the host server in every order of its callbacks, for any  *)
(* number of wrappers, slots, sessions, registrations and hooks.  One      *)
(* lemma per handler shows that it keeps Inv; the handlers that touch      *)
(* neither registrations nor which tasks there are share AlikeStep.        *)
(***************************************************************************)
EXTENDS HostServer, TaskOpsProofs

-----------------------------------------------------------------------------
(***************************************************************************)
(* The inductive invariant.                                                *)
(***************************************************************************)
\* A wrapper has one registration at most, which is a client's; one that may
\* still be streamed to belongs to a connected task, and the index of current
\* registrations points at it.
RegistrationBooks ==
  /\ \A i, j \in instances : i.wrapper = j.wrapper => i = j
  /\ \A i \in instances :
       /\ i.wrapper \in Clients /\ i.generation # 0
       /\ i.stream # "dropped" => reg.tasks[i.wrapper].conn = "connected"
  /\ \A w \in Wrappers : current[w] # 0 => \E i \in instances : i.wrapper = w

\* The 'close' events to come are of generations given out, and of no
\* registration whose stream has yet to open or has been dropped.
SocketBooks ==
  /\ \A w \in Wrappers, g \in Generations : <<w, g>> \in sockets => g <= gen[w]
  /\ \A i \in instances : <<i.wrapper, i.generation>> \in sockets => i.stream = "open"

\* Before the descriptor is published there are only restored tasks, each on a
\* lease; then the host's own task stays; a closed host has no registrations.
Phases ==
  /\ phase = "starting" =>
       /\ instances = {} /\ sockets = {} /\ hooks = {} /\ leases[Host] = None
       /\ \A w \in Wrappers : gen[w] = 0 /\ current[w] = 0
       /\ \A w \in Registered(reg) \ {Host} :
            reg.tasks[w].conn = "reconnecting" /\ leases[w] = 0
  /\ phase = "open" =>
       Host \in writers /\ Host \in Registered(reg) /\ reg.tasks[Host].conn = "connected"
  /\ phase = "closed" => instances = {}

Holders == {i.wrapper : i \in instances}

Room == /\ Cardinality(Registered(reg)) <= limits.tasks
        /\ Cardinality(Holders) <= limits.streams

Inv == /\ TypeOK /\ Sound(reg)
       /\ RegistrationBooks /\ SocketBooks /\ Phases /\ Room
       /\ RegistrationsAreCurrent /\ ReachableOrLeased /\ ClientViewFresh

-----------------------------------------------------------------------------
(***************************************************************************)
(* What the methods of the registry leave alone.                           *)
(***************************************************************************)
\* The same tasks with the same connections.
Alike(q, r) ==
  \A v \in Wrappers : /\ q.tasks[v] = None <=> r.tasks[v] = None
                      /\ r.tasks[v] # None => q.tasks[v].conn = r.tasks[v].conn

LEMMA WriteAlike ==
  ASSUME NEW r \in Registry, NEW w \in Registered(r), NEW t \in Task,
         t.conn = r.tasks[w].conn, NEW q, q.tasks = [r.tasks EXCEPT ![w] = t]
  PROVE  Alike(q, r)
BY NoneIsNoTask DEF Alike, Registry, Registered

\* Selecting a task.
LEMMA SelectRecordAlike ==
  ASSUME NEW r \in Registry, NEW w \in Selectable(r)
  PROVE  Alike(SelectRecord(r, w), r)
<1> DEFINE seen == [r.tasks[w] EXCEPT !.unread = FALSE,
                                      !.state = IF @ = "complete" THEN "idle" ELSE @]
<1>1. w \in Registered(r)
  BY DEF Selectable, Candidates
<1>2. r.tasks[w] \in Task
  BY <1>1, SlotRange
<1>3. seen \in Task /\ seen.conn = r.tasks[w].conn
  BY <1>2 DEF Task, TaskStates, AgentStates
<1>4. SelectRecord(r, w).tasks = [r.tasks EXCEPT ![w] = seen]
  BY DEF SelectRecord, SetTask, Registry
<1> HIDE DEF seen
<1> QED
  BY <1>1, <1>3, <1>4, WriteAlike

\* Reporting a state.
LEMMA ApplyStateAlike ==
  ASSUME NEW r \in Registry, NEW w \in Registered(r),
         NEW state \in AgentStates, NEW session \in Sessions \cup {None}
  PROVE  Alike(ApplyState(r, w, state, session), r)
<1> DEFINE t == [r.tasks[w] EXCEPT
                   !.state   = state,
                   !.unread  = state = "complete" \/ (state # "idle" /\ @),
                   !.session = IF session = None THEN @ ELSE session]
<1>1. r.tasks[w] \in Task
  BY SlotRange
<1>2. t \in Task /\ t.conn = r.tasks[w].conn
  <2>1. (state = "complete" \/ (state # "idle" /\ r.tasks[w].unread)) \in BOOLEAN
    OBVIOUS
  <2> QED
    BY <1>1, <2>1 DEF Task, TaskStates
<1>3. ApplyState(r, w, state, session).tasks = [r.tasks EXCEPT ![w] = t]
  BY DEF ApplyState, SetTask, Registry
<1> HIDE DEF t
<1> QED
  BY <1>2, <1>3, WriteAlike

\* Ending a session.
LEMMA ClearTaskSessionAlike ==
  ASSUME NEW r, Sound(r), NEW w \in Wrappers, NEW s
  PROVE  /\ Sound(ClearTaskSession(r, w, s))
         /\ Alike(ClearTaskSession(r, w, s), r)
<1> DEFINE t == [r.tasks[w] EXCEPT
                   !.session = None,
                   !.state   = IF @ \in {"waiting", "executing"} THEN "idle" ELSE @]
<1>1. ASSUME w \in Registered(r)
      PROVE  Alike(ClearSession(r, w), r)
  <2>1. r \in Registry /\ r.tasks[w] \in Task
    BY <1>1, SlotRange DEF Sound
  <2>2. t \in Task /\ t.conn = r.tasks[w].conn
    BY <2>1 DEF Task, TaskStates, AgentStates
  <2>3. ClearSession(r, w).tasks = [r.tasks EXCEPT ![w] = t]
    BY <2>1 DEF ClearSession, SetTask, Registry
  <2> HIDE DEF t
  <2> QED
    BY <1>1, <2>1, <2>2, <2>3, WriteAlike
<1>2. Alike(r, r)
  BY DEF Alike
<1> QED
  BY <1>1, <1>2, ClearSessionSound DEF ClearTaskSession

LEMMA AlikeTransitive ==
  ASSUME NEW p, NEW q, NEW r, Alike(p, q), Alike(q, r)
  PROVE  Alike(p, r)
BY DEF Alike

\* unregister takes one task.
LEMMA UnregisterShape ==
  ASSUME NEW r \in Registry, NEW w
  PROVE  Unregister(r, w).tasks = [r.tasks EXCEPT ![w] = None]
BY DEF Unregister, SelectFallback, SetTask, Registry

\* restore keeps every task, with only one connected.
LEMMA RestoreShape ==
  ASSUME NEW r \in Registry, NEW c
  PROVE  /\ Registered(Restore(r, c)) = Registered(r)
         /\ \A v \in Registered(r) \ {c} : Restore(r, c).tasks[v].conn = "reconnecting"
<1> DEFINE tasks == [w \in Wrappers |->
                       IF r.tasks[w] = None THEN None
                       ELSE [r.tasks[w] EXCEPT !.conn = IF w = c THEN "connected"
                                                                 ELSE "reconnecting"]]
<1>1. Restore(r, c).tasks = tasks
  BY DEF Restore
<1>2. ASSUME NEW w \in Wrappers, r.tasks[w] # None
      PROVE  tasks[w] # None /\ (w # c => tasks[w].conn = "reconnecting")
  <2>1. r.tasks[w] \in Task
    BY <1>2, SlotRange DEF Registered
  <2>2. tasks[w] \in Task /\ (w # c => tasks[w].conn = "reconnecting")
    BY <1>2, <2>1 DEF Task
  <2> QED
    BY <2>2, NoneIsNoTask
<1>3. \A w \in Wrappers : r.tasks[w] = None => tasks[w] = None
  OBVIOUS
<1> HIDE DEF tasks
<1> QED
  BY <1>1, <1>2, <1>3 DEF Registered

-----------------------------------------------------------------------------
(***************************************************************************)
(* What several handlers do.                                               *)
(***************************************************************************)
SentType == sent \in [Wrappers -> Registry \cup {None}]

LEMMA NotifyKeeps ==
  ASSUME instances' \subseteq Instance, reg' \in Registry, Notify
  PROVE  SentType' /\ ClientViewFresh'
BY DEF Notify, SentType, ClientViewFresh, Streaming, Instance

LEMMA SilentKeeps ==
  ASSUME instances' \subseteq Instance, SentType, ClientViewFresh, reg' = reg, Silent,
         \A w \in Wrappers : Streaming(instances', w) => Streaming(instances, w)
  PROVE  SentType' /\ ClientViewFresh'
BY DEF Silent, SentType, ClientViewFresh, Streaming, Instance

LEMMA NotifyIfKeeps ==
  ASSUME instances' \subseteq Instance, reg' \in Registry, SentType, ClientViewFresh,
         NEW changed, NotifyIf(changed), ~changed => reg' = reg,
         \A w \in Wrappers : Streaming(instances', w) => Streaming(instances, w)
  PROVE  SentType' /\ ClientViewFresh'
BY NotifyKeeps, SilentKeeps DEF NotifyIf

SessionTypes == /\ owners \in [Sessions -> Wrappers \cup {None}]
                /\ tracker \in [Sessions -> AgentStates \cup {None}]

LEMMA SyncSessionType ==
  ASSUME NEW w \in Wrappers, NEW previous, SessionTypes,
         reg' \in Registry, w \in Registered(reg'), SyncSession(w, previous)
  PROVE  SessionTypes'
<1>1. reg'.tasks[w] \in Task
  BY SlotRange
<1>2. Tracked(reg'.tasks[w]) \in AgentStates \cup {None}
  BY <1>1 DEF Tracked, Task, TaskStates
<1> QED
  BY <1>2 DEF SyncSession, SessionTypes

\* The parts of TypeOK that are not about the registry.
LEMMA TypeParts ==
  TypeOK <=> /\ limits \in Limits /\ phase \in {"starting", "open", "closed"}
             /\ reg \in Registry /\ SessionTypes
             /\ gen \in [Wrappers -> Generations]
             /\ leases \in [Wrappers -> Generations \cup {None}]
             /\ writers \subseteq Wrappers /\ instances \subseteq Instance
             /\ current \in [Wrappers -> Generations]
             /\ sockets \subseteq Wrappers \X Generations /\ hooks \subseteq Hook
             /\ SentType
BY DEF TypeOK, SessionTypes, SentType

\* Handlers that touch neither registrations nor which tasks there are.
LEMMA AlikeStep ==
  ASSUME Inv, Sound(reg'), Alike(reg', reg),
         UNCHANGED <<limits, phase, gen, leases, writers, instances, current, sockets>>,
         hooks' \subseteq Hook, phase = "starting" => hooks' = {},
         SessionTypes', SentType', ClientViewFresh'
  PROVE  Inv'
<1>1. Registered(reg') = Registered(reg) /\ Registered(reg)' = Registered(reg)
  BY DEF Alike, Registered
<1>2. \A v \in Registered(reg) : reg'.tasks[v].conn = reg.tasks[v].conn
  BY DEF Alike, Registered
<1>3. TypeOK'
  BY TypeParts DEF Inv, Sound, TypeOK, SentType, SessionTypes
<1>4. \A i \in instances : i.wrapper \in Registered(reg)
  BY DEF Inv, RegistrationsAreCurrent
<1>5. RegistrationBooks' /\ SocketBooks' /\ RegistrationsAreCurrent'
  BY <1>1, <1>2, <1>4 DEF Inv, RegistrationBooks, SocketBooks, RegistrationsAreCurrent
<1>6. Phases'
  BY <1>1, <1>2 DEF Inv, Phases
<1>7. Room'
  BY <1>1 DEF Inv, Room, Holders
<1>8. ReachableOrLeased'
  BY <1>1, <1>2 DEF Inv, ReachableOrLeased, Reachable, Streaming, CurrentOf, InstancesOf
<1> QED
  BY <1>3, <1>5, <1>6, <1>7, <1>8 DEF Inv

-----------------------------------------------------------------------------
(***************************************************************************)
(* Handlers that leave registrations alone.                                *)
(***************************************************************************)
LEMMA FailureStep ==
  ASSUME Inv, ReportLocalFailure
  PROVE  Inv'
<1>1. reg \in Registry /\ Host \in Registered(reg) /\ reg' = ApplyState(reg, Host, "error", None)
  BY DEF Inv, TypeOK, ReportLocalFailure
<1>2. Sound(reg') /\ Alike(reg', reg)
  BY <1>1, ApplyStateSound, ApplyStateAlike DEF Inv, AgentStates
<1>3. SentType' /\ ClientViewFresh'
  BY <1>2, NotifyIfKeeps DEF Inv, TypeOK, SentType, ReportLocalFailure, streamVars, Sound, Streaming
<1> QED
  BY <1>2, <1>3, AlikeStep
     DEF ReportLocalFailure, sessionVars, streamVars, Inv, TypeOK, Phases, SessionTypes

LEMMA ChosenStep ==
  ASSUME Inv, NEW w \in Selectable(reg), Chosen(SelectRecord(reg, w))
  PROVE  Inv'
<1>1. Sound(reg') /\ Alike(reg', reg)
  BY SelectRecordSound, SelectRecordAlike DEF Inv, TypeOK, Chosen
<1>2. SentType' /\ ClientViewFresh'
  BY <1>1, NotifyKeeps DEF Inv, TypeOK, Chosen, streamVars, Sound
<1> QED
  BY <1>1, <1>2, AlikeStep DEF Chosen, sessionVars, streamVars, Inv, TypeOK, Phases, SessionTypes

LEMMA HookArrivesStep ==
  ASSUME Inv, NEW h \in HookInputs, HookArrives(h)
  PROVE  Inv'
<1>1. h \in Hook
  BY HookStatesAssumption DEF HookInputs, Hook, HookKinds, AgentStates
<1>2. Alike(reg', reg)
  BY DEF Alike, HookArrives
<1>3. SentType' /\ ClientViewFresh'
  BY DEF Inv, TypeOK, SentType, ClientViewFresh, HookArrives, streamVars
<1> QED
  BY <1>1, <1>2, <1>3, AlikeStep
     DEF HookArrives, sessionVars, streamVars, Inv, TypeOK, Phases, SessionTypes

\* What the body of a hook does to the registry and the session tables.
LEMMA HookEffect ==
  ASSUME Inv, NEW h \in hooks, HookBody(h)
  PROVE  Sound(reg') /\ Alike(reg', reg) /\ SessionTypes'
<1> DEFINE w == h.wrapper
<1>1. w \in Wrappers /\ h.state \in AgentStates /\ h.session \in Sessions \cup {None}
  BY DEF Inv, TypeOK, Hook
<1>2. SessionTypes /\ Sound(reg) /\ reg \in Registry
  BY DEF Inv, TypeOK, SessionTypes
<1>3. Alike(reg, reg)
  BY DEF Alike
<1>4. ASSUME NEW r, Sound(r), Alike(r, reg), NEW s \in Sessions \cup {None}
      PROVE  LET q == IF w \in Registered(reg) THEN ApplyState(r, w, h.state, s) ELSE reg
             IN Sound(q) /\ Alike(q, reg)
  <2>1. w \in Registered(reg) => w \in Registered(r)
    BY <1>4 DEF Alike, Registered
  <2>2. w \in Registered(reg) =>
          Sound(ApplyState(r, w, h.state, s)) /\ Alike(ApplyState(r, w, h.state, s), r)
    BY <2>1, <1>1, <1>4, ApplyStateSound, ApplyStateAlike DEF Sound
  <2> QED
    BY <2>2, <1>2, <1>3, <1>4, AlikeTransitive
<1> HIDE DEF w
<1>5. ASSUME NEW s \in Sessions \cup {None}, EndSession(w, s)
      PROVE  Sound(reg') /\ Alike(reg', reg) /\ SessionTypes'
  BY <1>1, <1>2, <1>3, <1>5, ClearTaskSessionAlike DEF EndSession, SessionTypes, sessionVars
<1>6. ASSUME NEW s \in Sessions, Report(w, s, h.state)
      PROVE  Sound(reg') /\ Alike(reg', reg) /\ SessionTypes'
  <2> DEFINE own   == SessionOf(w)
             freed == IF own \in {x \in Sessions \ {s} : owners[x] = w}
                        THEN ClearTaskSession(reg, w, own) ELSE reg
  <2>1. CASE owners[s] \notin {None, w}
    BY <2>1, <1>2, <1>3, <1>6 DEF Report, SessionTypes, sessionVars
  <2>2. CASE owners[s] \in {None, w}
    <3>1. SessionTypes'
      BY <2>2, <1>1, <1>2, <1>6 DEF Report, SessionTypes
    <3>2. Sound(freed) /\ Alike(freed, reg)
      BY <1>1, <1>2, <1>3, ClearTaskSessionAlike
    <3>3. reg' = IF w \in Registered(reg) THEN ApplyState(freed, w, h.state, s) ELSE reg
      BY <2>2, <1>6 DEF Report
    <3> HIDE DEF freed
    <3> QED
      BY <3>1, <3>2, <3>3, <1>4
  <2> QED
    BY <2>1, <2>2
<1>7. ASSUME ReportFailure(w, h.state)
      PROVE  Sound(reg') /\ Alike(reg', reg) /\ SessionTypes'
  BY <1>2, <1>3, <1>4, <1>7 DEF ReportFailure, SessionTypes, sessionVars
<1>8. \/ EndSession(w, h.session)
      \/ h.session # None /\ Report(w, h.session, h.state)
      \/ ReportFailure(w, h.state)
  BY DEF HookBody, w
<1> QED
  BY <1>1, <1>5, <1>6, <1>7, <1>8

LEMMA HookBodyStep ==
  ASSUME Inv, NEW h \in hooks, HookBody(h)
  PROVE  Inv'
<1>1. Sound(reg') /\ Alike(reg', reg) /\ SessionTypes'
  BY HookEffect
<1>2. SentType' /\ ClientViewFresh'
  <2>1. NotifyIf(<<reg, tracker>>' # <<reg, tracker>>) /\ instances' = instances
    BY DEF HookBody, streamVars
  <2>2. ~(<<reg, tracker>>' # <<reg, tracker>>) => reg' = reg
    OBVIOUS
  <2>3. instances \subseteq Instance /\ SentType /\ ClientViewFresh /\ reg' \in Registry
    BY <1>1 DEF Inv, TypeOK, SentType, Sound
  <2> QED
    BY <2>1, <2>2, <2>3, NotifyIfKeeps DEF Streaming
<1> QED
  BY <1>1, <1>2, AlikeStep DEF HookBody, streamVars, Inv, TypeOK, Phases

-----------------------------------------------------------------------------
(***************************************************************************)
(* Handlers of registrations.                                              *)
(***************************************************************************)
\* Registrations that share no wrapper are as many as their wrappers.
LEMMA OnePerWrapper ==
  ASSUME Inv
  PROVE  /\ IsFiniteSet(Holders) /\ IsFiniteSet(instances)
         /\ Cardinality(instances) = Cardinality(Holders)
<1> DEFINE f == [w \in Holders |-> CHOOSE i \in instances : i.wrapper = w]
<1>1. Holders \subseteq Wrappers
  BY DEF Inv, TypeOK, Instance, Holders
<1>2. IsFiniteSet(Holders)
  BY <1>1, FiniteAssumption, FS_Subset
<1>3. \A w \in Holders : f[w] \in instances /\ f[w].wrapper = w
  BY DEF Holders
<1>4. \A i \in instances : i.wrapper \in Holders /\ f[i.wrapper] = i
  BY <1>3 DEF Inv, RegistrationBooks, Holders
<1>5. f \in [Holders -> instances]
  BY <1>3
<1> HIDE DEF f
<1>6. f \in Bijection(Holders, instances)
  <2>1. \A v, w \in Holders : f[v] = f[w] => v = w
    BY <1>3
  <2>2. \A i \in instances : \E w \in Holders : f[w] = i
    BY <1>4
  <2> QED
    BY <1>5, <2>1, <2>2 DEF Bijection, Injection, IsInjective, Surjection
<1>7. ExistsBijection(Holders, instances)
  BY <1>6 DEF ExistsBijection
<1> QED
  BY <1>2, <1>7, FS_Bijection

\* removeWrapper.
LEMMA RemoveStep ==
  ASSUME Inv, phase = "open", NEW w \in Clients, RemoveWrapper(w),
         UNCHANGED <<limits, phase, sockets, hooks>>
  PROVE  Inv'
<1>1. w \in Wrappers /\ w # Host
  BY HostAssumption
<1>2. /\ Sound(reg') /\ reg'.tasks = [reg.tasks EXCEPT ![w] = None]
      /\ w \notin Registered(reg) => reg' = reg
  <2>1. CASE w \in Registered(reg)
    <3>1. Sound(reg) /\ reg \in Registry /\ reg' = Unregister(reg, w)
      BY <2>1 DEF RemoveWrapper, Inv, TypeOK
    <3> QED
      BY <2>1, <3>1, UnregisterSound, UnregisterShape
  <2>2. CASE w \notin Registered(reg)
    BY <2>2, <1>1 DEF RemoveWrapper, Inv, TypeOK, Registered, Registry
  <2> QED
    BY <2>1, <2>2
<1>3. /\ Registered(reg') = Registered(reg) \ {w}
      /\ \A v \in Wrappers \ {w} : reg'.tasks[v] = reg.tasks[v]
  BY <1>1, <1>2 DEF Inv, TypeOK, Registry, Registered
<1>4. /\ instances' = {i \in instances : i.wrapper # w}
      /\ gen' = [gen EXCEPT ![w] = gen[w] + 1] /\ gen[w] < MaxGen + 1
      /\ leases' = [leases EXCEPT ![w] = None] /\ writers' = writers \ {w}
      /\ current' = [current EXCEPT ![w] = 0]
      /\ NotifyIf(w \in Registered(reg))
  BY DEF RemoveWrapper, AdvanceGeneration, InstancesOf
<1>5. SessionTypes'
  BY DEF Inv, TypeOK, SessionTypes, RemoveWrapper
<1>6. SentType' /\ ClientViewFresh'
  BY <1>2, <1>4, NotifyIfKeeps DEF Inv, TypeOK, SentType, Sound, Streaming
<1>7. TypeOK'
  <2>1. gen[w] \in Nat /\ gen[w] + 1 \in Generations /\ 0 \in Generations
    BY <1>1, <1>4, LimitsAssumption DEF Inv, TypeOK, Generations
  <2> QED
    BY <1>1, <1>2, <1>4, <1>5, <1>6, <2>1 DEF Inv, TypeOK, Sound, SentType, SessionTypes
<1>8. RegistrationBooks' /\ RegistrationsAreCurrent'
  BY <1>1, <1>3, <1>4 DEF Inv, TypeOK, Instance, RegistrationBooks, RegistrationsAreCurrent
<1>9. SocketBooks'
  <2>1. gen[w] <= gen[w] + 1 /\ \A v \in Wrappers : gen[v] \in Nat
    BY <1>1, LimitsAssumption DEF Inv, TypeOK, Generations
  <2>2. ASSUME NEW v \in Wrappers, NEW g \in Generations, <<v, g>> \in sockets
        PROVE  g <= gen'[v]
    BY <2>1, <2>2, <1>1, <1>4, LimitsAssumption DEF Inv, TypeOK, SocketBooks, Generations
  <2> QED
    BY <2>2, <1>4 DEF Inv, SocketBooks
<1>10. Phases'
  BY <1>1, <1>3, <1>4, HostAssumption DEF Inv, Phases
<1>11. Room'
  <2>1. Holders' = Holders \ {w}
    BY <1>4 DEF Holders
  <2>2. IsFiniteSet(Registered(reg)) /\ IsFiniteSet(Holders)
    BY FiniteAssumption, FS_Subset, OnePerWrapper DEF Registered
  <2>3. /\ Cardinality(Registered(reg) \ {w}) <= Cardinality(Registered(reg))
        /\ Cardinality(Holders \ {w}) <= Cardinality(Holders)
    BY <2>2, FS_Subset
  <2>4. /\ Cardinality(Registered(reg) \ {w}) \in Nat /\ Cardinality(Registered(reg)) \in Nat
        /\ Cardinality(Holders \ {w}) \in Nat /\ Cardinality(Holders) \in Nat
    BY <2>2, FS_Subset, FS_CardinalityType
  <2>5. limits.tasks \in Nat /\ limits.streams \in Nat
    BY LimitsAssumption DEF Inv, TypeOK
  <2> QED
    BY <1>3, <2>1, <2>3, <2>4, <2>5 DEF Inv, Room
<1>12. ReachableOrLeased'
  <2>1. ASSUME NEW v \in Registered(reg')
        PROVE  /\ Reachable(v) => Reachable(v)'
               /\ Streaming(instances', v) => Streaming(instances, v)
               /\ leases'[v] = leases[v] /\ gen'[v] = gen[v]
               /\ v \in Registered(reg) /\ reg'.tasks[v] = reg.tasks[v]
    BY <2>1, <1>1, <1>3, <1>4
       DEF Inv, TypeOK, Reachable, Streaming, CurrentOf, InstancesOf, Registered
  <2> QED
    BY <2>1 DEF Inv, ReachableOrLeased
<1> QED
  BY <1>2, <1>7, <1>8, <1>9, <1>10, <1>11, <1>12, <1>6 DEF Inv

\* A registry that gained, or connected, the task of w.
LEMMA ConnectShape ==
  ASSUME NEW r \in Registry, NEW w \in Wrappers, NEW q, Connects(q, r, w)
  PROVE  /\ Registered(q) = Registered(r) \cup {w}
         /\ q.tasks[w].conn = "connected"
         /\ \A v \in Wrappers \ {w} : q.tasks[v] = r.tasks[v]
<1>1. PICK t \in Task : t.conn = "connected" /\ q.tasks = [r.tasks EXCEPT ![w] = t]
  BY DEF Connects
<1>2. t # None
  BY NoneIsNoTask
<1> QED
  BY <1>1, <1>2 DEF Registered, Registry

\* A wrapper that is not yet in a set of them still fits where there is room.
LEMMA RoomForOne ==
  ASSUME NEW S \in SUBSET Wrappers, NEW w, NEW n \in Nat,
         Cardinality(S) <= n, w \in S \/ Cardinality(S) < n
  PROVE  Cardinality(S \cup {w}) <= n
<1>1. IsFiniteSet(S)
  BY FiniteAssumption, FS_Subset
<1>2. Cardinality(S) \in Nat
  BY <1>1, FS_CardinalityType
<1>3. Cardinality(S \cup {w}) = IF w \in S THEN Cardinality(S) ELSE Cardinality(S) + 1
  BY <1>1, FS_AddElement
<1> QED
  BY <1>2, <1>3

\* registerLocalWrapper, on an empty registry or a restored one.
LEMMA HostConnects ==
  ASSUME Inv, phase = "starting", phase' = "open", Sound(reg'), Connects(reg', reg, Host),
         Host \in Registered(reg) \/ Cardinality(Registered(reg)) < limits.tasks,
         AdvanceGeneration(Host), NEW previous, SyncSession(Host, previous),
         writers' = {Host}, UNCHANGED <<limits, streamVars, hooks>>, Notify
  PROVE  Inv'
<1>1. Host \in Wrappers /\ 0 \in Generations /\ gen[Host] = 0 /\ 1 \in Generations
  BY HostAssumption, LimitsAssumption DEF Inv, Phases, Generations
<1>2. /\ Registered(reg') = Registered(reg) \cup {Host}
      /\ reg'.tasks[Host].conn = "connected"
      /\ \A v \in Wrappers \ {Host} : reg'.tasks[v] = reg.tasks[v]
  BY <1>1, ConnectShape DEF Inv, TypeOK
<1>3. /\ gen' = [gen EXCEPT ![Host] = 1] /\ leases' = [leases EXCEPT ![Host] = None]
      /\ instances = {} /\ instances' = {} /\ sockets' = {} /\ hooks' = {}
      /\ current' = current /\ limits' = limits
  BY <1>1 DEF AdvanceGeneration, streamVars, Inv, Phases, TypeOK
<1>4. SentType' /\ ClientViewFresh'
  BY <1>3, NotifyKeeps DEF Sound
<1>5. SessionTypes'
  BY <1>1, <1>2, SyncSessionType DEF Inv, TypeOK, SessionTypes, Sound
<1>6. TypeOK'
  <2>1. /\ gen' \in [Wrappers -> Generations] /\ leases' \in [Wrappers -> Generations \cup {None}]
        /\ writers' \subseteq Wrappers
    BY <1>1, <1>3 DEF Inv, TypeOK
  <2> QED
    BY <1>3, <1>4, <1>5, <2>1 DEF Inv, TypeOK, Sound, SentType, SessionTypes
<1>7. RegistrationBooks' /\ SocketBooks' /\ RegistrationsAreCurrent' /\ Phases'
  BY <1>1, <1>2, <1>3
     DEF Inv, Phases, RegistrationBooks, SocketBooks, RegistrationsAreCurrent
<1>8. Room'
  <2>1. Cardinality(Registered(reg')) <= limits.tasks
    <3>1. Registered(reg) \in SUBSET Wrappers
      BY DEF Registered
    <3>2. limits.tasks \in Nat /\ Cardinality(Registered(reg)) <= limits.tasks
      BY LimitsAssumption DEF Inv, TypeOK, Room
    <3> QED
      BY <1>2, <3>1, <3>2, RoomForOne
  <2> QED
    BY <1>3, <2>1 DEF Inv, Room, Holders
<1>9. ReachableOrLeased'
  <2>1. Reachable(Host)' /\ leases'[Host] = None
    BY <1>1, <1>3 DEF Reachable, Inv, TypeOK
  <2>2. ASSUME NEW v \in Registered(reg') \ {Host}
        PROVE  /\ reg'.tasks[v].conn = "reconnecting" /\ leases'[v] = gen'[v]
               /\ ~Streaming(instances', v)
    BY <2>2, <1>1, <1>2, <1>3 DEF Inv, TypeOK, Phases, Registered, Streaming
  <2> QED
    BY <1>2, <2>1, <2>2 DEF ReachableOrLeased
<1> QED
  BY <1>4, <1>6, <1>7, <1>8, <1>9 DEF Inv

LEMMA StartFreshStep ==
  ASSUME Inv, NEW want \in Wants, NEW rec \in Recoveries \cup {None}, StartFresh(want, rec)
  PROVE  Inv'
<1>1. reg = EmptyRegistry /\ phase = "starting" /\ reg' = Register(reg, Host, want, rec, FALSE)
  BY DEF StartFresh
<1>2. Registered(reg) = {}
  BY <1>1 DEF EmptyRegistry, Registered
<1>3. SlotGranted(reg, Host, want)
  BY <1>2 DEF SlotGranted, TaskAtSlot, Wants
<1>4. Sound(reg') /\ Connects(reg', reg, Host)
  BY <1>1, <1>2, <1>3, RegisterSound, HostAssumption, RecoveriesAssumption DEF Inv, Wants
<1>5. Cardinality(Registered(reg)) < limits.tasks
  BY <1>2, FS_EmptySet DEF StartFresh
<1> QED
  BY <1>1, <1>4, <1>5, HostConnects DEF StartFresh

LEMMA StartPromotedStep ==
  ASSUME Inv, StartPromoted
  PROVE  Inv'
<1>1. /\ Host \in Registered(reg) /\ phase = "starting"
      /\ reg' = Register(reg, Host, reg.tasks[Host].slot, None, FALSE)
  BY DEF StartPromoted
<1>2. Sound(reg) /\ reg.tasks[Host].slot \in Slots \cup {NoSlot}
  BY <1>1, SlotRange DEF Inv, TypeOK, Task
<1>3. SlotGranted(reg, Host, reg.tasks[Host].slot)
  <2>1. AnySlot \notin Slots \cup {NoSlot}
    BY SlotCountAssumption DEF AnySlot, NoSlot, Slots
  <2> QED
    BY <1>1, <1>2, <2>1, SlotCountAssumption
       DEF SlotGranted, TaskAtSlot, Sound, SlotsUnshared, NoSlot, Slots
<1>4. Sound(reg') /\ Connects(reg', reg, Host)
  BY <1>1, <1>2, <1>3, RegisterSound, HostAssumption
<1> QED
  BY <1>1, <1>4, HostConnects DEF StartPromoted

LEMMA RestoreTaskStatusStep ==
  ASSUME Inv, NEW cache \in Caches, RestoreTaskStatus(cache)
  PROVE  Inv'
<1>1. phase = "starting" /\ reg' = Restore(cache, Host)
  BY DEF RestoreTaskStatus
<1>2. /\ cache \in Registry /\ SlotsUnshared(cache) /\ SelectionInSlot(cache)
      /\ Host \in Registered(cache)
  BY CachesAssumption
<1>3. Sound(reg')
  BY <1>1, <1>2, RestoreSound, HostAssumption DEF Sound
<1>4. /\ Registered(reg') = Registered(cache)
      /\ \A v \in Registered(cache) \ {Host} : reg'.tasks[v].conn = "reconnecting"
  BY <1>1, <1>2, RestoreShape
<1>5. /\ instances = {} /\ instances' = {} /\ sockets' = {} /\ hooks' = {} /\ gen' = gen
      /\ current' = current /\ limits' = limits /\ phase' = "starting" /\ writers' = writers
      /\ leases' = [w \in Wrappers |-> IF w \in Registered(cache) \ {Host} THEN 0 ELSE None]
  BY DEF RestoreTaskStatus, streamVars, Inv, Phases
<1>6. SentType' /\ ClientViewFresh'
  BY <1>3, <1>5, NotifyKeeps DEF Sound, RestoreTaskStatus
<1>7. SessionTypes'
  <2>1. owners' \in Files(cache)
    BY DEF RestoreTaskStatus
  <2>2. ASSUME NEW s \in Sessions, owners'[s] # None
        PROVE  Tracked(cache.tasks[owners'[s]]) \in AgentStates \cup {None}
    <3>1. owners'[s] \in Registered(cache)
      BY <2>1, <2>2 DEF Files, ListedLast
    <3>2. cache.tasks[owners'[s]] \in Task
      BY <3>1, <1>2, SlotRange DEF Registered
    <3> QED
      BY <3>2 DEF Tracked, Task, TaskStates
  <2>3. owners' \in [Sessions -> Wrappers \cup {None}]
    BY <2>1 DEF Files
  <2>4. tracker' = [s \in Sessions |-> IF owners'[s] = None THEN None
                                       ELSE Tracked(cache.tasks[owners'[s]])]
    BY DEF RestoreTaskStatus
  <2> QED
    BY <2>2, <2>3, <2>4 DEF SessionTypes
<1>8. TypeOK'
  <2>1. leases' \in [Wrappers -> Generations \cup {None}]
    BY <1>5, LimitsAssumption DEF Generations
  <2> QED
    BY <1>1, <1>3, <1>5, <1>6, <1>7, <2>1 DEF Inv, TypeOK, Sound, SentType, SessionTypes
<1>9. RegistrationBooks' /\ SocketBooks' /\ RegistrationsAreCurrent' /\ ReachableOrLeased'
  BY <1>5 DEF Inv, Phases, RegistrationBooks, SocketBooks, RegistrationsAreCurrent,
              ReachableOrLeased
<1>10. Phases'
  BY <1>1, <1>4, <1>5, HostAssumption DEF Inv, Phases, Registered
<1>11. Room'
  BY <1>4, <1>5 DEF Inv, Room, Holders, RestoreTaskStatus
<1> QED
  BY <1>3, <1>6, <1>8, <1>9, <1>10, <1>11 DEF Inv

\* handleRegister.
LEMMA RegisterClientStep ==
  ASSUME Inv, NEW w \in Clients, NEW want \in Wants, NEW rec \in Recoveries \cup {None},
         NEW newer \in BOOLEAN, RegisterClient(w, want, rec, newer)
  PROVE  Inv'
<1> DEFINE i == [wrapper |-> w, generation |-> gen[w] + 1, stream |-> "pending", armed |-> TRUE]
<1>1. w \in Wrappers /\ w # Host /\ phase = "open" /\ phase' = "open" /\ limits' = limits
  BY HostAssumption DEF RegisterClient
<1>2. Sound(reg') /\ Connects(reg', reg, w)
  <2>1. /\ reg' = Register(reg, w, want, rec, newer) /\ SlotGranted(reg, w, want)
        /\ w \in Registered(reg) /\ want = NoSlot => reg.tasks[w].slot = NoSlot
    BY DEF RegisterClient
  <2> QED
    BY <1>1, <2>1, RegisterSound, RecoveriesAssumption DEF Inv, Wants
<1>3. /\ Registered(reg') = Registered(reg) \cup {w}
      /\ reg'.tasks[w].conn = "connected"
      /\ \A v \in Wrappers \ {w} : reg'.tasks[v] = reg.tasks[v]
  BY <1>1, <1>2, ConnectShape DEF Inv, TypeOK
<1>4. /\ gen[w] \in Nat /\ gen[w] + 1 \in Generations /\ gen[w] + 1 # 0
      /\ \A v \in Wrappers : gen[v] \in Nat
  BY <1>1, LimitsAssumption DEF RegisterClient, Inv, TypeOK, Generations
<1>5. /\ gen' = [gen EXCEPT ![w] = gen[w] + 1] /\ leases' = [leases EXCEPT ![w] = None]
      /\ writers' = writers /\ sockets' = sockets /\ hooks' = hooks
      /\ current' = [current EXCEPT ![w] = gen[w] + 1]
  BY DEF RegisterClient, AdvanceGeneration
<1>6. instances' = {j \in instances : j.wrapper # w} \cup {i}
  BY DEF RegisterClient, Superseded, CurrentOf, InstancesOf, Inv, RegistrationsAreCurrent
<1>7. i \in Instance /\ i.wrapper = w /\ i.generation = gen[w] + 1 /\ i.stream = "pending" /\ i.armed
  BY <1>1, <1>4 DEF Instance
<1> HIDE DEF i
<1>8. instances' \subseteq Instance
  BY <1>6, <1>7 DEF Inv, TypeOK
<1>9. SentType' /\ ClientViewFresh'
  BY <1>2, <1>8, NotifyKeeps DEF Sound, RegisterClient
<1>10. SessionTypes'
  BY <1>1, <1>2, <1>3, SyncSessionType DEF Inv, TypeOK, SessionTypes, Sound, RegisterClient
<1>11. TypeOK'
  <2>1. /\ gen' \in [Wrappers -> Generations] /\ leases' \in [Wrappers -> Generations \cup {None}]
        /\ current' \in [Wrappers -> Generations]
    BY <1>4, <1>5 DEF Inv, TypeOK
  <2> QED
    BY <1>1, <1>2, <1>5, <1>8, <1>9, <1>10, <2>1
       DEF Inv, TypeOK, Sound, SentType, SessionTypes
<1>12. RegistrationBooks'
  <2>1. \A j \in instances' : j = i \/ (j \in instances /\ j.wrapper \in Wrappers \ {w})
    BY <1>6 DEF Inv, TypeOK, Instance
  <2>2. \A j, k \in instances' : j.wrapper = k.wrapper => j = k
    BY <1>7, <2>1 DEF Inv, RegistrationBooks
  <2>3. \A j \in instances' : /\ j.wrapper \in Clients /\ j.generation # 0
                              /\ j.stream # "dropped" => reg'.tasks[j.wrapper].conn = "connected"
    BY <1>3, <1>4, <1>7, <2>1 DEF Inv, RegistrationBooks
  <2>4. \A v \in Wrappers : current'[v] # 0 => \E j \in instances' : j.wrapper = v
    BY <1>5, <1>6, <1>7 DEF Inv, TypeOK, RegistrationBooks
  <2> QED
    BY <2>2, <2>3, <2>4 DEF RegistrationBooks
<1>13. RegistrationsAreCurrent'
  <2>1. /\ \A v \in Wrappers \ {w} : current'[v] = current[v] /\ gen'[v] = gen[v]
        /\ current'[w] = gen[w] + 1 /\ gen'[w] = gen[w] + 1
    BY <1>1, <1>5 DEF Inv, TypeOK
  <2>2. \A j \in instances' : j = i \/ (j \in instances /\ j.wrapper \in Wrappers \ {w})
    BY <1>6 DEF Inv, TypeOK, Instance
  <2> QED
    BY <1>3, <1>7, <2>1, <2>2 DEF Inv, RegistrationsAreCurrent
<1>14. SocketBooks'
  <2>1. \A v \in Wrappers : gen[v] <= gen'[v]
    BY <1>4, <1>5 DEF Inv, TypeOK
  <2>2. \A v \in Wrappers, g \in Generations : <<v, g>> \in sockets => g <= gen'[v]
    <3>1. \A g \in Generations : g \in Nat
      BY LimitsAssumption DEF Generations
    <3>2. \A v \in Wrappers : gen'[v] \in Nat
      BY <1>4, <1>5 DEF Inv, TypeOK
    <3> QED
      BY <2>1, <1>4, <3>1, <3>2 DEF Inv, SocketBooks
  <2>3. <<w, gen[w] + 1>> \notin sockets
    BY <1>1, <1>4 DEF Inv, SocketBooks
  <2> QED
    BY <1>5, <1>6, <1>7, <2>2, <2>3 DEF Inv, SocketBooks
<1>15. Phases'
  BY <1>1, <1>3, <1>5, HostAssumption DEF Inv, Phases
<1>16. Room'
  <2>1. limits.tasks \in Nat /\ limits.streams \in Nat
    BY LimitsAssumption DEF Inv, TypeOK
  <2>2. Registered(reg) \in SUBSET Wrappers /\ Holders \in SUBSET Wrappers
    BY DEF Registered, Holders, Inv, TypeOK, Instance
  <2>3. Holders' = Holders \cup {w}
    BY <1>6, <1>7 DEF Holders
  <2>4. w \in Registered(reg) \/ Cardinality(Registered(reg)) < limits.tasks
    BY DEF RegisterClient, HasRoom
  <2>5. w \in Holders \/ Cardinality(Holders) < limits.streams
    <3>1. current[w] # 0 \/ Cardinality(instances) < limits.streams
      BY DEF RegisterClient, HasRoom
    <3>2. current[w] # 0 => w \in Holders
      BY <1>1 DEF Inv, RegistrationBooks, Holders
    <3> QED
      BY <3>1, <3>2, OnePerWrapper
  <2>6. Cardinality(Registered(reg)) <= limits.tasks /\ Cardinality(Holders) <= limits.streams
    BY DEF Inv, Room
  <2>7. /\ Cardinality(Registered(reg) \cup {w}) <= limits.tasks
        /\ Cardinality(Holders \cup {w}) <= limits.streams
    BY <2>1, <2>2, <2>4, <2>5, <2>6, RoomForOne
  <2> QED
    BY <1>1, <1>3, <2>3, <2>7 DEF Room
<1>17. ReachableOrLeased'
  <2>1. Reachable(w)' /\ leases'[w] = None
    BY <1>1, <1>5, <1>6, <1>7 DEF Reachable, CurrentOf, InstancesOf, Inv, TypeOK
  <2>2. ASSUME NEW v \in Registered(reg') \ {w}
        PROVE  /\ Reachable(v) => Reachable(v)'
               /\ Streaming(instances', v) => Streaming(instances, v)
               /\ leases'[v] = leases[v] /\ gen'[v] = gen[v]
               /\ v \in Registered(reg) /\ reg'.tasks[v] = reg.tasks[v]
    BY <2>2, <1>1, <1>3, <1>5, <1>6, <1>7
       DEF Inv, TypeOK, Reachable, Streaming, CurrentOf, InstancesOf, Registered
  <2> QED
    BY <1>1, <1>3, <2>1, <2>2 DEF Inv, ReachableOrLeased
<1> QED
  BY <1>2, <1>9, <1>11, <1>12, <1>13, <1>14, <1>15, <1>16, <1>17 DEF Inv

\* handleInstanceStream.
LEMMA StreamOpenStep ==
  ASSUME Inv, NEW i \in instances, StreamOpen(i)
  PROVE  Inv'
<1> DEFINE o == [i EXCEPT !.stream = "open", !.armed = FALSE]
           w == i.wrapper
<1>1. /\ i \in Instance /\ w \in Wrappers /\ w \in Clients /\ w \in Registered(reg)
      /\ i.stream = "pending" /\ i.generation = current[w] /\ i.generation = gen[w]
      /\ reg.tasks[w].conn = "connected" /\ i.generation # 0 /\ i.generation \in Generations
  BY DEF StreamOpen, Inv, TypeOK, RegistrationBooks, RegistrationsAreCurrent, Instance
<1>2. /\ o \in Instance /\ o.wrapper = w /\ o.generation = i.generation
      /\ o.stream = "open" /\ ~o.armed
  BY <1>1 DEF Instance
<1> HIDE DEF o, w
<1>3. /\ instances' = (instances \ {i}) \cup {o} /\ sockets' = sockets \cup {<<w, i.generation>>}
      /\ sent' = [sent EXCEPT ![w] = reg]
      /\ UNCHANGED <<limits, phase, reg, owners, tracker, gen, leases, writers, current, hooks>>
  BY DEF StreamOpen, o, w, sessionVars
<1>4. \A j \in instances' : j = o \/ (j \in instances /\ j.wrapper # w)
  BY <1>3 DEF Inv, RegistrationBooks, w
<1>5. TypeOK'
  BY <1>1, <1>2, <1>3 DEF Inv, TypeOK
<1>6. RegistrationBooks'
  <2>1. \A j, k \in instances' : j.wrapper = k.wrapper => j = k
    BY <1>2, <1>4 DEF Inv, RegistrationBooks
  <2>2. \A v \in Wrappers : current[v] # 0 => \E j \in instances' : j.wrapper = v
    BY <1>2, <1>3 DEF Inv, RegistrationBooks, w
  <2> QED
    BY <1>1, <1>2, <1>3, <1>4, <2>1, <2>2 DEF Inv, RegistrationBooks
<1>7. RegistrationsAreCurrent'
  BY <1>1, <1>2, <1>3, <1>4 DEF Inv, RegistrationsAreCurrent
<1>8. SocketBooks'
  <2>1. gen[w] \in Nat /\ gen[w] <= gen[w]
    BY <1>1, LimitsAssumption DEF Inv, TypeOK, Generations
  <2> QED
    BY <1>1, <1>2, <1>3, <1>4, <2>1 DEF Inv, SocketBooks
<1>9. Phases'
  BY <1>3 DEF Inv, Phases
<1>10. Room'
  <2>1. Holders' = Holders
    BY <1>2, <1>3 DEF Holders, w
  <2> QED
    BY <1>3, <2>1 DEF Inv, Room
<1>11. ReachableOrLeased'
  <2>1. ASSUME NEW v \in Wrappers, v # w
        PROVE  /\ Reachable(v) => Reachable(v)'
               /\ Streaming(instances', v) => Streaming(instances, v)
    BY <2>1, <1>2, <1>3, <1>4 DEF Reachable, Streaming, CurrentOf, InstancesOf, w
  <2>2. Reachable(w)'
    BY <1>1, <1>2, <1>3 DEF Reachable, CurrentOf, InstancesOf
  <2> QED
    BY <1>1, <1>3, <2>1, <2>2 DEF Inv, ReachableOrLeased, Registered
<1>12. ClientViewFresh'
  BY <1>1, <1>2, <1>3, <1>4 DEF Inv, TypeOK, Instance, ClientViewFresh
<1> QED
  BY <1>3, <1>5, <1>6, <1>7, <1>8, <1>9, <1>10, <1>11, <1>12 DEF Inv

\* markReconnecting of one task.
LEMMA MarkShape ==
  ASSUME NEW r \in Registry, NEW w \in Registered(r), NEW c \in {"connected", "reconnecting"}
  PROVE  /\ Registered(MarkConnection(r, w, c)) = Registered(r)
         /\ MarkConnection(r, w, c).tasks[w].conn = c
         /\ \A v \in Wrappers \ {w} : MarkConnection(r, w, c).tasks[v] = r.tasks[v]
<1> DEFINE t == [r.tasks[w] EXCEPT !.conn = c]
<1>1. r.tasks[w] \in Task
  BY SlotRange
<1>2. t \in Task /\ t.conn = c
  BY <1>1 DEF Task
<1>3. MarkConnection(r, w, c).tasks = [r.tasks EXCEPT ![w] = t]
  BY DEF MarkConnection, SetTask, Registry
<1> HIDE DEF t
<1> QED
  BY <1>2, <1>3, NoneIsNoTask DEF Registered, Registry

\* A stream of the current registration closes, and its task waits.
LEMMA DropStreamStep ==
  ASSUME Inv, NEW w \in Clients, NEW g \in Generations,
         SocketClosed(w, g), ClosesCurrent(w, g)
  PROVE  Inv'
<1>1. PICK i \in instances : i.wrapper = w /\ i.generation = g
  BY DEF ClosesCurrent, CurrentOf, InstancesOf
<1> DEFINE o == [i EXCEPT !.stream = "dropped"]
<1>2. /\ i \in Instance /\ w \in Wrappers /\ w # Host /\ w \in Registered(reg)
      /\ i.stream = "open" /\ ~i.armed /\ current[w] = g /\ gen[w] = g /\ g # 0
      /\ phase = "open"
  BY <1>1, HostAssumption
     DEF SocketClosed, Inv, TypeOK, Phases, RegistrationBooks, SocketBooks,
         RegistrationsAreCurrent, Instance
<1>3. o \in Instance /\ o.wrapper = w /\ o.generation = g /\ o.stream = "dropped" /\ ~o.armed
  BY <1>1, <1>2 DEF Instance
<1> HIDE DEF o
<1>4. /\ instances' = {j \in instances : j.wrapper # w} \cup {o}
      /\ sockets' = sockets \ {<<w, g>>}
      /\ leases' = [leases EXCEPT ![w] = g] /\ NotifyIf(reg' # reg)
      /\ reg' = MarkConnection(reg, w, "reconnecting")
      /\ UNCHANGED <<limits, phase, owners, tracker, gen, writers, current, hooks>>
  <2>1. StreamDropped(w, g) = {j \in instances : j.wrapper # w} \cup {o}
    <3>1. \A j \in instances : (j.wrapper = w /\ j.generation = g) <=> j = i
      BY <1>1 DEF Inv, RegistrationBooks
    <3>2. \A j \in instances : j.wrapper # w <=> j # i
      BY <1>1 DEF Inv, RegistrationBooks
    <3> QED
      BY <1>1, <3>1, <3>2 DEF StreamDropped, o
  <2> QED
    BY <1>2, <2>1 DEF SocketClosed, DropStream, Reconnecting, sessionVars
<1>5. /\ Sound(reg') /\ Registered(reg') = Registered(reg)
      /\ reg'.tasks[w].conn = "reconnecting"
      /\ \A v \in Wrappers \ {w} : reg'.tasks[v] = reg.tasks[v]
  BY <1>2, <1>4, MarkConnectionSound, MarkShape DEF Inv, TypeOK
<1>6. instances' \subseteq Instance
  BY <1>3, <1>4 DEF Inv, TypeOK
<1>7. SentType' /\ ClientViewFresh'
  <2>1. \A v \in Wrappers : Streaming(instances', v) => Streaming(instances, v)
    BY <1>3, <1>4 DEF Streaming
  <2> QED
    BY <1>4, <1>5, <1>6, <2>1, NotifyIfKeeps DEF Inv, TypeOK, Sound, SentType
<1>8. TypeOK'
  <2>1. leases' \in [Wrappers -> Generations \cup {None}]
    BY <1>4 DEF Inv, TypeOK
  <2> QED
    BY <1>4, <1>5, <1>6, <1>7, <2>1 DEF Inv, TypeOK, Sound, SentType
<1>9. RegistrationBooks'
  <2>1. \A j \in instances' : j = o \/ (j \in instances /\ j.wrapper \in Wrappers \ {w})
    BY <1>4 DEF Inv, TypeOK, Instance
  <2>2. \A j, k \in instances' : j.wrapper = k.wrapper => j = k
    BY <1>3, <2>1 DEF Inv, RegistrationBooks
  <2>3. \A v \in Wrappers : current[v] # 0 => \E j \in instances' : j.wrapper = v
    BY <1>3, <1>4 DEF Inv, RegistrationBooks
  <2>4. \A j \in instances' : /\ j.wrapper \in Clients /\ j.generation # 0
                              /\ j.stream # "dropped" => reg'.tasks[j.wrapper].conn = "connected"
    BY <1>2, <1>3, <1>5, <2>1 DEF Inv, RegistrationBooks
  <2> QED
    BY <1>4, <2>2, <2>3, <2>4 DEF RegistrationBooks
<1>10. RegistrationsAreCurrent'
  BY <1>2, <1>3, <1>4, <1>5 DEF Inv, RegistrationsAreCurrent
<1>11. SocketBooks'
  BY <1>2, <1>3, <1>4 DEF Inv, SocketBooks
<1>12. Phases'
  BY <1>2, <1>4, <1>5, HostAssumption DEF Inv, Phases
<1>13. Room'
  <2>1. Holders' = Holders
    BY <1>1, <1>3, <1>4 DEF Holders
  <2> QED
    BY <1>4, <1>5, <2>1 DEF Inv, Room
<1>14. ReachableOrLeased'
  <2>1. ASSUME NEW v \in Wrappers \ {w}
        PROVE  /\ Reachable(v) => Reachable(v)'
               /\ Streaming(instances', v) => Streaming(instances, v)
               /\ leases'[v] = leases[v]
    BY <2>1, <1>3, <1>4 DEF Inv, TypeOK, Reachable, Streaming, CurrentOf, InstancesOf
  <2>2. leases'[w] = gen'[w] /\ ~Streaming(instances', w)
    BY <1>2, <1>3, <1>4 DEF Inv, TypeOK, Streaming
  <2> QED
    BY <1>2, <1>4, <1>5, <2>1, <2>2 DEF Inv, ReachableOrLeased, Registered
<1> QED
  BY <1>5, <1>7, <1>8, <1>9, <1>10, <1>11, <1>12, <1>13, <1>14 DEF Inv

\* The 'close' event of a stream.
LEMMA SocketClosedStep ==
  ASSUME Inv, NEW w \in Clients, NEW g \in Generations, SocketClosed(w, g)
  PROVE  Inv'
<1>1. CASE ClosesCurrent(w, g)
  BY <1>1, DropStreamStep
<1>2. CASE ~ClosesCurrent(w, g)
  <2>1. /\ sockets' = sockets \ {<<w, g>>}
        /\ UNCHANGED <<limits, phase, reg, owners, tracker, gen, leases, writers,
                       instances, current, hooks, sent>>
    BY <1>2 DEF SocketClosed, sessionVars
  <2>2. TypeOK' /\ SocketBooks' /\ Phases'
    BY <2>1 DEF Inv, TypeOK, SocketBooks, Phases
  <2>3. RegistrationBooks' /\ RegistrationsAreCurrent' /\ Room' /\ ClientViewFresh'
    BY <2>1 DEF Inv, RegistrationBooks, RegistrationsAreCurrent, Room, Holders, ClientViewFresh
  <2>4. ReachableOrLeased'
    BY <2>1 DEF Inv, ReachableOrLeased, Reachable, CurrentOf, InstancesOf, Streaming
  <2> QED
    BY <2>1, <2>2, <2>3, <2>4 DEF Inv
<1> QED
  BY <1>1, <1>2

\* handleInstanceDelete and the 30 s timer: every registration in the map is
\* its wrapper's current one, so either takes the task with it.
LEMMA CloseAndRemoveStep ==
  ASSUME Inv, NEW i \in instances, CloseAndRemove(i),
         UNCHANGED <<limits, phase, sockets, hooks>>
  PROVE  Inv'
<1>1. i.wrapper \in Clients /\ gen[i.wrapper] = i.generation
  BY DEF Inv, RegistrationBooks, RegistrationsAreCurrent
<1>2. phase = "open"
  BY DEF Inv, TypeOK, Phases
<1> QED
  BY <1>1, <1>2, RemoveStep DEF CloseAndRemove

\* The 5 s lease.
LEMMA LeaseExpireStep ==
  ASSUME Inv, NEW w \in Clients, LeaseExpire(w)
  PROVE  Inv'
<1>1. CASE leases[w] = gen[w]
  BY <1>1, RemoveStep DEF LeaseExpire
<1>2. CASE leases[w] # gen[w]
  <2>1. /\ leases' = [leases EXCEPT ![w] = None] /\ phase = "open"
        /\ UNCHANGED <<limits, phase, reg, owners, tracker, gen, writers,
                       instances, current, sockets, hooks, sent>>
    BY <1>2 DEF LeaseExpire, sessionVars
  <2>2. TypeOK' /\ Phases'
    BY <2>1 DEF Inv, TypeOK, Phases
  <2>3. RegistrationBooks' /\ RegistrationsAreCurrent' /\ SocketBooks' /\ Room' /\ ClientViewFresh'
    BY <2>1 DEF Inv, RegistrationBooks, RegistrationsAreCurrent, SocketBooks, Room, Holders,
                ClientViewFresh
  <2>4. ReachableOrLeased'
    <3>1. ASSUME NEW v \in Registered(reg)
          PROVE  /\ leases[v] = None => leases'[v] = None
                 /\ leases[v] = gen[v] => leases'[v] = leases[v]
      BY <1>2, <2>1, <3>1 DEF Inv, TypeOK, Registered
    <3> QED
      BY <2>1, <3>1 DEF Inv, ReachableOrLeased, Reachable, CurrentOf, InstancesOf, Streaming
  <2> QED
    BY <2>1, <2>2, <2>3, <2>4 DEF Inv
<1> QED
  BY <1>1, <1>2

\* close, which leaves no registration and no lease.
LEMMA ShutdownStep ==
  ASSUME Inv, Shutdown
  PROVE  Inv'
<1>1. Host \in Wrappers /\ Host \in Registered(reg) /\ Sound(reg) /\ reg \in Registry
  BY HostAssumption DEF Shutdown, Inv, TypeOK, Phases
<1>2. reg' = Unregister(reg, Host)
  BY <1>1 DEF Shutdown
<1>3. Sound(reg') /\ reg'.tasks = [reg.tasks EXCEPT ![Host] = None]
  BY <1>1, <1>2, UnregisterSound, UnregisterShape
<1>4. Registered(reg') \subseteq Registered(reg)
  BY <1>1, <1>3 DEF Registered, Registry
<1>5. /\ gen' = [gen EXCEPT ![Host] = gen[Host] + 1] /\ gen[Host] < MaxGen + 1
      /\ phase' = "closed" /\ instances' = {} /\ hooks' = {} /\ sockets' = sockets
      /\ leases' = [w \in Wrappers |-> None] /\ current' = [w \in Wrappers |-> 0]
      /\ writers' = writers \ {Host} /\ limits' = limits
  BY DEF Shutdown, AdvanceGeneration
<1>6. SentType' /\ ClientViewFresh'
  BY <1>5 DEF Inv, TypeOK, SentType, Shutdown, Silent, Streaming, ClientViewFresh
<1>7. SessionTypes'
  BY DEF Inv, TypeOK, SessionTypes, Shutdown
<1>8. gen[Host] \in Nat /\ gen[Host] + 1 \in Generations /\ 0 \in Generations
  BY <1>1, <1>5, LimitsAssumption DEF Inv, TypeOK, Generations
<1>9. TypeOK'
  BY <1>1, <1>3, <1>5, <1>6, <1>7, <1>8 DEF Inv, TypeOK, Sound, SentType, SessionTypes
<1>10. RegistrationBooks' /\ RegistrationsAreCurrent' /\ Phases' /\ ReachableOrLeased'
  BY <1>5 DEF RegistrationBooks, RegistrationsAreCurrent, Phases, ReachableOrLeased
<1>11. SocketBooks'
  <2>1. \A v \in Wrappers : gen[v] \in Nat /\ gen'[v] \in Nat /\ gen[v] <= gen'[v]
    BY <1>1, <1>5, LimitsAssumption DEF Inv, TypeOK, Generations
  <2>2. \A g \in Generations : g \in Nat
    BY LimitsAssumption DEF Generations
  <2> QED
    BY <1>5, <2>1, <2>2 DEF Inv, SocketBooks
<1>12. Room'
  <2>1. IsFiniteSet(Registered(reg)) /\ IsFiniteSet(Registered(reg'))
    BY FiniteAssumption, FS_Subset DEF Registered
  <2>2. /\ Cardinality(Registered(reg')) <= Cardinality(Registered(reg))
        /\ Cardinality(Registered(reg')) \in Nat /\ Cardinality(Registered(reg)) \in Nat
    BY <1>4, <2>1, FS_Subset, FS_CardinalityType
  <2>3. limits.tasks \in Nat /\ limits.streams \in Nat
    BY LimitsAssumption DEF Inv, TypeOK
  <2>4. Holders' = {}
    BY <1>5 DEF Holders
  <2>5. Cardinality(Holders') = 0
    BY <2>4, FS_EmptySet
  <2> QED
    BY <1>5, <2>2, <2>3, <2>5 DEF Inv, Room
<1> QED
  BY <1>3, <1>6, <1>9, <1>10, <1>11, <1>12 DEF Inv

-----------------------------------------------------------------------------
(***************************************************************************)
(* Targets and session books.  What the controls choose from and what the  *)
(* session tables say rests on one more fact of the registry: no task says *)
(* "disconnected", which would make it unselectable until a hook reports.  *)
(***************************************************************************)
Lively(r)   == \A w \in Registered(r) : r.tasks[w].state \in AgentStates
Targeted(r) == r.selected = None => Selectable(r) = {}
Served(r)   == Lively(r) /\ Targeted(r)

\* A task that keeps its slot and gains no connection is no new target.
LEMMA WriteServed ==
  ASSUME NEW r \in Registry, Served(r), NEW w \in Registered(r),
         NEW t \in Task, t.state \in AgentStates, t.slot = r.tasks[w].slot,
         t.conn \in {r.tasks[w].conn, "reconnecting"},
         NEW q, q.tasks = [r.tasks EXCEPT ![w] = t],
         q.selected = r.selected \/ q.selected = w
  PROVE  Served(q)
<1>1. w \in Wrappers /\ w # None
  BY NoneAssumption DEF Registered
<1>2. /\ Registered(q) = Registered(r)
      /\ q.tasks[w] = t /\ \A v \in Wrappers \ {w} : q.tasks[v] = r.tasks[v]
  BY <1>1, NoneIsNoTask DEF Registered, Registry
<1>3. r.tasks[w].state # "disconnected"
  BY DEF Served, Lively, AgentStates
<1>4. Selectable(q) \subseteq Selectable(r)
  BY <1>2, <1>3 DEF Selectable, Candidates
<1> QED
  BY <1>1, <1>2, <1>4 DEF Served, Lively, Targeted

LEMMA SelectRecordServed ==
  ASSUME NEW r \in Registry, Served(r), NEW w \in Selectable(r)
  PROVE  Served(SelectRecord(r, w))
<1> DEFINE t == [r.tasks[w] EXCEPT !.unread = FALSE,
                                   !.state = IF @ = "complete" THEN "idle" ELSE @]
<1>1. w \in Registered(r) /\ r.tasks[w] \in Task /\ r.tasks[w].state \in AgentStates
  BY SlotRange DEF Selectable, Candidates, Served, Lively
<1>2. t \in Task /\ t.state \in AgentStates /\ t.slot = r.tasks[w].slot /\ t.conn = r.tasks[w].conn
  BY <1>1 DEF Task, AgentStates, TaskStates
<1>3. /\ SelectRecord(r, w).tasks = [r.tasks EXCEPT ![w] = t]
      /\ SelectRecord(r, w).selected = w
  BY DEF SelectRecord, SetTask, Registry
<1> HIDE DEF t
<1> QED
  BY <1>1, <1>2, <1>3, WriteServed

LEMMA ApplyStateServed ==
  ASSUME NEW r \in Registry, Served(r), NEW w \in Registered(r),
         NEW state \in AgentStates, NEW session \in Sessions \cup {None}
  PROVE  Served(ApplyState(r, w, state, session))
<1> DEFINE t == [r.tasks[w] EXCEPT
                   !.state   = state,
                   !.unread  = state = "complete" \/ (state # "idle" /\ @),
                   !.session = IF session = None THEN @ ELSE session]
<1>1. r.tasks[w] \in Task
  BY SlotRange
<1>2. t \in Task /\ t.state \in AgentStates /\ t.slot = r.tasks[w].slot /\ t.conn = r.tasks[w].conn
  <2>1. (state = "complete" \/ (state # "idle" /\ r.tasks[w].unread)) \in BOOLEAN
    OBVIOUS
  <2> QED
    BY <1>1, <2>1 DEF Task, TaskStates
<1>3. /\ ApplyState(r, w, state, session).tasks = [r.tasks EXCEPT ![w] = t]
      /\ ApplyState(r, w, state, session).selected = r.selected
  BY DEF ApplyState, SetTask, Registry
<1> HIDE DEF t
<1> QED
  BY <1>2, <1>3, WriteServed

LEMMA ClearTaskSessionServed ==
  ASSUME NEW r \in Registry, Served(r), NEW w \in Wrappers, NEW s
  PROVE  Served(ClearTaskSession(r, w, s))
<1> DEFINE t == [r.tasks[w] EXCEPT
                   !.session = None,
                   !.state   = IF @ \in {"waiting", "executing"} THEN "idle" ELSE @]
<1>1. ASSUME w \in Registered(r)
      PROVE  Served(ClearSession(r, w))
  <2>1. r.tasks[w] \in Task /\ r.tasks[w].state \in AgentStates
    BY <1>1, SlotRange DEF Served, Lively
  <2>2. t \in Task /\ t.state \in AgentStates /\ t.slot = r.tasks[w].slot
        /\ t.conn = r.tasks[w].conn
    BY <2>1 DEF Task, TaskStates, AgentStates
  <2>3. /\ ClearSession(r, w).tasks = [r.tasks EXCEPT ![w] = t]
        /\ ClearSession(r, w).selected = r.selected
    BY DEF ClearSession, SetTask, Registry
  <2> HIDE DEF t
  <2> QED
    BY <1>1, <2>2, <2>3, WriteServed
<1> QED
  BY <1>1 DEF ClearTaskSession

LEMMA ReconnectingServed ==
  ASSUME NEW r \in Registry, Served(r), NEW w \in Registered(r)
  PROVE  Served(MarkConnection(r, w, "reconnecting"))
<1> DEFINE t == [r.tasks[w] EXCEPT !.conn = "reconnecting"]
<1>1. r.tasks[w] \in Task /\ r.tasks[w].state \in AgentStates
  BY SlotRange DEF Served, Lively
<1>2. t \in Task /\ t.state \in AgentStates /\ t.slot = r.tasks[w].slot /\ t.conn = "reconnecting"
  BY <1>1 DEF Task
<1>3. /\ MarkConnection(r, w, "reconnecting").tasks = [r.tasks EXCEPT ![w] = t]
      /\ MarkConnection(r, w, "reconnecting").selected = r.selected
  BY DEF MarkConnection, SetTask, Registry
<1> HIDE DEF t
<1> QED
  BY <1>2, <1>3, WriteServed

LEMMA UnregisterServed ==
  ASSUME NEW r \in Registry, Served(r), NEW w \in Registered(r)
  PROVE  Served(Unregister(r, w))
<1> DEFINE rest == SetTask(r, w, None)
           f    == FallbackWrapper(rest, {}, FALSE)
<1>1. /\ rest \in Registry /\ rest.selected = r.selected
      /\ rest.tasks = [r.tasks EXCEPT ![w] = None]
  BY DEF SetTask, Registry
<1>2. Lively(rest) /\ Selectable(rest) \subseteq Selectable(r)
  BY <1>1 DEF Served, Lively, Selectable, Candidates, Registered, Registry
<1>3. f = None => Selectable(rest) = {}
  <2>1. Selectable(rest) = {} \/ f \in Selectable(rest)
    BY <1>1, FallbackIsCandidate DEF Selectable
  <2>2. Selectable(rest) \subseteq Wrappers
    BY DEF Selectable, Candidates, Registered
  <2> QED
    BY <2>1, <2>2, NoneAssumption
<1>4. Unregister(r, w) = IF r.selected = w THEN [rest EXCEPT !.selected = f] ELSE rest
  BY DEF Unregister, SelectFallback
<1> HIDE DEF rest, f
<1>5. /\ [rest EXCEPT !.selected = f].selected = f
      /\ [rest EXCEPT !.selected = f].tasks = rest.tasks
  BY <1>1 DEF Registry
<1>6. CASE r.selected = w
  BY <1>2, <1>3, <1>4, <1>5, <1>6
     DEF Served, Lively, Targeted, Selectable, Candidates, Registered
<1>7. CASE r.selected # w
  BY <1>1, <1>2, <1>4, <1>7 DEF Served, Targeted
<1> QED
  BY <1>6, <1>7

\* Whoever registers into a slot while nothing is selected is selected.
LEMMA RegisterServed ==
  ASSUME NEW r \in Registry, Served(r), NEW w \in Wrappers, NEW want, NEW newer,
         NEW rec, rec # None => rec.state \in AgentStates
  PROVE  Served(Register(r, w, want, rec, newer))
<1> DEFINE q == Register(r, w, want, rec, newer)
<1>1. \E t : /\ t.state \in AgentStates /\ q.tasks = [r.tasks EXCEPT ![w] = t]
             /\ \/ q.selected = w
                \/ q.selected = r.selected /\ (r.selected # None \/ t.slot = NoSlot)
  <2>1. CASE w \notin Registered(r)
    <3> DEFINE slot  == AllocateSlot(r, want)
               takes == slot # NoSlot /\ (r.selected = None \/ (rec # None /\ rec.selected))
               t     == [slot    |-> slot,
                         state   |-> IF rec = None THEN "idle" ELSE rec.state,
                         conn    |-> "connected",
                         unread  |-> rec # None /\ rec.unread,
                         session |-> IF rec = None THEN None ELSE rec.session]
               next  == SetTask(r, w, t)
    <3>1. q = IF takes THEN [next EXCEPT !.selected = w] ELSE next
      BY <2>1 DEF Register, RegisterNew
    <3>2. t.state \in AgentStates /\ t.slot = slot
      BY DEF AgentStates
    <3> HIDE DEF t
    <3>3. /\ next.tasks = [r.tasks EXCEPT ![w] = t] /\ next.selected = r.selected
          /\ [next EXCEPT !.selected = w].tasks = next.tasks
          /\ [next EXCEPT !.selected = w].selected = w
      BY DEF SetTask, Registry
    <3> HIDE DEF next
    <3> QED
      BY <3>1, <3>2, <3>3
  <2>2. CASE w \in Registered(r)
    <3> DEFINE task  == r.tasks[w]
               merge == rec # None /\ newer
               from  == IF merge THEN rec ELSE task
               slot  == IF want = AnySlot THEN task.slot ELSE want
               takes == slot # NoSlot /\ (r.selected = None \/ (merge /\ rec.selected))
               t     == [slot    |-> slot,
                         state   |-> from.state,
                         conn    |-> "connected",
                         unread  |-> from.unread,
                         session |-> from.session]
               next  == SetTask(r, w, t)
    <3>1. q = IF takes THEN [next EXCEPT !.selected = w] ELSE next
      BY <2>2 DEF Register, RegisterAgain
    <3>2. t.state \in AgentStates /\ t.slot = slot
      BY <2>2 DEF Served, Lively
    <3> HIDE DEF t
    <3>3. /\ next.tasks = [r.tasks EXCEPT ![w] = t] /\ next.selected = r.selected
          /\ [next EXCEPT !.selected = w].tasks = next.tasks
          /\ [next EXCEPT !.selected = w].selected = w
      BY DEF SetTask, Registry
    <3> HIDE DEF next
    <3> QED
      BY <3>1, <3>2, <3>3
  <2> QED
    BY <2>1, <2>2
<1> HIDE DEF q
<1>2. PICK t : /\ t.state \in AgentStates /\ q.tasks = [r.tasks EXCEPT ![w] = t]
               /\ \/ q.selected = w
                  \/ q.selected = r.selected /\ (r.selected # None \/ t.slot = NoSlot)
  BY <1>1
<1>3. q.tasks[w] = t /\ \A v \in Wrappers \ {w} : q.tasks[v] = r.tasks[v]
  BY <1>2 DEF Registry
<1>4. Lively(q)
  BY <1>2, <1>3 DEF Served, Lively, Registered
<1>5. Targeted(q)
  <2>1. ASSUME q.selected = None
        PROVE  r.selected = None /\ t.slot = NoSlot
    BY <2>1, <1>2, NoneAssumption
  <2>2. ASSUME q.selected = None, NEW v \in Selectable(q)
        PROVE  v \in Selectable(r)
    BY <2>1, <2>2, <1>3 DEF Selectable, Candidates, Registered
  <2> QED
    BY <2>1, <2>2 DEF Targeted, Served
<1> QED
  BY <1>4, <1>5 DEF Served, q

\* A promoted host falls back to any task in a slot, reconnecting or not.
LEMMA RestoreServed ==
  ASSUME NEW r \in Registry, Lively(r), NEW c
  PROVE  Served(Restore(r, c))
<1> DEFINE tasks == [w \in Wrappers |->
                       IF r.tasks[w] = None THEN None
                       ELSE [r.tasks[w] EXCEPT !.conn = IF w = c THEN "connected"
                                                                 ELSE "reconnecting"]]
           back  == [tasks |-> tasks, selected |-> r.selected]
           f     == FallbackWrapper(back, {}, TRUE)
<1>1. ASSUME NEW w \in Registered(r)
      PROVE  tasks[w] \in Task /\ tasks[w].state = r.tasks[w].state
  <2>1. r.tasks[w] \in Task /\ r.tasks[w] # None /\ w \in Wrappers
    BY SlotRange DEF Registered
  <2> QED
    BY <2>1 DEF Task
<1>2. \A w \in Wrappers : w \notin Registered(r) => tasks[w] = None
  BY DEF Registered
<1>3. /\ tasks \in [Wrappers -> Task \cup {None}] /\ back \in Registry
      /\ back.tasks = tasks /\ back.selected = r.selected
  <2>1. tasks \in [Wrappers -> Task \cup {None}]
    BY <1>1, <1>2
  <2> HIDE DEF tasks
  <2> QED
    BY <2>1 DEF Registry
<1>4. Restore(r, c) = IF r.selected \in Registered(back) THEN back
                      ELSE [back EXCEPT !.selected = f]
  BY DEF Restore
<1> HIDE DEF tasks
<1>5. Lively(back)
  BY <1>1, <1>2, <1>3 DEF Lively, Registered
<1>6. f = None => Selectable(back) = {}
  <2>1. Candidates(back, {}, TRUE) = {} \/ f \in Candidates(back, {}, TRUE)
    BY <1>3, FallbackIsCandidate
  <2>2. Candidates(back, {}, TRUE) \subseteq Wrappers /\ Selectable(back) \subseteq Candidates(back, {}, TRUE)
    BY DEF Selectable, Candidates, Registered
  <2> QED
    BY <2>1, <2>2, NoneAssumption
<1> HIDE DEF back, f
<1>7. /\ [back EXCEPT !.selected = f].selected = f
      /\ [back EXCEPT !.selected = f].tasks = back.tasks
  BY <1>3 DEF Registry
<1>8. r.selected \in Registered(back) => back.selected # None
  BY <1>3, NoneAssumption DEF Registered
<1> QED
  BY <1>4, <1>5, <1>6, <1>7, <1>8
     DEF Served, Lively, Targeted, Selectable, Candidates, Registered

-----------------------------------------------------------------------------
(***************************************************************************)
(* The invariant and what follows from it.                                 *)
(***************************************************************************)
LEMMA InitInv ==
  ASSUME Init
  PROVE  Inv
<1>1. EmptyRegistry \in Registry /\ Registered(EmptyRegistry) = {}
  BY DEF EmptyRegistry, Registry, Registered
<1>2. Sound(reg)
  BY <1>1 DEF Init, Sound, SlotsUnshared, SelectionInSlot, EmptyRegistry
<1>3. TypeOK
  BY <1>1, LimitsAssumption DEF Init, TypeOK, Generations
<1>4. RegistrationBooks /\ SocketBooks /\ RegistrationsAreCurrent /\ ReachableOrLeased
      /\ ClientViewFresh
  BY DEF Init, RegistrationBooks, SocketBooks, RegistrationsAreCurrent, ReachableOrLeased,
         ClientViewFresh
<1>5. Phases
  BY <1>1, HostAssumption DEF Init, Phases
<1>6. Room
  <2>1. Holders = {} /\ Registered(reg) = {} /\ limits.tasks \in Nat /\ limits.streams \in Nat
    BY <1>1, LimitsAssumption DEF Init, Holders
  <2> QED
    BY <2>1, FS_EmptySet DEF Room
<1> QED
  BY <1>2, <1>3, <1>4, <1>5, <1>6 DEF Inv

LEMMA NextInv ==
  ASSUME Inv, [Next]_vars
  PROVE  Inv'
<1>1. ASSUME Starting
      PROVE  Inv'
  BY <1>1, StartFreshStep, RestoreTaskStatusStep, StartPromotedStep DEF Starting
<1>2. ASSUME Registering
      PROVE  Inv'
  BY <1>2, RegisterClientStep DEF Registering
<1>3. ASSUME Streams
      PROVE  Inv'
  <2>1. PICK i \in instances : StreamOpen(i) \/ InstanceDelete(i) \/ PendingExpire(i)
    BY <1>3 DEF Streams
  <2>2. CASE StreamOpen(i)
    BY <2>2, StreamOpenStep
  <2>3. CASE InstanceDelete(i)
    BY <2>3, CloseAndRemoveStep DEF InstanceDelete
  <2>4. CASE PendingExpire(i)
    BY <2>4, CloseAndRemoveStep DEF PendingExpire
  <2> QED
    BY <2>1, <2>2, <2>3, <2>4
<1>4. ASSUME NEW s \in Slots, SelectSlot(s)
      PROVE  Inv'
  BY <1>4, ChosenStep DEF SelectSlot
<1>5. ASSUME NEW delta \in {1, -1}, SelectRelative(delta)
      PROVE  Inv'
  <2>1. RelativeTarget(reg, delta) \in Selectable(reg)
    BY <1>5, RelativeTargetSelectable DEF SelectRelative, Inv, TypeOK
  <2> QED
    BY <1>5, <2>1, ChosenStep DEF SelectRelative
<1>6. CASE UNCHANGED vars
  <2>1. Alike(reg', reg)
    BY <1>6 DEF Alike, vars
  <2>2. Sound(reg') /\ SessionTypes' /\ SentType' /\ ClientViewFresh'
    BY <1>6 DEF Inv, TypeOK, SessionTypes, SentType, ClientViewFresh, vars, sessionVars, streamVars
  <2>3. hooks' \subseteq Hook /\ (phase = "starting" => hooks' = {})
    BY <1>6 DEF Inv, TypeOK, Phases, vars
  <2> QED
    BY <1>6, <2>1, <2>2, <2>3, AlikeStep DEF vars, streamVars
<1> QED
  BY <1>1, <1>2, <1>3, <1>4, <1>5, <1>6, FailureStep, ShutdownStep, SocketClosedStep,
     LeaseExpireStep, HookArrivesStep, HookBodyStep DEF Next

\* The invariant holds of every reachable state.
THEOREM ServerInvariant == Spec => []Inv
<1> QED
  BY InitInv, NextInv, PTL DEF Spec

\* Every variable keeps its type.
THEOREM ServerTypeCorrect == Spec => []TypeOK
<1>1. Inv => TypeOK
  BY DEF Inv
<1> QED
  BY <1>1, ServerInvariant, PTL

\* No order of close events, retries, leases and late timers leaves a task that
\* looks alive with nobody behind it, or a wait that nothing ends.
THEOREM TasksReachableOrLeased == Spec => []ReachableOrLeased
<1>1. Inv => ReachableOrLeased
  BY DEF Inv
<1> QED
  BY <1>1, ServerInvariant, PTL

\* A registration in the map is the current one of its wrapper, so that a
\* retried registration leaves no predecessor behind.
THEOREM OnlyCurrentRegistrations == Spec => []RegistrationsAreCurrent
<1>1. Inv => RegistrationsAreCurrent
  BY DEF Inv
<1> QED
  BY <1>1, ServerInvariant, PTL

\* Every open stream has been told the present state.
THEOREM ClientViewsAreFresh == Spec => []ClientViewFresh
<1>1. Inv => ClientViewFresh
  BY DEF Inv
<1> QED
  BY <1>1, ServerInvariant, PTL

\* The limits on tasks and registrations hold across retries, recoveries and
\* promotions.
THEOREM LimitsHold == Spec => []WithinLimits
<1>1. Inv => WithinLimits
  BY OnePerWrapper DEF Inv, Room, WithinLimits
<1> QED
  BY <1>1, ServerInvariant, PTL

\* No timer takes a task from under an open stream, however late it fires.
THEOREM LateTimersSpareStreams == Spec => TimersSpareStreams
<1> DEFINE Fires  == (\E w \in Clients : LeaseExpire(w)) \/ (\E i \in instances : PendingExpire(i))
           Spared == \A w \in Registered(reg) : Streaming(instances, w) => w \in Registered(reg')
<1>1. ASSUME Inv, NEW w \in Clients, RemoveWrapper(w), ~Streaming(instances, w)
      PROVE  Spared
  <2>1. reg'.tasks = [reg.tasks EXCEPT ![w] = None] \/ reg' = reg
    BY <1>1, UnregisterShape DEF RemoveWrapper, Inv, TypeOK
  <2> QED
    BY <1>1, <2>1 DEF Registered, Inv, TypeOK, Registry
<1>2. ASSUME Inv, NEW w \in Clients, LeaseExpire(w)
      PROVE  Spared
  <2>1. CASE leases[w] = gen[w]
    <3>1. Streaming(instances, w) => w \in Registered(reg) /\ reg.tasks[w].conn = "connected"
      BY <1>2 DEF Inv, Streaming, RegistrationBooks, RegistrationsAreCurrent
    <3>2. Streaming(instances, w) => leases[w] = None
      BY <1>2, <3>1 DEF Inv, ReachableOrLeased, LeaseExpire
    <3> QED
      BY <1>1, <1>2, <2>1, <3>2 DEF LeaseExpire
  <2>2. CASE leases[w] # gen[w]
    BY <1>2, <2>2 DEF LeaseExpire
  <2> QED
    BY <2>1, <2>2
<1>3. ASSUME Inv, NEW i \in instances, PendingExpire(i)
      PROVE  Spared
  <2>1. i.wrapper \in Clients /\ gen[i.wrapper] = i.generation
    BY <1>3 DEF Inv, RegistrationBooks, RegistrationsAreCurrent
  <2>2. ~Streaming(instances, i.wrapper)
    BY <1>3 DEF Inv, RegistrationBooks, Streaming, PendingExpire
  <2> QED
    BY <1>1, <1>3, <2>1, <2>2 DEF PendingExpire, CloseAndRemove
<1>4. Inv => [Fires => Spared]_vars
  BY <1>2, <1>3
<1> QED
  BY <1>4, ServerInvariant, PTL DEF TimersSpareStreams

-----------------------------------------------------------------------------
(***************************************************************************)
(* Targets and session books, over the invariant.                          *)
(***************************************************************************)
Booked == Served(reg) /\ SessionBooksAgree

\* The session a wrapper's task shows.
Shows(r, w, s) == w \in Registered(r) => r.tasks[w].session = s

\* Handlers that leave the session tables alone and every session in its task.
LEMMA BooksStay ==
  ASSUME SessionBooksAgree, UNCHANGED sessionVars,
         \A w \in Registered(reg') : w \in Registered(reg)
                                     /\ reg'.tasks[w].session = reg.tasks[w].session
  PROVE  SessionBooksAgree'
BY DEF SessionBooksAgree, sessionVars, Registered

\* removeWrapper and shutdown file no session under the wrapper that goes.
LEMMA BooksWithout ==
  ASSUME SessionBooksAgree, NEW w \in Wrappers,
         owners' = [s \in Sessions |-> IF owners[s] = w THEN None ELSE owners[s]],
         tracker' = [s \in Sessions |-> IF owners[s] = w THEN None ELSE tracker[s]],
         \A v \in Wrappers \ {w} : reg'.tasks[v] = reg.tasks[v]
  PROVE  SessionBooksAgree'
<1>1. w # None /\ None \notin Registered(reg')
  BY NoneAssumption DEF Registered
<1> QED
  BY <1>1 DEF SessionBooksAgree, Registered

\* syncTaskSession files the session of the task that registers, and no other,
\* under its wrapper.
LEMMA BooksSynced ==
  ASSUME SessionBooksAgree, SessionTypes, NEW w \in Wrappers, NEW previous,
         SyncSession(w, previous),
         reg' \in Registry, w \in Registered(reg'), reg'.tasks[w].state \in AgentStates,
         \A v \in Wrappers \ {w} : reg'.tasks[v] = reg.tasks[v]
  PROVE  SessionBooksAgree'
<1> DEFINE task == reg'.tasks[w]
<1>1. w # None /\ None \notin Registered(reg') /\ Tracked(task) # None
  BY NoneAssumption, NoneIsNoTask DEF Registered, Tracked, TaskStates, AgentStates
<1> SUFFICES ASSUME NEW s \in Sessions
             PROVE  /\ owners'[s] \in Registered(reg') => reg'.tasks[owners'[s]].session = s
                    /\ owners'[s] = None <=> tracker'[s] = None
  BY DEF SessionBooksAgree, Registered
<1>2. CASE s = task.session
  BY <1>1, <1>2 DEF SyncSession
<1>3. CASE s # task.session /\ (owners[s] = w \/ s = previous)
  BY <1>1, <1>3 DEF SyncSession
<1>4. CASE s # task.session /\ owners[s] # w /\ s # previous
  <2>1. owners'[s] = owners[s] /\ tracker'[s] = tracker[s]
    BY <1>4 DEF SyncSession
  <2> QED
    BY <2>1, <1>4 DEF SessionBooksAgree, Registered
<1> QED
  BY <1>2, <1>3, <1>4

-----------------------------------------------------------------------------
(***************************************************************************)
(* One lemma per handler that writes the registry or the tables.           *)
(***************************************************************************)
\* A registration: the three callers of register and syncTaskSession.
LEMMA RegisterBooked ==
  ASSUME Inv, Booked, NEW w \in Wrappers, NEW want, NEW newer, NEW previous,
         NEW rec, rec # None => rec.state \in AgentStates,
         reg' = Register(reg, w, want, rec, newer), SyncSession(w, previous),
         Sound(reg'), Connects(reg', reg, w)
  PROVE  Booked'
<1>1. reg \in Registry /\ reg' \in Registry /\ SessionTypes
  BY DEF Inv, TypeOK, Sound, SessionTypes
<1>2. Served(reg')
  BY <1>1, RegisterServed DEF Booked
<1>3. /\ w \in Registered(reg')
      /\ \A v \in Wrappers \ {w} : reg'.tasks[v] = reg.tasks[v]
  BY <1>1, ConnectShape
<1>4. reg'.tasks[w].state \in AgentStates
  BY <1>2, <1>3 DEF Served, Lively
<1>5. SessionBooksAgree'
  BY <1>1, <1>3, <1>4, BooksSynced DEF Booked
<1> QED
  BY <1>2, <1>5 DEF Booked, Served, Lively, Targeted, Registered, Selectable, Candidates

\* restoreTaskStatus files every session of the cached status.
LEMMA RestoreBooked ==
  ASSUME Inv, Booked, NEW cache \in Caches, RestoreTaskStatus(cache)
  PROVE  Booked'
<1> DEFINE Back(v) == [cache.tasks[v] EXCEPT !.conn = IF v = Host THEN "connected"
                                                                  ELSE "reconnecting"]
           tasks == [v \in Wrappers |-> IF cache.tasks[v] = None THEN None ELSE Back(v)]
<1>1. cache \in Registry /\ Lively(cache) /\ reg' = Restore(cache, Host)
  BY CachesAssumption, StatesAssumption DEF RestoreTaskStatus, Lively
<1>2. Served(reg')
  BY <1>1, RestoreServed
<1>3. Registered(reg') = Registered(cache)
  BY <1>1, RestoreShape
<1>4. ASSUME NEW v \in Registered(cache)
      PROVE  reg'.tasks[v].session = cache.tasks[v].session
  <2>1. reg'.tasks = tasks
    BY <1>1 DEF Restore
  <2>2. v \in Wrappers /\ cache.tasks[v] # None /\ cache.tasks[v] \in Task
    BY <1>1, SlotRange DEF Registered
  <2>3. Back(v).session = cache.tasks[v].session
    BY <2>2 DEF Task
  <2> QED
    BY <2>1, <2>2, <2>3
<1>5. ASSUME NEW s \in Sessions
      PROVE  /\ owners'[s] \in Registered(cache) => cache.tasks[owners'[s]].session = s
             /\ owners'[s] = None <=> tracker'[s] = None
  <2>1. \/ owners'[s] = None
        \/ owners'[s] \in Registered(cache) /\ cache.tasks[owners'[s]].session = s
    BY DEF RestoreTaskStatus, Files, ListedLast
  <2>2. None \notin Registered(cache)
    BY NoneAssumption DEF Registered
  <2>3. \A v \in Registered(cache) : Tracked(cache.tasks[v]) # None
    BY <1>1, NoneIsNoTask DEF Lively, Tracked, TaskStates, AgentStates
  <2>4. tracker'[s] = IF owners'[s] = None THEN None ELSE Tracked(cache.tasks[owners'[s]])
    BY DEF RestoreTaskStatus
  <2> QED
    BY <2>1, <2>2, <2>3, <2>4
<1>6. SessionBooksAgree'
  BY <1>3, <1>4, <1>5 DEF SessionBooksAgree, Registered
<1> QED
  BY <1>2, <1>6 DEF Booked, Served, Lively, Targeted, Registered, Selectable, Candidates

\* unregister, and the session table with it.
LEMMA RemovalBooked ==
  ASSUME Inv, Booked, NEW w \in Wrappers,
         owners' = [s \in Sessions |-> IF owners[s] = w THEN None ELSE owners[s]],
         tracker' = [s \in Sessions |-> IF owners[s] = w THEN None ELSE tracker[s]],
         reg' = IF w \in Registered(reg) THEN Unregister(reg, w) ELSE reg
  PROVE  Booked'
<1>1. reg \in Registry
  BY DEF Inv, TypeOK
<1>2. Served(reg')
  BY <1>1, UnregisterServed DEF Booked
<1>3. \A v \in Wrappers \ {w} : reg'.tasks[v] = reg.tasks[v]
  BY <1>1, UnregisterShape DEF Registry
<1>4. SessionBooksAgree'
  BY <1>3, BooksWithout DEF Booked
<1> QED
  BY <1>2, <1>4 DEF Booked, Served, Lively, Targeted, Registered, Selectable, Candidates

\* Writes to one task that leave its session as it is, and no table touched.
LEMMA WriteBooked ==
  ASSUME Inv, Booked, UNCHANGED sessionVars, Served(reg'),
         NEW w \in Registered(reg), NEW t,
         reg'.tasks = [reg.tasks EXCEPT ![w] = t], t.session = reg.tasks[w].session
  PROVE  Booked'
<1>1. reg \in Registry /\ w \in Wrappers
  BY DEF Inv, TypeOK, Registered
<1>2. \A v \in Registered(reg') :
        v \in Registered(reg) /\ reg'.tasks[v].session = reg.tasks[v].session
  BY <1>1 DEF Registered, Registry
<1>3. SessionBooksAgree'
  BY <1>2, BooksStay DEF Booked
<1> QED
  BY <1>3 DEF Booked, Served, Lively, Targeted, Registered, Selectable, Candidates

\* A state report that names no session.
LEMMA UnnamedReportBooked ==
  ASSUME Inv, Booked, UNCHANGED sessionVars, NEW w \in Registered(reg),
         NEW state \in AgentStates, reg' = ApplyState(reg, w, state, None)
  PROVE  Booked'
<1> DEFINE t == [reg.tasks[w] EXCEPT
                   !.state   = state,
                   !.unread  = state = "complete" \/ (state # "idle" /\ @),
                   !.session = IF None = None THEN @ ELSE None]
<1>1. reg \in Registry /\ reg.tasks[w] \in Task
  BY SlotRange DEF Inv, TypeOK
<1>2. Served(reg')
  BY <1>1, ApplyStateServed DEF Booked
<1>3. reg'.tasks = [reg.tasks EXCEPT ![w] = t] /\ t.session = reg.tasks[w].session
  BY <1>1 DEF ApplyState, SetTask, Registry, Task
<1> HIDE DEF t
<1> QED
  BY <1>2, <1>3, WriteBooked

LEMMA ChosenBooked ==
  ASSUME Inv, Booked, NEW w \in Selectable(reg), Chosen(SelectRecord(reg, w))
  PROVE  Booked'
<1> DEFINE t == [reg.tasks[w] EXCEPT !.unread = FALSE,
                                     !.state = IF @ = "complete" THEN "idle" ELSE @]
<1>1. w \in Registered(reg) /\ reg \in Registry /\ reg.tasks[w] \in Task
  BY SlotRange DEF Inv, TypeOK, Selectable, Candidates
<1>2. Served(reg')
  BY <1>1, SelectRecordServed DEF Booked, Chosen
<1>3. reg'.tasks = [reg.tasks EXCEPT ![w] = t] /\ t.session = reg.tasks[w].session
  BY <1>1 DEF Chosen, SelectRecord, SetTask, Registry, Task
<1> HIDE DEF t
<1> QED
  BY <1>1, <1>2, <1>3, WriteBooked DEF Chosen

LEMMA DropStreamBooked ==
  ASSUME Inv, Booked, UNCHANGED sessionVars, NEW w \in Wrappers, reg' = Reconnecting(w)
  PROVE  Booked'
<1> DEFINE t == [reg.tasks[w] EXCEPT !.conn = "reconnecting"]
<1>1. CASE w \in Registered(reg)
  <2>1. reg \in Registry /\ reg.tasks[w] \in Task
    BY <1>1, SlotRange DEF Inv, TypeOK
  <2>2. Served(reg')
    BY <1>1, <2>1, ReconnectingServed DEF Booked, Reconnecting
  <2>3. reg'.tasks = [reg.tasks EXCEPT ![w] = t] /\ t.session = reg.tasks[w].session
    BY <1>1, <2>1 DEF Reconnecting, MarkConnection, SetTask, Registry, Task
  <2> HIDE DEF t
  <2> QED
    BY <1>1, <2>2, <2>3, WriteBooked
<1>2. CASE w \notin Registered(reg)
  BY <1>2 DEF Reconnecting, Booked, SessionBooksAgree, sessionVars
<1> QED
  BY <1>1, <1>2

\* The tasks and sessions of a registry in which w has ended session s.
LEMMA ClearTaskSessionShape ==
  ASSUME NEW r \in Registry, NEW w \in Wrappers, NEW s,
         NEW q, q = ClearTaskSession(r, w, s)
  PROVE  /\ Registered(q) = Registered(r)
         /\ \A v \in Wrappers \ {w} : q.tasks[v] = r.tasks[v]
         /\ w \in Registered(r) =>
              q.tasks[w].session = IF s # None /\ r.tasks[w].session = s
                                     THEN None ELSE r.tasks[w].session
<1> DEFINE t == [r.tasks[w] EXCEPT
                   !.session = None,
                   !.state   = IF @ \in {"waiting", "executing"} THEN "idle" ELSE @]
<1>1. CASE w \in Registered(r) /\ s # None /\ r.tasks[w].session = s
  <2>1. r.tasks[w] \in Task
    BY <1>1, SlotRange
  <2>2. t \in Task /\ t.session = None
    BY <2>1 DEF Task, TaskStates, AgentStates
  <2>3. q.tasks = [r.tasks EXCEPT ![w] = t]
    BY <1>1 DEF ClearTaskSession, ClearSession, SetTask, Registry
  <2> HIDE DEF t
  <2> QED
    BY <1>1, <2>2, <2>3, NoneIsNoTask DEF Registered, Registry
<1>2. CASE ~(w \in Registered(r) /\ s # None /\ r.tasks[w].session = s)
  BY <1>2 DEF ClearTaskSession
<1> QED
  BY <1>1, <1>2

\* SessionEnd: the session is forgotten by its task and by both tables.
LEMMA EndBooked ==
  ASSUME Inv, Booked, NEW w \in Wrappers, NEW s \in Sessions \cup {None}, EndSession(w, s)
  PROVE  Booked'
<1>1. reg \in Registry /\ SessionTypes
  BY DEF Inv, TypeOK, SessionTypes
<1>2. CASE owners[s] \notin {None, w}
  BY <1>2 DEF EndSession, Booked, SessionBooksAgree, sessionVars
<1>3. CASE owners[s] \in {None, w}
  <2>1. /\ reg' = ClearTaskSession(reg, w, s)
        /\ owners' = [owners EXCEPT ![s] = None] /\ tracker' = [tracker EXCEPT ![s] = None]
    BY <1>3 DEF EndSession
  <2>2. Served(reg')
    BY <1>1, <2>1, ClearTaskSessionServed DEF Booked
  <2>3. /\ Registered(reg') = Registered(reg)
        /\ \A v \in Wrappers \ {w} : reg'.tasks[v] = reg.tasks[v]
        /\ w \in Registered(reg) =>
             reg'.tasks[w].session = IF s # None /\ reg.tasks[w].session = s
                                       THEN None ELSE reg.tasks[w].session
    BY <1>1, <2>1, ClearTaskSessionShape
  <2>4. ASSUME NEW x \in Sessions
        PROVE  /\ owners'[x] \in Registered(reg) => reg'.tasks[owners'[x]].session = x
               /\ owners'[x] = None <=> tracker'[x] = None
    <3>1. None \notin Registered(reg)
      BY NoneAssumption DEF Registered
    <3>2. CASE x = s
      BY <3>1, <3>2, <2>1, <1>1 DEF SessionTypes
    <3>3. CASE x # s
      <4>1. owners'[x] = owners[x] /\ tracker'[x] = tracker[x]
        BY <3>3, <2>1, <1>1 DEF SessionTypes
      <4> QED
        BY <4>1, <3>3, <2>3 DEF Booked, SessionBooksAgree, Registered
    <3> QED
      BY <3>2, <3>3
  <2>5. SessionBooksAgree'
    BY <2>3, <2>4 DEF SessionBooksAgree, Registered
  <2> QED
    BY <2>2, <2>5 DEF Booked, Served, Lively, Targeted, Registered, Selectable, Candidates
<1> QED
  BY <1>2, <1>3

\* The registry after a report names the session it came under.
LEMMA ReportShape ==
  ASSUME NEW r \in Registry, NEW w \in Registered(r), NEW state \in AgentStates,
         NEW s \in Sessions, NEW q, q = ApplyState(r, w, state, s)
  PROVE  /\ Registered(q) = Registered(r) /\ q.tasks[w].session = s
         /\ \A v \in Wrappers \ {w} : q.tasks[v] = r.tasks[v]
<1> DEFINE t == [r.tasks[w] EXCEPT
                   !.state   = state,
                   !.unread  = state = "complete" \/ (state # "idle" /\ @),
                   !.session = IF s = None THEN @ ELSE s]
<1>1. r.tasks[w] \in Task /\ w \in Wrappers /\ s # None
  BY SlotRange, NoneAssumption DEF Registered
<1>2. t \in Task /\ t.session = s
  <2>1. (state = "complete" \/ (state # "idle" /\ r.tasks[w].unread)) \in BOOLEAN
    OBVIOUS
  <2> QED
    BY <1>1, <2>1 DEF Task, TaskStates
<1>3. q.tasks = [r.tasks EXCEPT ![w] = t]
  BY DEF ApplyState, SetTask, Registry
<1> HIDE DEF t
<1> QED
  BY <1>1, <1>2, <1>3, NoneIsNoTask DEF Registered, Registry

\* A report under session s files s alone under its wrapper; a wrapper that has
\* gone meanwhile has no task for it to disagree with.
LEMMA ReportBooked ==
  ASSUME Inv, Booked, NEW w \in Wrappers, NEW s \in Sessions, NEW state \in AgentStates,
         Report(w, s, state)
  PROVE  Booked'
<1> DEFINE others == {x \in Sessions \ {s} : owners[x] = w}
           own    == SessionOf(w)
           freed  == IF own \in others THEN ClearTaskSession(reg, w, own) ELSE reg
<1>1. reg \in Registry /\ Sound(reg) /\ SessionTypes
  BY DEF Inv, TypeOK, SessionTypes
<1>2. CASE owners[s] \notin {None, w}
  BY <1>2 DEF Report, Booked, SessionBooksAgree, sessionVars
<1>3. CASE owners[s] \in {None, w}
  <2>1. /\ reg' = IF w \in Registered(reg) THEN ApplyState(freed, w, state, s) ELSE reg
        /\ owners'[s] = w /\ tracker'[s] = state
        /\ \A x \in Sessions \ {s} :
             IF owners[x] = w THEN owners'[x] = None /\ tracker'[x] = None
                              ELSE owners'[x] = owners[x] /\ tracker'[x] = tracker[x]
    BY <1>1, <1>3 DEF Report, SessionTypes
  <2>2. /\ freed \in Registry /\ Served(freed)
        /\ Registered(freed) = Registered(reg)
        /\ \A v \in Wrappers \ {w} : freed.tasks[v] = reg.tasks[v]
    BY <1>1, ClearTaskSessionServed, ClearTaskSessionShape, ClearTaskSessionAlike
       DEF Booked, Sound
  <2> HIDE DEF freed, others
  <2>3. Served(reg')
    BY <2>1, <2>2, ApplyStateServed DEF Booked
  <2>4. /\ Registered(reg') = Registered(reg)
        /\ \A v \in Wrappers \ {w} : reg'.tasks[v] = reg.tasks[v]
        /\ w \in Registered(reg) => reg'.tasks[w].session = s
    BY <2>1, <2>2, ReportShape
  <2>5. None \notin Registered(reg) /\ w # None /\ state # None
    BY NoneAssumption, NoneIsNoTask DEF Registered, TaskStates
  <2>6. ASSUME NEW x \in Sessions
        PROVE  /\ owners'[x] \in Registered(reg) => reg'.tasks[owners'[x]].session = x
               /\ owners'[x] = None <=> tracker'[x] = None
    <3>1. CASE x = s
      BY <3>1, <2>1, <2>4, <2>5
    <3>2. CASE x # s /\ owners[x] = w
      BY <3>2, <2>1, <2>5
    <3>3. CASE x # s /\ owners[x] # w
      BY <3>3, <2>1, <2>4 DEF Booked, SessionBooksAgree, Registered
    <3> QED
      BY <3>1, <3>2, <3>3
  <2>7. SessionBooksAgree'
    BY <2>4, <2>6 DEF SessionBooksAgree, Registered
  <2> QED
    BY <2>3, <2>7 DEF Booked, Served, Lively, Targeted, Registered, Selectable, Candidates
<1> QED
  BY <1>2, <1>3

LEMMA HookBodyBooked ==
  ASSUME Inv, Booked, NEW h \in hooks, HookBody(h)
  PROVE  Booked'
<1>1. /\ h.wrapper \in Wrappers /\ h.state \in AgentStates
      /\ h.session \in Sessions \cup {None}
  BY DEF Inv, TypeOK, Hook
<1>2. \/ EndSession(h.wrapper, h.session)
      \/ h.session # None /\ Report(h.wrapper, h.session, h.state)
      \/ ReportFailure(h.wrapper, h.state)
  BY DEF HookBody
<1>3. CASE ReportFailure(h.wrapper, h.state)
  <2>1. CASE h.wrapper \in Registered(reg)
    BY <1>1, <1>3, <2>1, UnnamedReportBooked DEF ReportFailure
  <2>2. CASE h.wrapper \notin Registered(reg)
    BY <1>3, <2>2 DEF ReportFailure, Booked, SessionBooksAgree, sessionVars
  <2> QED
    BY <2>1, <2>2
<1> QED
  BY <1>1, <1>2, <1>3, EndBooked, ReportBooked

LEMMA StartBooked ==
  ASSUME Inv, Booked, Starting
  PROVE  Booked'
<1>1. ASSUME NEW want \in Wants, NEW rec \in Recoveries \cup {None}, StartFresh(want, rec)
      PROVE  Booked'
  <2>1. /\ reg = EmptyRegistry /\ reg' = Register(reg, Host, want, rec, FALSE)
        /\ SyncSession(Host, None)
    BY <1>1 DEF StartFresh
  <2>2. Registered(reg) = {}
    BY <2>1 DEF EmptyRegistry, Registered
  <2>3. SlotGranted(reg, Host, want)
    BY <2>2 DEF SlotGranted, TaskAtSlot, Wants
  <2>4. Sound(reg') /\ Connects(reg', reg, Host)
    BY <2>1, <2>2, <2>3, RegisterSound, HostAssumption, RecoveriesAssumption DEF Inv, Wants
  <2> QED
    BY <2>1, <2>4, RegisterBooked, HostAssumption, StatesAssumption
<1>2. ASSUME StartPromoted
      PROVE  Booked'
  <2>1. /\ Host \in Registered(reg) /\ SyncSession(Host, reg.tasks[Host].session)
        /\ reg' = Register(reg, Host, reg.tasks[Host].slot, None, FALSE)
    BY <1>2 DEF StartPromoted
  <2>2. Sound(reg) /\ reg.tasks[Host].slot \in Slots \cup {NoSlot}
    BY <2>1, SlotRange DEF Inv, TypeOK, Task
  <2>3. SlotGranted(reg, Host, reg.tasks[Host].slot)
    BY <2>1, <2>2, SlotCountAssumption
       DEF SlotGranted, TaskAtSlot, Sound, SlotsUnshared, NoSlot, Slots
  <2>4. Sound(reg') /\ Connects(reg', reg, Host)
    BY <2>1, <2>2, <2>3, RegisterSound, HostAssumption
  <2> QED
    BY <2>1, <2>4, RegisterBooked, HostAssumption
<1> QED
  BY <1>1, <1>2, RestoreBooked DEF Starting

LEMMA RegisterClientBooked ==
  ASSUME Inv, Booked, Registering
  PROVE  Booked'
<1>1. PICK w \in Clients, want \in Wants, rec \in Recoveries \cup {None}, newer \in BOOLEAN :
        RegisterClient(w, want, rec, newer)
  BY DEF Registering
<1>2. /\ reg' = Register(reg, w, want, rec, newer) /\ SlotGranted(reg, w, want)
      /\ w \in Registered(reg) /\ want = NoSlot => reg.tasks[w].slot = NoSlot
      /\ SyncSession(w, SessionOf(w)) /\ w \in Wrappers
  BY <1>1, HostAssumption DEF RegisterClient
<1>3. Sound(reg') /\ Connects(reg', reg, w)
  BY <1>2, RegisterSound, RecoveriesAssumption DEF Inv, Wants
<1> QED
  BY <1>2, <1>3, RegisterBooked, StatesAssumption

\* A registration that is closed takes its task along, or is no longer current.
LEMMA CloseBooked ==
  ASSUME Inv, Booked, NEW i \in instances, CloseAndRemove(i)
  PROVE  Booked'
<1>1. CASE RemoveWrapper(i.wrapper)
  BY <1>1, RemovalBooked DEF RemoveWrapper, Inv, TypeOK, Instance
<1>2. CASE CloseOnly(i)
  BY <1>2 DEF CloseOnly, Booked, SessionBooksAgree, sessionVars
<1> QED
  BY <1>1, <1>2 DEF CloseAndRemove

LEMMA NextBooked ==
  ASSUME Inv, Booked, [Next]_vars
  PROVE  Booked'
<1>1. ASSUME UNCHANGED <<reg, sessionVars>>
      PROVE  Booked'
  BY <1>1 DEF Booked, SessionBooksAgree, sessionVars
<1>2. ASSUME ReportLocalFailure
      PROVE  Booked'
  BY <1>2, UnnamedReportBooked DEF ReportLocalFailure, AgentStates
<1>3. ASSUME Shutdown
      PROVE  Booked'
  BY <1>3, RemovalBooked, HostAssumption DEF Shutdown
<1>4. ASSUME Streams
      PROVE  Booked'
  BY <1>1, <1>4, CloseBooked DEF Streams, StreamOpen, InstanceDelete, PendingExpire
<1>5. ASSUME NEW w \in Clients, NEW g \in Generations, SocketClosed(w, g)
      PROVE  Booked'
  BY <1>1, <1>5, DropStreamBooked, HostAssumption DEF SocketClosed, DropStream, ClosesCurrent
<1>6. ASSUME NEW w \in Clients, LeaseExpire(w)
      PROVE  Booked'
  BY <1>1, <1>6, RemovalBooked, HostAssumption DEF LeaseExpire, RemoveWrapper
<1>7. ASSUME NEW h \in HookInputs, HookArrives(h)
      PROVE  Booked'
  BY <1>1, <1>7 DEF HookArrives
<1>8. ASSUME NEW s \in Slots, SelectSlot(s)
      PROVE  Booked'
  BY <1>8, ChosenBooked DEF SelectSlot
<1>9. ASSUME NEW delta \in {1, -1}, SelectRelative(delta)
      PROVE  Booked'
  <2>1. RelativeTarget(reg, delta) \in Selectable(reg)
    BY <1>9, RelativeTargetSelectable DEF SelectRelative, Inv, TypeOK
  <2> QED
    BY <1>9, <2>1, ChosenBooked DEF SelectRelative
<1>10. CASE UNCHANGED vars
  BY <1>1, <1>10 DEF vars
<1> QED
  BY <1>2, <1>3, <1>4, <1>5, <1>6, <1>7, <1>8, <1>9, <1>10, StartBooked,
     RegisterClientBooked, HookBodyBooked DEF Next

LEMMA InitBooked ==
  ASSUME Init
  PROVE  Booked
<1>1. Registered(reg) = {}
  BY DEF Init, EmptyRegistry, Registered
<1> QED
  BY <1>1 DEF Init, Booked, Served, Lively, Targeted, Selectable, Candidates, SessionBooksAgree

\* Targets and books hold together in every reachable state.
THEOREM ServerBooked == Spec => []Booked
<1> QED
  BY InitBooked, NextBooked, ServerInvariant, PTL DEF Spec

\* Whenever some task can be selected, one is: removing, marking, restoring or
\* registering a task never leaves the controls without a target.
THEOREM SelectionIsPresent == Spec => []SelectionPresent
<1>1. Booked => SelectionPresent
  BY DEF Booked, Served, Targeted, SelectionPresent
<1> QED
  BY <1>1, ServerBooked, PTL

\* The table of session owners, the tracker and the tasks agree, through hooks
\* that overtake each other, registrations, removals and a restored status.
THEOREM SessionBooksHold == Spec => []SessionBooksAgree
<1>1. Booked => SessionBooksAgree
  BY DEF Booked
<1> QED
  BY <1>1, ServerBooked, PTL

=============================================================================
