---------------------------- MODULE RuntimeLease ----------------------------
(***************************************************************************)
(* acquireRuntimeLease, its publish and release, discoverRuntime and       *)
(* removeRuntimeDescriptor (src/src/runtime.ts), run by wrapper processes  *)
(* that interleave at every file system call and may die before any of     *)
(* them.  They share the lock file, the reclaim guards beside it, and the  *)
(* runtime descriptor that tells clients where the host listens.           *)
(*                                                                         *)
(* Locks differ by inode, and a server that has published never takes a    *)
(* second lease, so its token stands for one lock: a lock and its          *)
(* descriptor are named by their owner and a count of his locks.           *)
(* On Linux a start id proves that a pid is still the process that wrote   *)
(* it.  Elsewhere a pid may be in use by somebody else, and the code       *)
(* probes the owner's endpoint or, before there is one, looks at the age   *)
(* of the file.                                                            *)
(***************************************************************************)
EXTENDS Integers

CONSTANTS
  Procs,       \* wrapper processes
  None,
  Discoverers, \* processes that may run discoverRuntime
  SlowSteps,   \* may OWNER_STARTUP_GRACE_MS pass in the middle of an acquisition?
  GuardLimit,  \* MAX_RECLAIM_GUARD_GENERATIONS, 64 in the product
  MaxLocks     \* bound on the acquisitions of one process

ASSUME NoneAssumption == None \notin Procs /\ None \notin Procs \X Nat
ASSUME DiscoverersAssumption == Discoverers \subseteq Procs
ASSUME SlowStepsAssumption == SlowSteps \in BOOLEAN
ASSUME LimitsAssumption == GuardLimit \in Nat \ {0} /\ MaxLocks \in Nat

VARIABLES
  lock,      \* the lock file: who made it, and his how-manieth
  lockAged,  \* is it older than the startup grace?
  guards,    \* reclaim guard files
  desc,      \* the runtime descriptor
  moved,     \* the descriptor a process has renamed to its quarantine
  orphans,   \* descriptors left in a quarantine, each with the one found in its place
  life,      \* of a process; "reused": it is dead, but its pid is in use again
  startIds,  \* is this Linux?  Then processOwnerState is never alive-unverified
  made,      \* locks a process has made
  call       \* where a process is, and the locals of the function it is in

files == <<lock, lockAged, guards, desc, moved, orphans>>
vars  == <<files, life, startIds, made, call>>

Ids    == Procs \X Nat
Guards == [of : Ids, number : Nat, owner : Procs, aged : BOOLEAN]
Points == {"idle", "create", "observe", "check", "probeOwner", "guard", "observeAgain",
           "unlink", "unguard", "previous", "probe", "read", "rename", "finish",
           "start", "serve", "giveUp", "unlinkOwn"}
Calls  == [at      : Points,                              \* the next file system call
           job     : {"acquire", "release", "discover"},  \* the exported function
           attempt : {0, 1},                              \* of acquireRuntimeLease
           seen    : Ids \cup {None}, aged : BOOLEAN,     \* observed
           guard   : Nat,                                 \* of acquireReclaimGuard
           target  : Ids \cup {None}]                     \* descriptor to probe, remove

\* Between calls.
Idle == [at |-> "idle", job |-> "acquire", attempt |-> 0, seen |-> None, aged |-> FALSE,
         guard |-> 0, target |-> None]

TypeOK ==
  /\ lock \in Ids \cup {None}
  /\ lockAged \in BOOLEAN
  /\ guards \subseteq Guards
  /\ desc \in Ids \cup {None}
  /\ moved \in [Procs -> Ids \cup {None}]
  /\ orphans \subseteq [id : Ids, behind : Ids]
  /\ life \in [Procs -> {"alive", "dead", "reused"}]
  /\ startIds \in BOOLEAN
  /\ made \in [Procs -> Nat]
  /\ call \in [Procs -> Calls]

Init ==
  /\ lock = None /\ lockAged = FALSE /\ guards = {} /\ desc = None
  /\ moved = [p \in Procs |-> None] /\ orphans = {}
  /\ life = [p \in Procs |-> "alive"]
  /\ startIds \in BOOLEAN
  /\ made = [p \in Procs |-> 0]
  /\ call = [p \in Procs |-> Idle]

-----------------------------------------------------------------------------
(***************************************************************************)
(* What a process can find out about another.                              *)
(***************************************************************************)
Own(p) == <<p, made[p]>>

\* p lives and is about to do this.
At(p, point) == life[p] = "alive" /\ call[p].at = point

\* processOwnerState.
Verified(p, q) == life[q] = "alive" /\ (startIds \/ p = q)
Gone(q)        == life[q] = "dead"

\* The host of this lease has its server up.
Answers(id) == At(id[1], "serve") /\ Own(id[1]) = id

\* probeRuntime: may it say stale; may it say live or temporarily-unreachable?
MayBeStale(id) == ~Answers(id)
MayBeBusy(id)  == ~Gone(id[1])

Goto(p, point) == call' = [call EXCEPT ![p].at = point]
Return(p)      == call' = [call EXCEPT ![p] = Idle]

HasGuard(p) == \E g \in guards : g.owner = p

-----------------------------------------------------------------------------
(***************************************************************************)
(* acquireRuntimeLease, up to owning the lock.                             *)
(***************************************************************************)
Acquire(p) ==
  /\ At(p, "idle")
  /\ made[p] < MaxLocks
  /\ Goto(p, "create")
  /\ UNCHANGED <<files, life, startIds, made>>

\* createOwnedLock: a hard link that replaces nothing.
CreateLock(p) ==
  /\ At(p, "create")
  /\ \/ /\ lock = None
        /\ lock' = <<p, made[p] + 1>> /\ lockAged' = FALSE
        /\ made' = [made EXCEPT ![p] = @ + 1]
        /\ Goto(p, "previous")
     \/ /\ lock # None
        /\ Goto(p, "observe")
        /\ UNCHANGED <<lock, lockAged, made>>
  /\ UNCHANGED <<guards, desc, moved, orphans, life, startIds>>

\* The loop goes round once more, or returns null.
NextAttempt(p) ==
  call' = [call EXCEPT ![p] = IF @.attempt = 0 THEN [Idle EXCEPT !.at = "create", !.attempt = 1]
                                               ELSE Idle]

Observe(p) ==
  /\ At(p, "observe")
  /\ \/ lock = None /\ NextAttempt(p)
     \/ lock # None /\ call' = [call EXCEPT ![p].at = "check", ![p].seen = lock,
                                            ![p].aged = lockAged]
  /\ UNCHANGED <<files, life, startIds, made>>

\* The owner of the lock is active: return null, removing the guard first.
OwnerActive(p) ==
  IF HasGuard(p) THEN call' = [call EXCEPT ![p].at = "unguard", ![p].attempt = 1]
                 ELSE Return(p)

\* It is not: reclaim the lock, under a guard.
OwnerInactive(p) == Goto(p, IF HasGuard(p) THEN "unlink" ELSE "guard")

\* lockOwnerIsActive, up to its probe.
CheckOwner(p) ==
  LET seen       == call[p].seen
      owner      == seen[1]
      unverified == ~Gone(owner) /\ ~Verified(p, owner)
  IN /\ At(p, "check")
     /\ \/ Gone(owner) /\ OwnerInactive(p)
        \/ Verified(p, owner) /\ OwnerActive(p)
        \/ unverified /\ desc = seen /\ Goto(p, "probeOwner")
        \/ unverified /\ desc # seen /\ call[p].aged /\ OwnerInactive(p)
        \/ unverified /\ desc # seen /\ ~call[p].aged /\ OwnerActive(p)
     /\ UNCHANGED <<files, life, startIds, made>>

ProbeOwner(p) ==
  /\ At(p, "probeOwner")
  /\ \/ MayBeStale(call[p].seen) /\ OwnerInactive(p)
     \/ MayBeBusy(call[p].seen) /\ OwnerActive(p)
  /\ UNCHANGED <<files, life, startIds, made>>

\* The guard p would make now.
NewGuard(p) == [of |-> call[p].seen, number |-> call[p].guard, owner |-> p, aged |-> FALSE]

\* Mutant: every reclaimer has a guard file of its own.
GuardOfItsOwn(p) == {g \in guards : g.owner = p}

\* Who made that file before.
GuardHere(p) == {g \in guards : g.of = call[p].seen /\ g.number = call[p].guard}

\* Mutant: a guard that exists is believed.
GuardBelieved(p, g) == TRUE

\* A guard whose owner may be at work.
GuardBusy(p, g) == Verified(p, g.owner) \/ (~Gone(g.owner) /\ ~g.aged)

\* acquireReclaimGuard: the guard of a dead reclaimer stays, the next number is
\* tried.  Failing to create a guard and looking at the one in the way is one
\* step: if that guard goes between the two, the code gives up as well.
CreateGuard(p) ==
  /\ At(p, "guard")
  /\ \/ /\ GuardHere(p) = {}
        /\ guards' = guards \cup {NewGuard(p)} /\ Goto(p, "observeAgain")
     \/ /\ \E g \in GuardHere(p) : GuardBusy(p, g)
        /\ Return(p) /\ UNCHANGED guards
     \/ /\ \E g \in GuardHere(p) : ~GuardBusy(p, g)
        /\ IF call[p].guard + 1 < GuardLimit
             THEN call' = [call EXCEPT ![p].guard = @ + 1] ELSE Return(p)
        /\ UNCHANGED guards
  /\ UNCHANGED <<lock, lockAged, desc, moved, orphans, life, startIds, made>>

\* Mutant: the generation of the lock is not compared.
ObserveAnyGeneration(p) ==
  /\ At(p, "observeAgain")
  /\ Goto(p, IF lock # None THEN "check" ELSE "unguard")
  /\ UNCHANGED <<files, life, startIds, made>>

\* Under the guard: is the lock still the one that was observed?
ObserveAgain(p) ==
  /\ At(p, "observeAgain")
  /\ \/ lock = call[p].seen /\ call' = [call EXCEPT ![p].at = "check", ![p].aged = lockAged]
     \/ lock # call[p].seen /\ Goto(p, "unguard")
  /\ UNCHANGED <<files, life, startIds, made>>

\* unlinkSync removes whatever is there by now.
UnlinkLock(p) ==
  /\ At(p, "unlink")
  /\ lock' = None /\ lockAged' = FALSE
  /\ Goto(p, "unguard")
  /\ UNCHANGED <<guards, desc, moved, orphans, life, startIds, made>>

Unguard(p) ==
  /\ At(p, "unguard")
  /\ guards' = {g \in guards : g.owner # p}
  /\ NextAttempt(p)
  /\ UNCHANGED <<lock, lockAged, desc, moved, orphans, life, startIds, made>>

-----------------------------------------------------------------------------
(***************************************************************************)
(* The descriptor: acquireRuntimeLease once it owns the lock,              *)
(* discoverRuntime, and removeRuntimeDescriptor, which both call.          *)
(***************************************************************************)
Previous(p) ==
  /\ At(p, "previous")
  /\ call' = [call EXCEPT ![p] = [Idle EXCEPT !.at = IF desc = None THEN "start" ELSE "probe",
                                              !.target = desc]]
  /\ UNCHANGED <<files, life, startIds, made>>

Discover(p) ==
  /\ At(p, "idle")
  /\ p \in Discoverers
  /\ desc # None
  /\ call' = [call EXCEPT ![p] = [Idle EXCEPT !.at = "probe", !.job = "discover",
                                              !.target = desc]]
  /\ UNCHANGED <<files, life, startIds, made>>

Probe(p) ==
  /\ At(p, "probe")
  /\ \/ MayBeStale(call[p].target) /\ Goto(p, "read")
     \/ /\ MayBeBusy(call[p].target)
        /\ IF call[p].job = "acquire" THEN Goto(p, "giveUp") ELSE Return(p)
  /\ UNCHANGED <<files, life, startIds, made>>

\* p is back in the caller of removeRuntimeDescriptor.
Resume(p, point) == call' = [call EXCEPT ![p] = [Idle EXCEPT !.at = point]]

\* removeRuntimeDescriptor returns, to one of three.
Removed(p) ==
  \/ call[p].job = "acquire" /\ Resume(p, "start")
  \/ call[p].job = "release" /\ Resume(p, "giveUp")
  \/ call[p].job = "discover" /\ Return(p)

ReadDescriptor(p) ==
  /\ At(p, "read")
  /\ IF desc = call[p].target THEN Goto(p, "rename") ELSE Removed(p)
  /\ UNCHANGED <<files, life, startIds, made>>

\* The rename takes whatever is there by now.
Quarantine(p) ==
  /\ At(p, "rename")
  /\ moved' = [moved EXCEPT ![p] = desc]
  /\ desc' = None
  /\ IF desc = None THEN Removed(p) ELSE Goto(p, "finish")
  /\ UNCHANGED <<lock, lockAged, guards, orphans, life, startIds, made>>

\* Mutant: what was renamed by mistake stays in the quarantine.
LeaveQuarantined(p) ==
  desc' = desc /\ orphans' = orphans \cup {[id |-> moved[p], behind |-> desc]}

\* restoreQuarantinedDescriptor: it goes back where it was, or stays in the
\* quarantine if there is another by now.
RestoreQuarantined(p) ==
  /\ desc'    = IF desc = None THEN moved[p] ELSE desc
  /\ orphans' = IF desc = None THEN orphans
                ELSE orphans \cup {[id |-> moved[p], behind |-> desc]}

\* What was renamed is deleted if it is what was read, and restored otherwise.
FinishRemoval(p) ==
  /\ At(p, "finish")
  /\ IF moved[p] = call[p].target THEN UNCHANGED <<desc, orphans>> ELSE RestoreQuarantined(p)
  /\ moved' = [moved EXCEPT ![p] = None]
  /\ Removed(p)
  /\ UNCHANGED <<lock, lockAged, guards, life, startIds, made>>

-----------------------------------------------------------------------------
(***************************************************************************)
(* The lease: HostServer.listenRuntime and close (src/src/server.ts).      *)
(***************************************************************************)
\* The server listens and is initialized: publish replaces the descriptor.
Publish(p) ==
  /\ At(p, "start")
  /\ desc' = Own(p)
  /\ Goto(p, "serve")
  /\ UNCHANGED <<lock, lockAged, guards, moved, orphans, life, startIds, made>>

\* It cannot listen, or its initialization throws.
StartFails(p) ==
  /\ At(p, "start")
  /\ Goto(p, "giveUp")
  /\ UNCHANGED <<files, life, startIds, made>>

\* close: the server is down before the lease is released.
Close(p) ==
  /\ At(p, "serve")
  /\ call' = [call EXCEPT ![p].at = "read", ![p].job = "release", ![p].target = Own(p)]
  /\ UNCHANGED <<files, life, startIds, made>>

\* safeUnlinkOwnedLock: read, then unlink whatever is there by now.
ReadOwnLock(p) ==
  /\ At(p, "giveUp")
  /\ IF lock = Own(p) THEN Goto(p, "unlinkOwn") ELSE Return(p)
  /\ UNCHANGED <<files, life, startIds, made>>

UnlinkOwnLock(p) ==
  /\ At(p, "unlinkOwn")
  /\ lock' = None /\ lockAged' = FALSE
  /\ Return(p)
  /\ UNCHANGED <<guards, desc, moved, orphans, life, startIds, made>>

-----------------------------------------------------------------------------
(***************************************************************************)
(* The environment.                                                        *)
(***************************************************************************)
\* A process ends, wherever it is; its files stay.  Its pid may be given to
\* another process, which a start id unmasks.
Die(p) ==
  /\ life[p] = "alive"
  /\ \E fate \in {"dead"} \cup (IF startIds THEN {} ELSE {"reused"}) :
       life' = [life EXCEPT ![p] = fate]
  /\ Return(p)
  /\ UNCHANGED <<files, startIds, made>>

\* Thirty seconds pass (on Linux nothing depends on them).  Without SlowSteps
\* every acquisition, reclaim or release takes less.
TimePasses ==
  /\ ~startIds
  /\ SlowSteps \/ \A p \in Procs : call[p].at \in {"idle", "serve"}
  /\ lockAged' = (lock # None)
  /\ guards' = {[g EXCEPT !.aged = TRUE] : g \in guards}
  /\ UNCHANGED <<lock, desc, moved, orphans, life, startIds, made, call>>

\* The steps a process takes once it has begun.
Step(p) ==
  \/ CreateLock(p) \/ Observe(p) \/ CheckOwner(p) \/ ProbeOwner(p)
  \/ CreateGuard(p) \/ ObserveAgain(p) \/ UnlinkLock(p) \/ Unguard(p)
  \/ Previous(p) \/ Probe(p) \/ ReadDescriptor(p) \/ Quarantine(p) \/ FinishRemoval(p)
  \/ Publish(p) \/ ReadOwnLock(p) \/ UnlinkOwnLock(p)

Next ==
  \/ \E p \in Procs : \/ Step(p) \/ Acquire(p) \/ Discover(p)
                      \/ StartFails(p) \/ Close(p) \/ Die(p)
  \/ TimePasses

Spec == Init /\ [][Next]_vars

\* A process that has begun goes on; a wrapper without a host keeps trying
\* (the recovery loop of src/src/cli.ts acquires on every round).  Nobody has to
\* close, to fail or to die.
FairSpec == Spec /\ \A p \in Procs : WF_vars(Step(p)) /\ SF_vars(Acquire(p))

-----------------------------------------------------------------------------
(***************************************************************************)
(* Properties.                                                             *)
(***************************************************************************)
\* From creating the lock to unlinking it.
Leased(p) ==
  \/ call[p].at \in {"previous", "start", "serve", "giveUp", "unlinkOwn"}
  \/ call[p].at \in {"probe", "read", "rename", "finish"} /\ call[p].job # "discover"

\* On Linux one process at a time has the lease, and the lock file is its own:
\* nobody's reclaiming, however long it was interrupted, unlinks a living
\* owner's lock.
OneLease ==
  startIds => \A p \in Procs :
                Leased(p) => lock = Own(p) /\ \A q \in Procs : Leased(q) => p = q

\* Takeovers serialize: one process at a time is past the guard of a lock.  (If
\* 30 s can pass in the middle of one, that needs a start id.)
TakeoversSerialize ==
  startIds \/ ~SlowSteps =>
    \A g, h \in guards :
      g.of = h.of /\ life[g.owner] = "alive" /\ life[h.owner] = "alive" => g.owner = h.owner

\* Only one process hosts: it has published and not closed.
OneHost ==
  \A p, q \in Procs : At(p, "serve") /\ At(q, "serve") => p = q

\* q has renamed a descriptor that it did not mean to, and its next step is to
\* put it back.
PutsBack(q) == call[q].at = "finish" /\ moved[q] # call[q].target

\* Where clients find the descriptor of a living host, although others remove
\* stale ones by a name that may have become its own: it is in place, or with a
\* living process that is about to put it back.  Nothing reads a quarantine whose
\* process is through with it, so there are two ways in which a host goes out of
\* sight for good (its descriptor is then still there, in a quarantine): who
\* renamed it died before putting it back, or found another put back first.
DescriptorKept ==
  startIds => \A p \in Procs : At(p, "serve") =>
    \/ desc = Own(p)
    \/ \E q \in Procs \ {p} : moved[q] = Own(p) /\ (life[q] = "alive" => PutsBack(q))
    \/ \E left \in orphans : left.id = Own(p) /\ left.behind \in Ids \ {Own(p)}

\* The process that has the lease, where a start id tells the living from the
\* dead.
Holder == IF startIds /\ \E p \in Procs : Leased(p)
            THEN CHOOSE p \in Procs : Leased(p) ELSE None

Singleton == INSTANCE Lease WITH holder <- Holder,
                                 dead   <- {p \in Procs : life[p] # "alive"}

\* So acquireRuntimeLease is a singleton lease: it passes to nobody before its
\* holder has given it up or died.
LeaseIsSingleton == Singleton!Spec

\* A wrapper that can try.
Willing(p) == life[p] = "alive" /\ made[p] < MaxLocks

\* After a crash, at whatever point, somebody hosts again as long as a wrapper
\* is left that can try: no stale lock, guard or descriptor shuts everyone out.
HostReturns ==
  (startIds /\ \E p \in Procs : Willing(p))
    ~> ((\E p \in Procs : At(p, "serve")) \/ ~\E p \in Procs : Willing(p))
=============================================================================
