------------------------- MODULE HostRecoveryProofs -------------------------
(***************************************************************************)
(* What a chain of hosts keeps of a task, for any number of wrappers,      *)
(* slots and environments: the slot its own wrapper knows, and the state   *)
(* its wrapper has seen.  The invariant says where each process may be and *)
(* what it then holds (Placed, Kin), that all copies of a task name one    *)
(* slot (OneHome), that no two copies of one revision differ (Distinct),   *)
(* and that no copy as late as the wrapper's own shows anything else       *)
(* unless the wrapper has yet to be told (OwnIsLatest).  A second          *)
(* invariant (Since) relates all copies to what everybody last agreed on,  *)
(* so that a chain of crashes is invisible when everybody agrees again.    *)
(***************************************************************************)
EXTENDS HostRecovery, TaskOpsProofs

-----------------------------------------------------------------------------
(***************************************************************************)
(* The inductive invariant.                                                *)
(***************************************************************************)
Stamps == 0 .. MaxStamp

\* The registry and every cached status are sound; revisions stay in bounds.
SoundStatus(s) == Sound(s.reg) /\ s.updated \in [Wrappers -> Stamps]

Caches ==
  /\ Sound(reg) /\ updated \in [Wrappers -> Stamps]
  /\ \A v \in Wrappers : /\ last[v] # None => SoundStatus(last[v])
                         /\ first[v] # None => first[v].updated \in Stamps

\* The one process in the lease is host; the registry is empty until it has
\* seeded it; a registration kept for a client is of a connected task.
InLease == {"starting", "hosting", "failing", "leaving"}
Seeded  == host # None /\ pc[host] \in {"hosting", "leaving"}

Placed ==
  /\ \A w \in Wrappers : host = w <=> pc[w] \in InLease
  /\ serving => host # None /\ pc[host] = "hosting"
  /\ ~Seeded => reg = EmptyRegistry /\ held = NoneHeld
  /\ \A w \in Wrappers : held[w] # "none" => /\ w \in Registered(reg)
                                             /\ reg.tasks[w].conn = "connected"

\* Nobody has heard of w.
Unknown(w) ==
  /\ w \notin Registered(reg)
  /\ \A v \in Wrappers : last[v] # None => w \notin Registered(last[v].reg)

\* A process that has been registered knows by whom and as what, and its own
\* task is in any status it holds; one that has not is unknown to all.
Kin ==
  \A w \in Wrappers :
    /\ served[w] # w
    /\ served[w] = None <=> Cached(w) = None
    /\ last[w] # None => w \in Registered(last[w].reg) /\ first[w] = None
    /\ pc[w] \in {"out", "joining"} => served[w] = None
    /\ pc[w] \in {"pending", "streaming", "lost", "rejoining", "failing"} => served[w] # None
    /\ pc[w] \in {"out", "joining", "starting"} /\ served[w] = None => Unknown(w)

\* All copies of a task name the slot that home gives it.
At(home, r) == \A w \in Registered(r) : r.tasks[w].slot = home[w]

HomeIs(home) ==
  /\ At(home, reg)
  /\ \A v \in Wrappers : last[v] # None => At(home, last[v].reg)
  /\ \A w \in Wrappers : first[w] # None => first[w].task.slot = home[w]

OneHome == \E home \in [Wrappers -> Slots \cup {NoSlot}] : HomeIs(home)

\* What is shown of a task, and the session its hooks go by.
Shown(task) == <<task.state, task.unread, task.session>>

\* The copies of w's task that may still count: the host's, those in the
\* statuses of the living, and the one w was registered with.
CopyOf(snapshot) ==
  [updated |-> snapshot.updated, shown |-> Shown(snapshot.task)]

Copies(w) ==
  {CopyOf(SnapshotOf(reg, updated, x)) : x \in {w} \cap Registered(reg)}
    \cup {CopyOf(SnapshotOf(last[v].reg, last[v].updated, w)) :
            v \in {x \in Alive : last[x] # None /\ w \in Registered(last[x].reg)}}
    \cup {CopyOf(first[x]) : x \in {y \in {w} : first[y] # None}}

Distinct(S)  == \A a, b \in S : a.updated = b.updated => a = b
AsOwn(S, own) == \A c \in S : c.updated >= own.updated => c.shown = own.shown

OwnIsLatest ==
  \A w \in Wrappers :
    /\ Distinct(Copies(w))
    /\ w \notin touched /\ Cached(w) # None => AsOwn(Copies(w), CopyOf(Cached(w)))
    /\ w \in Registered(reg) /\ reg.tasks[w].conn = "connected" /\ Cached(w) # None
         => updated[w] >= Cached(w).updated

Inv == TypeOK /\ Caches /\ Placed /\ Kin /\ OneHome /\ OwnIsLatest

-----------------------------------------------------------------------------
(***************************************************************************)
(* Revisions.                                                              *)
(***************************************************************************)
\* A nonempty set of revisions has a latest.
LEMMA LatestStamp ==
  ASSUME NEW S \in SUBSET Stamps, S # {}
  PROVE  \E m \in S : \A n \in S : m >= n
<1> DEFINE T == {MaxStamp - s : s \in S}
<1>0. \A s \in S : MaxStamp - s \in Nat  BY StampsAssumption DEF Stamps
<1>1. T \in SUBSET Nat /\ T # {}  BY <1>0
<1>2. PICK m \in T : \A n \in T : m <= n  BY <1>1, LeastNatural
<1>3. PICK s \in S : m = MaxStamp - s  OBVIOUS
<1>4. \A n \in S : MaxStamp - s <= MaxStamp - n  BY <1>2, <1>3
<1>5. \A n \in S : s >= n  BY <1>4, StampsAssumption DEF Stamps
<1> QED BY <1>5

\* Now is past every revision of the task that anybody holds.
LEMMA NowIsFresh ==
  ASSUME Caches, NEW w \in Wrappers
  PROVE  /\ Now(w) \in Nat /\ updated[w] < Now(w)
         /\ \A v \in Wrappers : last[v] # None => last[v].updated[w] < Now(w)
         /\ first[w] # None => first[w].updated < Now(w)
<1> DEFINE S == {updated[w]} \cup {last[v].updated[w] : v \in {x \in Wrappers : last[x] # None}}
                  \cup {first[v].updated : v \in {x \in {w} : first[x] # None}}
<1>1. S \in SUBSET Stamps /\ S # {}  BY DEF Caches, SoundStatus
<1>2. \E m \in S : \A n \in S : m >= n  BY <1>1, LatestStamp
<1> DEFINE m == CHOOSE s \in S : \A n \in S : s >= n
<1>3. m \in S /\ \A n \in S : m >= n  BY <1>2
<1>4. Now(w) = 1 + m  BY DEF Now
<1>5. /\ updated[w] \in S
      /\ \A v \in Wrappers : last[v] # None => last[v].updated[w] \in S
      /\ first[w] # None => first[w].updated \in S
  OBVIOUS
<1>6. \A n \in S : n \in Nat  BY <1>1, StampsAssumption DEF Stamps
<1> HIDE DEF S, m
<1>7. m \in Nat /\ \A n \in S : n < 1 + m  BY <1>3, <1>6
<1> QED BY <1>4, <1>5, <1>7

\* Every copy that counts is older than that.
LEMMA CopiesAreOlder ==
  ASSUME Caches, NEW w \in Wrappers, NEW c \in Copies(w)
  PROVE  c.updated \in Stamps /\ c.updated < Now(w)
<1>1. CASE w \in Registered(reg) /\ c = CopyOf(SnapshotOf(reg, updated, w))
  <2>1. c.updated = updated[w]  BY <1>1 DEF CopyOf, SnapshotOf
  <2> QED BY <2>1, NowIsFresh DEF Caches
<1>2. CASE \E v \in Alive : last[v] # None /\ c = CopyOf(SnapshotOf(last[v].reg, last[v].updated, w))
  <2>1. PICK v \in Alive : last[v] # None /\ c = CopyOf(SnapshotOf(last[v].reg, last[v].updated, w))
    BY <1>2
  <2>2. c.updated = last[v].updated[w] /\ v \in Wrappers  BY <2>1 DEF CopyOf, SnapshotOf, Alive
  <2>3. last[v].updated[w] \in Stamps  BY <2>1, <2>2 DEF Caches, SoundStatus
  <2> QED BY <2>1, <2>2, <2>3, NowIsFresh
<1>3. CASE first[w] # None /\ c = CopyOf(first[w])
  <2>1. c.updated = first[w].updated  BY <1>3 DEF CopyOf
  <2> QED BY <1>3, <2>1, NowIsFresh DEF Caches
<1> QED BY <1>1, <1>2, <1>3 DEF Copies

-----------------------------------------------------------------------------
(***************************************************************************)
(* What a wrapper knows of its own task.                                   *)
(***************************************************************************)
\* A registered task makes a snapshot.
LEMMA SnapshotTyped ==
  ASSUME NEW r \in Registry, NEW u \in [Wrappers -> Stamps], NEW w \in Registered(r)
  PROVE  SnapshotOf(r, u, w) \in Snapshot /\ SnapshotOf(r, u, w) # None
<1> DEFINE selected == r.selected = w
<1>1. selected \in BOOLEAN  OBVIOUS
<1>2. SnapshotOf(r, u, w) = [task |-> r.tasks[w], selected |-> selected, updated |-> u[w]]
  BY DEF SnapshotOf
<1> HIDE DEF selected
<1>3. r.tasks[w] \in Task /\ w \in Wrappers  BY DEF Registry, Registered
<1>4. u[w] \in Nat  BY <1>3, StampsAssumption DEF Stamps
<1>5. [task |-> r.tasks[w], selected |-> selected, updated |-> u[w]] \in Snapshot
  BY <1>1, <1>3, <1>4 DEF Snapshot
<1> QED BY <1>2, <1>5, NoneIsNoCache

\* Where it knows that from.
LEMMA CachedCases ==
  ASSUME TypeOK, Caches, Kin, NEW w \in Wrappers
  PROVE  /\ last[w] # None => /\ w \in Registered(last[w].reg)
                              /\ Cached(w) = SnapshotOf(last[w].reg, last[w].updated, w)
                              /\ Cached(w).task = last[w].reg.tasks[w]
                              /\ Cached(w).updated = last[w].updated[w]
         /\ last[w] = None => Cached(w) = first[w]
         /\ Cached(w) \in Snapshot \cup {None}
         /\ Cached(w) # None => Cached(w).updated \in Stamps /\ Cached(w).updated < Now(w)
<1>1. CASE last[w] # None
  <2>1. w \in Registered(last[w].reg) /\ SoundStatus(last[w])  BY <1>1 DEF Kin, Caches
  <2>2. Cached(w) = SnapshotOf(last[w].reg, last[w].updated, w)  BY <1>1, <2>1 DEF Cached
  <2>3. Cached(w).task = last[w].reg.tasks[w] /\ Cached(w).updated = last[w].updated[w]
    BY <2>2 DEF SnapshotOf
  <2>4. Cached(w) \in Snapshot  BY <2>1, <2>2, SnapshotTyped DEF SoundStatus, Sound
  <2>5. last[w].updated[w] \in Stamps /\ last[w].updated[w] < Now(w)
    BY <1>1, <2>1, NowIsFresh DEF SoundStatus
  <2> QED BY <1>1, <2>1, <2>2, <2>3, <2>4, <2>5
<1>2. CASE last[w] = None
  <2>1. Cached(w) = first[w]  BY <1>2 DEF Cached
  <2>2. first[w] \in Snapshot \cup {None}  BY DEF TypeOK
  <2>3. first[w] # None => first[w].updated \in Stamps /\ first[w].updated < Now(w)
    BY NowIsFresh DEF Caches
  <2> QED BY <1>2, <2>1, <2>2, <2>3
<1> QED BY <1>1, <1>2

\* What it knows of a living wrapper's task is one of the copies that count.
LEMMA OwnIsACopy ==
  ASSUME TypeOK, Caches, Kin, NEW w \in Alive, Cached(w) # None
  PROVE  CopyOf(Cached(w)) \in Copies(w)
<1>0. w \in Wrappers  BY DEF Alive
<1>1. CASE last[w] # None
  <2>1. w \in {x \in Alive : last[x] # None /\ w \in Registered(last[x].reg)}
    BY <1>0, <1>1, CachedCases
  <2>2. Cached(w) = SnapshotOf(last[w].reg, last[w].updated, w)  BY <1>0, <1>1, CachedCases
  <2> QED BY <2>1, <2>2 DEF Copies
<1>2. CASE last[w] = None
  <2>1. Cached(w) = first[w]  BY <1>0, <1>2, CachedCases
  <2> QED BY <2>1 DEF Copies
<1> QED BY <1>1, <1>2

\* And it names the slot that all copies name.
LEMMA OwnIsAtHome ==
  ASSUME TypeOK, Caches, Kin, NEW home, HomeIs(home), NEW w \in Wrappers, Cached(w) # None
  PROVE  Cached(w).task.slot = home[w]
<1>1. CASE last[w] # None
  <2>1. w \in Registered(last[w].reg) /\ Cached(w).task = last[w].reg.tasks[w]
    BY <1>1, CachedCases
  <2> QED BY <1>1, <2>1 DEF HomeIs, At
<1>2. CASE last[w] = None
  BY <1>2, CachedCases DEF HomeIs
<1> QED BY <1>1, <1>2

-----------------------------------------------------------------------------
(***************************************************************************)
(* Copies.                                                                 *)
(***************************************************************************)
\* A copy of a later revision than all others differs from none of them.
LEMMA LaterIsDistinct ==
  ASSUME NEW S, NEW d, Distinct(S),
         \A c \in S : c.updated \in Nat /\ c.updated < d.updated, d.updated \in Nat,
         NEW T, T \subseteq S \cup {d}
  PROVE  Distinct(T)
<1> SUFFICES ASSUME NEW a \in T, NEW b \in T, a.updated = b.updated PROVE a = b
  BY DEF Distinct
<1>1. a \in S \/ a = d  OBVIOUS
<1>2. b \in S \/ b = d  OBVIOUS
<1> QED BY <1>1, <1>2 DEF Distinct

LEMMA FewerAreDistinct ==
  ASSUME NEW S, Distinct(S), NEW T, T \subseteq S
  PROVE  Distinct(T)
BY DEF Distinct

\* The copy at the host.
Mine(w) == CopyOf(SnapshotOf(reg, updated, w))

\* The cases of a task in a step of the registry.
Same(w) == reg'.tasks[w] = reg.tasks[w] /\ updated'[w] = updated[w]

Dropped(w) == w \notin Registered(reg')

\* It is stamped, and shows what it did to whoever has the latest of it.
Freshened(w) ==
  /\ w \in Registered(reg) /\ w \in Registered(reg')
  /\ reg'.tasks[w].slot = reg.tasks[w].slot
  /\ Shown(reg'.tasks[w]) = Shown(reg.tasks[w])
  /\ updated'[w] >= Now(w)
  /\ Cached(w) # None => updated[w] >= Cached(w).updated

\* It is changed, and noted as such.
Noted(w) ==
  /\ w \in Registered(reg) /\ w \in Registered(reg')
  /\ reg'.tasks[w].slot = reg.tasks[w].slot
  /\ updated'[w] >= Now(w)
  /\ w \in touched'

\* It is what its living wrapper knows of it, which does not host yet.
Hosts(w) == pc[w] \in {"hosting", "leaving"}

Renewed(w) ==
  /\ w \in Alive /\ ~Hosts(w) /\ Cached(w) # None /\ w \in Registered(reg')
  /\ reg'.tasks[w].slot = Cached(w).task.slot
  /\ Shown(reg'.tasks[w]) = Shown(Cached(w).task)
  /\ updated'[w] = Cached(w).updated \/ updated'[w] >= Now(w)

\* It is new.
Arrives(w) ==
  /\ w \in Alive /\ ~Hosts(w) /\ Unknown(w) /\ Cached(w) = None /\ first[w] = None
  /\ w \in Registered(reg')

\* It is what some living process knows of it, and has to come back.
Restored(w) ==
  \E u \in Alive :
    /\ ~Hosts(u) /\ last[u] # None
    /\ w \in Registered(last[u].reg) /\ w \in Registered(reg')
    /\ reg'.tasks[w].slot = last[u].reg.tasks[w].slot
    /\ Shown(reg'.tasks[w]) = Shown(last[u].reg.tasks[w])
    /\ updated'[w] = last[u].updated[w]
    /\ reg'.tasks[w].conn = "reconnecting"

Keeps(w)  == \/ Same(w) \/ Dropped(w) \/ Freshened(w)
             \/ Renewed(w) \/ Arrives(w) \/ Restored(w)
Effect(w) == Keeps(w) \/ Noted(w)

\* The first cache of a wrapper stays, or takes what its host has just made.
FirstKept(w) == first'[w] = first[w]
FirstTaken(w) ==
  /\ last[w] = None /\ w \in Registered(reg')
  /\ first'[w] = SnapshotOf(reg', updated', w)
  /\ Arrives(w) \/ Renewed(w) \/ Freshened(w)

\* A step of the registry: each task in one of those cases.
TaskStep ==
  /\ Sound(reg') /\ updated' \in [Wrappers -> Stamps]
  /\ last' = last
  /\ touched \subseteq touched'
  /\ \A w \in Alive' : w \in Alive \/ last[w] = None
  /\ \A w \in Wrappers : Effect(w) /\ (FirstKept(w) \/ FirstTaken(w))

\* One that changes what no task shows.
QuietStep == TaskStep /\ \A w \in Wrappers : Keeps(w)

\* What a copy of the host's is made of.
LEMMA MineIs ==
  ASSUME NEW r, NEW u, NEW w
  PROVE  /\ SnapshotOf(r, u, w).task = r.tasks[w] /\ SnapshotOf(r, u, w).updated = u[w]
         /\ CopyOf(SnapshotOf(r, u, w)) = [updated |-> u[w], shown |-> Shown(r.tasks[w])]
BY DEF SnapshotOf, CopyOf, Shown

\* Nobody has a copy of the unknown.
LEMMA UnknownHasNoCopies ==
  ASSUME NEW w \in Wrappers, Unknown(w), first[w] = None
  PROVE  Copies(w) = {}
BY DEF Unknown, Copies, Alive

\* After a step of the registry, a copy is an old one or the host's.
LEMMA StepCopies ==
  ASSUME TaskStep, NEW w \in Wrappers, NEW c \in Copies(w)'
  PROVE  c \in Copies(w) \/ (w \in Registered(reg') /\ c = Mine(w)')
<1>1. CASE w \in Registered(reg') /\ c = CopyOf(SnapshotOf(reg', updated', w))
  BY <1>1 DEF Mine
<1>2. CASE \E v \in {x \in Alive : last[x] # None /\ w \in Registered(last[x].reg)}' :
             c = CopyOf(SnapshotOf(last'[v].reg, last'[v].updated, w))
  <2>1. PICK v \in Alive' : /\ last'[v] # None /\ w \in Registered(last'[v].reg)
                            /\ c = CopyOf(SnapshotOf(last'[v].reg, last'[v].updated, w))
    BY <1>2
  <2>2. last'[v] = last[v] /\ v \in Alive  BY <2>1 DEF TaskStep
  <2>3. v \in {x \in Alive : last[x] # None /\ w \in Registered(last[x].reg)}  BY <2>1, <2>2
  <2> QED BY <2>1, <2>2, <2>3 DEF Copies
<1>3. CASE first'[w] # None /\ c = CopyOf(first'[w])
  <2>1. CASE FirstKept(w)  BY <1>3, <2>1 DEF FirstKept, Copies
  <2>2. CASE FirstTaken(w)  BY <1>3, <2>2 DEF FirstTaken, Mine
  <2> QED BY <2>1, <2>2 DEF TaskStep
<1> QED BY <1>1, <1>2, <1>3 DEF Copies

\* The host's is an old one, or later than all; for whom there is no reason to
\* be told, it shows nothing else than the wrapper's own.
LEMMA StepMine ==
  ASSUME TypeOK, Caches, Kin, OwnIsLatest, TaskStep, NEW w \in Wrappers, w \in Registered(reg')
  PROVE  /\ \/ Mine(w)' \in Copies(w)
            \/ \A c \in Copies(w) : c.updated < updated'[w]
         /\ w \notin touched' /\ Cached(w) # None /\ Mine(w)' \notin Copies(w)
              => Shown(reg'.tasks[w]) = Shown(Cached(w).task)
<1> DEFINE mine == [updated |-> updated'[w], shown |-> Shown(reg'.tasks[w])]
<1>1. Mine(w)' = mine  BY MineIs DEF Mine
<1>2. \A c \in Copies(w) : c.updated \in Nat /\ c.updated < Now(w)
  BY CopiesAreOlder, StampsAssumption DEF Stamps
<1>3. Now(w) \in Nat /\ updated'[w] \in Nat  BY NowIsFresh, StampsAssumption DEF TaskStep, Stamps
<1>4. ASSUME updated'[w] >= Now(w) PROVE \A c \in Copies(w) : c.updated < updated'[w]
  BY <1>2, <1>3, <1>4
<1>5. CASE Same(w)
  <2>1. w \in Registered(reg)  BY <1>5 DEF Same, Registered
  <2>2. mine = CopyOf(SnapshotOf(reg, updated, w))  BY <1>5, MineIs DEF Same
  <2>3. mine \in Copies(w)  BY <2>1, <2>2 DEF Copies
  <2> QED BY <1>1, <2>3
<1>6. CASE Freshened(w)
  <2>1. \A c \in Copies(w) : c.updated < updated'[w]  BY <1>4, <1>6 DEF Freshened
  <2>2. ASSUME w \notin touched', Cached(w) # None
        PROVE  Shown(reg'.tasks[w]) = Shown(Cached(w).task)
    <3>1. CopyOf(SnapshotOf(reg, updated, w)) \in Copies(w)  BY <1>6 DEF Copies, Freshened
    <3>2. AsOwn(Copies(w), CopyOf(Cached(w)))  BY <2>2 DEF OwnIsLatest, TaskStep
    <3>3. CopyOf(SnapshotOf(reg, updated, w)).updated >= CopyOf(Cached(w)).updated
      BY <1>6, <2>2 DEF Freshened, CopyOf, SnapshotOf
    <3>4. CopyOf(SnapshotOf(reg, updated, w)).shown = CopyOf(Cached(w)).shown
      BY <3>1, <3>2, <3>3 DEF AsOwn
    <3> QED BY <1>6, <3>4 DEF Freshened, CopyOf, SnapshotOf, Shown
  <2> QED BY <2>1, <2>2
<1>7. CASE Noted(w)
  BY <1>4, <1>7 DEF Noted
<1>8. CASE Renewed(w)
  <2>1. Shown(reg'.tasks[w]) = Shown(Cached(w).task)  BY <1>8 DEF Renewed
  <2>2. CASE updated'[w] = Cached(w).updated
    <3>1. mine = CopyOf(Cached(w))  BY <2>1, <2>2 DEF CopyOf, Shown
    <3>2. mine \in Copies(w)  BY <1>8, <3>1, OwnIsACopy DEF Renewed
    <3> QED BY <1>1, <3>2
  <2>3. CASE updated'[w] >= Now(w)  BY <1>4, <2>1, <2>3
  <2> QED BY <1>8, <2>2, <2>3 DEF Renewed
<1>9. CASE Arrives(w)
  BY <1>9, UnknownHasNoCopies DEF Arrives
<1>10. CASE Restored(w)
  <2>1. PICK u \in Alive :
               /\ last[u] # None /\ w \in Registered(last[u].reg)
               /\ Shown(reg'.tasks[w]) = Shown(last[u].reg.tasks[w])
               /\ updated'[w] = last[u].updated[w]
    BY <1>10 DEF Restored
  <2>2. mine = CopyOf(SnapshotOf(last[u].reg, last[u].updated, w))  BY <2>1, MineIs
  <2>3. u \in {x \in Alive : last[x] # None /\ w \in Registered(last[x].reg)}  BY <2>1
  <2>4. mine \in Copies(w)  BY <2>2, <2>3 DEF Copies
  <2> QED BY <1>1, <2>4
<1> QED BY <1>5, <1>6, <1>7, <1>8, <1>9, <1>10 DEF TaskStep, Effect, Keeps, Dropped

\* What the wrapper knows changes with its first cache alone.
LEMMA StepCached ==
  ASSUME TypeOK, Caches, Kin, TaskStep, NEW w \in Wrappers
  PROVE  /\ FirstKept(w) => Cached(w)' = Cached(w)
         /\ FirstTaken(w) => /\ Cached(w)' = SnapshotOf(reg', updated', w)
                             /\ CopyOf(Cached(w)') = Mine(w)'
                             /\ Cached(w)'.updated = updated'[w]
<1>1. last'[w] = last[w]  BY DEF TaskStep
<1>2. FirstKept(w) => Cached(w)' = Cached(w)  BY <1>1 DEF FirstKept, Cached
<1>3. FirstTaken(w) => Cached(w)' = SnapshotOf(reg', updated', w)
  BY <1>1 DEF FirstTaken, Cached
<1>4. SnapshotOf(reg', updated', w).updated = updated'[w]  BY MineIs
<1> QED BY <1>2, <1>3, <1>4 DEF Mine

LEMMA StepOwn ==
  ASSUME TypeOK, Caches, Kin, OwnIsLatest, TaskStep
  PROVE  OwnIsLatest'
<1> SUFFICES ASSUME NEW w \in Wrappers
    PROVE /\ Distinct(Copies(w)')
          /\ w \notin touched' /\ Cached(w)' # None => AsOwn(Copies(w)', CopyOf(Cached(w)'))
          /\ w \in Registered(reg') /\ reg'.tasks[w].conn = "connected" /\ Cached(w)' # None
               => updated'[w] >= Cached(w)'.updated
  BY DEF OwnIsLatest
<1>1. \A c \in Copies(w) : c.updated \in Nat /\ c.updated < Now(w)
  BY CopiesAreOlder, StampsAssumption DEF Stamps
<1>2. Now(w) \in Nat /\ updated'[w] \in Nat  BY NowIsFresh, StampsAssumption DEF TaskStep, Stamps
<1>3. Mine(w)' = [updated |-> updated'[w], shown |-> Shown(reg'.tasks[w])]  BY MineIs DEF Mine
<1>4. \A c \in Copies(w)' : c \in Copies(w) \/ (w \in Registered(reg') /\ c = Mine(w)')
  BY StepCopies
<1>5. Distinct(Copies(w))  BY DEF OwnIsLatest
<1>6. Distinct(Copies(w)')
  <2>1. CASE Copies(w)' \subseteq Copies(w)  BY <1>5, <2>1, FewerAreDistinct
  <2>2. CASE ~(Copies(w)' \subseteq Copies(w))
    <3>1. w \in Registered(reg') /\ Mine(w)' \notin Copies(w)  BY <1>4, <2>2
    <3>2. \A c \in Copies(w) : c.updated < updated'[w]  BY <3>1, StepMine
    <3>3. Copies(w)' \subseteq Copies(w) \cup {Mine(w)'}  BY <1>4
    <3>4. Mine(w)'.updated = updated'[w]  BY <1>3
    <3> HIDE <1>3
    <3>5. \A c \in Copies(w) : c.updated \in Nat /\ c.updated < Mine(w)'.updated
      BY <1>1, <3>2, <3>4
    <3> QED BY <1>2, <1>5, <3>3, <3>4, <3>5, LaterIsDistinct
  <2> QED BY <2>1, <2>2
<1>7. ASSUME FirstKept(w)
      PROVE  /\ w \notin touched' /\ Cached(w)' # None => AsOwn(Copies(w)', CopyOf(Cached(w)'))
             /\ w \in Registered(reg') /\ reg'.tasks[w].conn = "connected" /\ Cached(w)' # None
                  => updated'[w] >= Cached(w)'.updated
  <2>1. Cached(w)' = Cached(w)  BY <1>7, StepCached
  <2>2. ASSUME w \notin touched', Cached(w) # None PROVE AsOwn(Copies(w)', CopyOf(Cached(w)))
    <3>1. AsOwn(Copies(w), CopyOf(Cached(w)))  BY <2>2 DEF OwnIsLatest, TaskStep
    <3>2. ASSUME w \in Registered(reg'), Mine(w)' \notin Copies(w)
          PROVE  Mine(w)'.shown = CopyOf(Cached(w)).shown
      <4>1. Shown(reg'.tasks[w]) = Shown(Cached(w).task)  BY <2>2, <3>2, StepMine
      <4> QED BY <1>3, <4>1 DEF CopyOf, Shown
    <3> QED BY <1>4, <3>1, <3>2 DEF AsOwn
  <2>3. ASSUME w \in Registered(reg'), reg'.tasks[w].conn = "connected", Cached(w) # None
        PROVE  updated'[w] >= Cached(w).updated
    <3>1. Cached(w).updated \in Nat /\ Cached(w).updated < Now(w)
      BY <2>3, CachedCases, StampsAssumption DEF Stamps
    <3>2. updated'[w] >= Now(w) => updated'[w] >= Cached(w).updated  BY <1>2, <3>1
    <3>3. CASE Same(w)
      BY <2>3, <3>3 DEF Same, Registered, OwnIsLatest
    <3>4. CASE Freshened(w) \/ Noted(w)  BY <3>2, <3>4 DEF Freshened, Noted
    <3>5. CASE Renewed(w)  BY <1>2, <3>2, <3>5 DEF Renewed
    <3>6. CASE Arrives(w) \/ Restored(w)  BY <2>3, <3>6 DEF Arrives, Restored
    <3> QED BY <2>3, <3>3, <3>4, <3>5, <3>6 DEF TaskStep, Effect, Keeps, Dropped
  <2> QED BY <2>1, <2>2, <2>3
<1>8. ASSUME FirstTaken(w)
      PROVE  /\ w \notin touched' => AsOwn(Copies(w)', CopyOf(Cached(w)'))
             /\ updated'[w] >= Cached(w)'.updated
  <2>1. CopyOf(Cached(w)') = Mine(w)' /\ Cached(w)'.updated = updated'[w]
    BY <1>8, StepCached
  <2>2. ASSUME w \notin touched', NEW c \in Copies(w), c.updated >= updated'[w]
        PROVE  c.shown = Mine(w)'.shown
    <3>1. ~(updated'[w] >= Now(w))  BY <1>1, <1>2, <2>2
    <3>2. CASE Arrives(w)  BY <2>2, <3>2, UnknownHasNoCopies DEF Arrives
    <3>3. CASE Renewed(w)
      <4>1. updated'[w] = Cached(w).updated /\ Cached(w) # None
        BY <3>1, <3>3 DEF Renewed
      <4>2. AsOwn(Copies(w), CopyOf(Cached(w)))  BY <2>2, <4>1 DEF OwnIsLatest, TaskStep
      <4>3. CopyOf(Cached(w)).updated = updated'[w]  BY <4>1 DEF CopyOf
      <4>4. c.shown = CopyOf(Cached(w)).shown  BY <2>2, <4>2, <4>3 DEF AsOwn
      <4> QED BY <1>3, <3>3, <4>4 DEF Renewed, CopyOf, Shown
    <3>4. CASE Freshened(w)  BY <3>1, <3>4 DEF Freshened
    <3> QED BY <1>8, <3>2, <3>3, <3>4 DEF FirstTaken
  <2>3. Mine(w)'.updated = updated'[w]  BY <1>3
  <2>4. w \notin touched' => AsOwn(Copies(w)', Mine(w)')
    <3> HIDE <1>3
    <3> QED BY <1>4, <2>2, <2>3 DEF AsOwn
  <2> QED BY <1>2, <2>1, <2>4
<1> QED BY <1>6, <1>7, <1>8 DEF TaskStep

LEMMA StepHome ==
  ASSUME TypeOK, Caches, Kin, OneHome, TaskStep
  PROVE  OneHome'
<1>1. PICK home \in [Wrappers -> Slots \cup {NoSlot}] : HomeIs(home)  BY DEF OneHome
<1> DEFINE home2 == [w \in Wrappers |-> IF Arrives(w) THEN reg'.tasks[w].slot ELSE home[w]]
<1>2. home2 \in [Wrappers -> Slots \cup {NoSlot}]
  <2> SUFFICES ASSUME NEW w \in Wrappers, Arrives(w) PROVE reg'.tasks[w].slot \in Slots \cup {NoSlot}
    OBVIOUS
  <2>1. reg'.tasks[w] \in Task  BY DEF TaskStep, Sound, Registry, Registered, Arrives
  <2> QED BY <2>1 DEF Task
<1>3. ASSUME NEW w \in Registered(reg') PROVE reg'.tasks[w].slot = home2[w]
  <2>0. w \in Wrappers  BY DEF Registered
  <2>1. CASE Arrives(w)  BY <2>0, <2>1
  <2>2. CASE ~Arrives(w)
    <3>1. home2[w] = home[w]  BY <2>0, <2>2
    <3> HIDE DEF home2
    <3>2. w \in Registered(reg) => reg.tasks[w].slot = home[w]  BY <1>1 DEF HomeIs, At
    <3>3. CASE Same(w)  BY <3>1, <3>2, <3>3 DEF Same, Registered
    <3>4. CASE Freshened(w) \/ Noted(w)  BY <3>1, <3>2, <3>4 DEF Freshened, Noted
    <3>5. CASE Renewed(w)  BY <1>1, <2>0, <3>1, <3>5, OwnIsAtHome DEF Renewed
    <3>6. CASE Restored(w)
      BY <1>1, <3>1, <3>6 DEF Restored, HomeIs, At, Alive
    <3> QED BY <2>0, <2>2, <3>3, <3>4, <3>5, <3>6 DEF TaskStep, Effect, Keeps, Dropped
  <2> QED BY <2>1, <2>2
<1>4. ASSUME NEW v \in Wrappers, last[v] # None, NEW w \in Registered(last[v].reg)
      PROVE  last[v].reg.tasks[w].slot = home2[w]
  <2>1. ~Arrives(w) /\ w \in Wrappers  BY <1>4 DEF Arrives, Unknown, Registered
  <2> QED BY <1>1, <1>4, <2>1 DEF HomeIs, At
<1>5. ASSUME NEW w \in Wrappers, first'[w] # None PROVE first'[w].task.slot = home2[w]
  <2>1. CASE FirstKept(w)
    <3>1. ~Arrives(w)  BY <1>5, <2>1 DEF FirstKept, Arrives
    <3> QED BY <1>1, <1>5, <2>1, <3>1 DEF FirstKept, HomeIs
  <2>2. CASE FirstTaken(w)
    <3>1. first'[w].task = reg'.tasks[w] /\ w \in Registered(reg')
      BY <2>2, MineIs DEF FirstTaken
    <3> QED BY <1>3, <3>1
  <2> QED BY <2>1, <2>2 DEF TaskStep
<1> HIDE DEF home2
<1>6. PICK h \in [Wrappers -> Slots \cup {NoSlot}] : h = home2  BY <1>2
<1>7. HomeIs(h)'
  BY <1>3, <1>4, <1>5, <1>6 DEF HomeIs, At, TaskStep
<1> QED BY <1>7 DEF OneHome

LEMMA StepCaches ==
  ASSUME TypeOK, Caches, Kin, TaskStep
  PROVE  Caches'
<1>1. ASSUME NEW w \in Wrappers, first'[w] # None PROVE first'[w].updated \in Stamps
  <2>1. CASE FirstKept(w)  BY <1>1, <2>1 DEF FirstKept, Caches
  <2>2. CASE FirstTaken(w)  BY <2>2, MineIs DEF FirstTaken, TaskStep
  <2> QED BY <2>1, <2>2 DEF TaskStep
<1>2. \A v \in Wrappers : last'[v] # None => SoundStatus(last'[v])  BY DEF Caches, TaskStep
<1> QED BY <1>1, <1>2 DEF Caches, TaskStep, SoundStatus, Stamps, Sound

-----------------------------------------------------------------------------
(***************************************************************************)
(* The registry's methods.                                                 *)
(***************************************************************************)
\* What register makes of the wrapper's task; it touches no other.
LEMMA RegisterWrites ==
  ASSUME NEW r, Sound(r), NEW w \in Wrappers,
         NEW want \in {AnySlot, NoSlot} \cup Slots, SlotGranted(r, w, want),
         w \in Registered(r) /\ want = NoSlot => r.tasks[w].slot = NoSlot,
         NEW rec \in Recovery \cup {None}, NEW newer \in BOOLEAN,
         NEW q, q = Register(r, w, want, rec, newer)
  PROVE  /\ Sound(q) /\ w \in Registered(q) /\ q.tasks[w].conn = "connected"
         /\ \A v \in Wrappers \ {w} : q.tasks[v] = r.tasks[v]
         /\ want # AnySlot => q.tasks[w].slot = want
         /\ rec # None /\ (w \notin Registered(r) \/ newer) => Shown(q.tasks[w]) = Shown(rec)
         /\ w \in Registered(r) /\ ~(rec # None /\ newer)
              => Shown(q.tasks[w]) = Shown(r.tasks[w])
<1>0. r \in Registry /\ r.tasks \in [Wrappers -> Task \cup {None}]  BY DEF Sound, Registry
<1>1. Sound(q) /\ Connects(q, r, w)  BY RegisterSound
<1>2. PICK t \in Task : t.conn = "connected" /\ q.tasks = [r.tasks EXCEPT ![w] = t]
  BY <1>1 DEF Connects
<1>3. q.tasks[w] = t /\ \A v \in Wrappers \ {w} : q.tasks[v] = r.tasks[v]  BY <1>0, <1>2
<1>4. w \in Registered(q)  BY <1>2, <1>3, NoneIsNoTask DEF Registered
<1>5. CASE w \notin Registered(r)
  <2> DEFINE mark == rec # None /\ rec.unread
             slot == AllocateSlot(r, want)
             task == [slot    |-> slot,
                      state   |-> IF rec = None THEN "idle" ELSE rec.state,
                      conn    |-> "connected",
                      unread  |-> mark,
                      session |-> IF rec = None THEN None ELSE rec.session]
             next == SetTask(r, w, task)
  <2>1. q \in {next, [next EXCEPT !.selected = w]}  BY <1>5 DEF Register, RegisterNew
  <2>2. rec # None => rec.unread \in BOOLEAN  BY DEF Recovery
  <2>3. rec # None => mark = rec.unread  BY <2>2
  <2>4. want # AnySlot => slot = want  BY DEF AllocateSlot
  <2> HIDE DEF mark, slot
  <2>5. /\ task.slot = slot /\ task.unread = mark
        /\ rec # None => task.state = rec.state /\ task.session = rec.session
    OBVIOUS
  <2> HIDE DEF task
  <2>6. next.tasks = [r.tasks EXCEPT ![w] = task]  BY <1>0 DEF SetTask, Registry
  <2>7. q.tasks[w] = task
    <3>1. [next EXCEPT !.selected = w].tasks = next.tasks  BY <1>0 DEF SetTask, Registry
    <3> QED BY <1>0, <2>1, <2>6, <3>1
  <2> QED BY <1>1, <1>2, <1>3, <1>4, <1>5, <2>3, <2>4, <2>5, <2>7 DEF Shown
<1>6. CASE w \in Registered(r)
  <2> DEFINE merge == rec # None /\ newer
             from  == IF merge THEN rec ELSE r.tasks[w]
             slot  == IF want = AnySlot THEN r.tasks[w].slot ELSE want
             task  == [slot    |-> slot,
                       state   |-> from.state,
                       conn    |-> "connected",
                       unread  |-> from.unread,
                       session |-> from.session]
             next  == SetTask(r, w, task)
  <2>1. q \in {next, [next EXCEPT !.selected = w]}  BY <1>6 DEF Register, RegisterAgain
  <2>2. want # AnySlot => slot = want  OBVIOUS
  <2>3. /\ rec # None /\ newer => from = rec
        /\ ~(rec # None /\ newer) => from = r.tasks[w]
    OBVIOUS
  <2> HIDE DEF from, slot
  <2>5. task.slot = slot /\ Shown(task) = Shown(from)  BY DEF Shown
  <2> HIDE DEF task
  <2>6. next.tasks = [r.tasks EXCEPT ![w] = task]  BY <1>0 DEF SetTask, Registry
  <2>7. q.tasks[w] = task
    <3>1. [next EXCEPT !.selected = w].tasks = next.tasks  BY <1>0 DEF SetTask, Registry
    <3> QED BY <1>0, <2>1, <2>6, <3>1
  <2> QED BY <1>1, <1>2, <1>3, <1>4, <1>6, <2>2, <2>3, <2>5, <2>7
<1> QED BY <1>5, <1>6

\* What unregister leaves: the others, and a selection that changed with the
\* selected task alone, to one that is connected.
LEMMA UnregisterLeaves ==
  ASSUME NEW r, Sound(r), NEW w \in Registered(r), NEW q, q = Unregister(r, w)
  PROVE  /\ Sound(q) /\ w \notin Registered(q)
         /\ \A v \in Wrappers \ {w} : q.tasks[v] = r.tasks[v]
         /\ r.selected = w /\ q.selected # None
              => /\ q.selected \in Registered(r) \ {w}
                 /\ r.tasks[q.selected].conn = "connected"
<1>0. r \in Registry /\ w \in Wrappers  BY DEF Sound, Registered
<1> DEFINE rest == SetTask(r, w, None)
<1>1. rest.tasks = [r.tasks EXCEPT ![w] = None] /\ rest.selected = r.selected
  BY <1>0 DEF SetTask, Registry
<1>2. rest.tasks[w] = None /\ \A v \in Wrappers \ {w} : rest.tasks[v] = r.tasks[v]
  BY <1>0, <1>1 DEF Registry
<1>3. rest \in Registry  BY <1>0, RemoveUnshared
<1>4. q.tasks = rest.tasks  BY <1>3 DEF Unregister, SelectFallback, Registry
<1>5. Sound(q)  BY UnregisterSound
<1>6. ASSUME r.selected = w, q.selected # None
      PROVE  q.selected \in Registered(r) \ {w} /\ r.tasks[q.selected].conn = "connected"
  <2>1. q.selected = FallbackWrapper(rest, {}, FALSE)
    BY <1>3, <1>6 DEF Unregister, SelectFallback, Registry
  <2>2. q.selected \in Candidates(rest, {}, FALSE)  BY <1>3, <1>6, <2>1, FallbackIsCandidate
  <2>3. q.selected \in Registered(rest) /\ rest.tasks[q.selected].conn = "connected"
    BY <2>2 DEF Candidates
  <2>4. q.selected \in Wrappers \ {w} /\ q.selected \in Registered(r)
    BY <1>2, <2>3 DEF Registered
  <2> QED BY <1>2, <2>3, <2>4
<1> QED BY <1>2, <1>4, <1>5, <1>6 DEF Registered

\* The instance's operators are the ones of TaskOps.
LEMMA SameOperators ==
  ASSUME NEW r, NEW w, NEW v, NEW want, NEW rec, NEW newer, NEW state, NEW session
  PROVE  /\ Registrations!Registered(r) = Registered(r)
         /\ Registrations!SlotGranted(r, w, want) <=> SlotGranted(r, w, want)
         /\ Registrations!Register(r, w, want, rec, newer) = Register(r, w, want, rec, newer)
         /\ Registrations!Unregister(r, w) = Unregister(r, w)
         /\ Registrations!ApplyState(r, w, state, session) = ApplyState(r, w, state, session)
         /\ Registrations!MarkConnection(r, w, state) = MarkConnection(r, w, state)
         /\ Registrations!SelectRecord(r, w) = SelectRecord(r, w)
         /\ Registrations!Selectable(r) = Selectable(r)
<1>1. Registrations!Registered(r) = Registered(r)
  BY DEF Registrations!Registered, Registered
<1>2. Registrations!SlotGranted(r, w, want) <=> SlotGranted(r, w, want)
  BY DEF Registrations!SlotGranted, SlotGranted, Registrations!Registered, Registered,
         Registrations!TaskAtSlot, TaskAtSlot, Registrations!Slots, Slots,
         Registrations!AnySlot, AnySlot, Registrations!NoSlot, NoSlot
<1>3. Registrations!Register(r, w, want, rec, newer) = Register(r, w, want, rec, newer)
  BY Zenon DEF Registrations!Register, Register, Registrations!RegisterNew, RegisterNew,
         Registrations!RegisterAgain, RegisterAgain, Registrations!SetTask, SetTask,
         Registrations!AllocateSlot, AllocateSlot, Registrations!FreeSlots, FreeSlots,
         Registrations!Registered, Registered,
         Registrations!TaskAtSlot, TaskAtSlot, Registrations!Slots, Slots,
         Registrations!AnySlot, AnySlot, Registrations!NoSlot, NoSlot
<1>4. Registrations!Unregister(r, w) = Unregister(r, w)
  BY Zenon DEF Registrations!Unregister, Unregister, Registrations!SelectFallback, SelectFallback,
         Registrations!FallbackWrapper, FallbackWrapper, Registrations!LowestSlot, LowestSlot,
         Registrations!Candidates, Candidates, Registrations!SetTask, SetTask,
         Registrations!Registered, Registered, Registrations!NoSlot, NoSlot
<1>5. Registrations!ApplyState(r, w, state, session) = ApplyState(r, w, state, session)
  BY Zenon DEF Registrations!ApplyState, ApplyState, Registrations!SetTask, SetTask
<1>6. Registrations!MarkConnection(r, w, state) = MarkConnection(r, w, state)
  BY Zenon DEF Registrations!MarkConnection, MarkConnection, Registrations!SetTask, SetTask
<1>7. Registrations!SelectRecord(r, w) = SelectRecord(r, w)
  BY Zenon DEF Registrations!SelectRecord, SelectRecord, Registrations!SetTask, SetTask
<1>8. Registrations!Selectable(r) = Selectable(r)
  BY DEF Registrations!Selectable, Selectable, Registrations!Candidates, Candidates,
         Registrations!Registered, Registered, Registrations!NoSlot, NoSlot
<1> QED BY <1>1, <1>2, <1>3, <1>4, <1>5, <1>6, <1>7, <1>8

\* The stamp is in bounds, and as late as its reading of the clock.
LEMMA NextStamp ==
  ASSUME NEW previous \in Nat, NEW floor \in Nat, NEW t \in Nat
  PROVE  /\ Registrations!NextUpdatedAt(previous, floor, t) \in Nat
         /\ Registrations!NextUpdatedAt(previous, floor, t) >= t
BY DEF Registrations!NextUpdatedAt, Registrations!Later

LEMMA StampWrites ==
  ASSUME updated \in [Wrappers -> Stamps], NEW w \in Wrappers, NEW floor \in Nat, NEW t \in Nat,
         Registrations!Stamp(w, floor, t)
  PROVE  /\ updated' \in [Wrappers -> Stamps] /\ updated'[w] >= t
         /\ \A v \in Wrappers \ {w} : updated'[v] = updated[v]
<1> DEFINE next == Registrations!NextUpdatedAt(updated[w], floor, t)
<1>1. updated[w] \in Nat  BY StampsAssumption DEF Stamps
<1>2. next \in Nat /\ next >= t  BY <1>1, NextStamp
<1>3. next <= MaxStamp /\ updated' = [updated EXCEPT ![w] = next]  BY DEF Registrations!Stamp
<1> HIDE DEF next
<1>4. next \in Stamps  BY <1>2, <1>3, StampsAssumption DEF Stamps
<1> QED BY <1>2, <1>3, <1>4

\* The rest of the tasks in a method that writes one.
Alone(w) == \A v \in Wrappers \ {w} : Same(v)

LEMMA RegisterFirstWrites ==
  ASSUME Caches, NEW w \in Wrappers, NEW want \in {AnySlot, NoSlot} \cup Slots,
         NEW rec \in Recovery \cup {None}, NEW cached \in Nat, NEW t \in Nat,
         Registrations!RegisterFirst(w, want, rec, cached, t)
  PROVE  /\ Sound(reg') /\ updated' \in [Wrappers -> Stamps]
         /\ Alone(w) /\ w \notin Registered(reg) /\ w \in Registered(reg')
         /\ reg'.tasks[w].conn = "connected"
         /\ want # AnySlot => reg'.tasks[w].slot = want
         /\ rec # None => /\ Shown(reg'.tasks[w]) = Shown(rec)
                          /\ updated'[w] = cached \/ updated'[w] >= t
<1>1. /\ w \notin Registered(reg) /\ SlotGranted(reg, w, want)
      /\ reg' = Register(reg, w, want, rec, FALSE)
  BY SameOperators DEF Registrations!RegisterFirst
<1>2. /\ Sound(reg') /\ w \in Registered(reg') /\ reg'.tasks[w].conn = "connected"
      /\ \A v \in Wrappers \ {w} : reg'.tasks[v] = reg.tasks[v]
      /\ want # AnySlot => reg'.tasks[w].slot = want
      /\ rec # None => Shown(reg'.tasks[w]) = Shown(rec)
  <2>1. PICK newer \in BOOLEAN : newer = FALSE  OBVIOUS
  <2>2. Sound(reg) /\ reg' = Register(reg, w, want, rec, newer)  BY <1>1, <2>1 DEF Caches
  <2>3. w \in Registered(reg) /\ want = NoSlot => reg.tasks[w].slot = NoSlot  BY <1>1
  <2>4. SlotGranted(reg, w, want)  BY <1>1
  <2> HIDE <1>1
  <2>5. /\ Sound(reg') /\ w \in Registered(reg') /\ reg'.tasks[w].conn = "connected"
        /\ \A v \in Wrappers \ {w} : reg'.tasks[v] = reg.tasks[v]
        /\ want # AnySlot => reg'.tasks[w].slot = want
        /\ rec # None /\ (w \notin Registered(reg) \/ newer) => Shown(reg'.tasks[w]) = Shown(rec)
    BY <2>2, <2>3, <2>4, RegisterWrites
  <2> QED BY <1>1, <2>5
<1> DEFINE stamp == IF rec = None THEN t ELSE cached
<1>3. PICK next : /\ next \in {stamp, Registrations!NextUpdatedAt(stamp, 0, t)}
                  /\ next <= MaxStamp /\ updated' = [updated EXCEPT ![w] = next]
  BY DEF Registrations!RegisterFirst
<1>4. stamp \in Nat /\ 0 \in Nat /\ (rec # None => stamp = cached)  OBVIOUS
<1> HIDE DEF stamp
<1>5. next \in Nat /\ (next = stamp \/ next >= t)
  <2>1. /\ Registrations!NextUpdatedAt(stamp, 0, t) \in Nat
        /\ Registrations!NextUpdatedAt(stamp, 0, t) >= t
    BY <1>4, NextStamp
  <2> QED BY <1>3, <1>4, <2>1
<1>6. next \in Stamps  BY <1>3, <1>5, StampsAssumption DEF Stamps
<1>7. updated \in [Wrappers -> Stamps]  BY DEF Caches
<1>8. /\ updated' \in [Wrappers -> Stamps] /\ updated'[w] = next
      /\ \A v \in Wrappers \ {w} : updated'[v] = updated[v]
  BY <1>3, <1>6, <1>7
<1> QED BY <1>1, <1>2, <1>4, <1>5, <1>8 DEF Alone, Same

LEMMA ReRegisterWrites ==
  ASSUME Caches, NEW w \in Wrappers, NEW want \in {AnySlot, NoSlot} \cup Slots,
         NEW rec \in Recovery, NEW cached \in Nat, NEW t \in Nat,
         Registrations!ReRegister(w, want, rec, cached, t)
  PROVE  /\ Sound(reg') /\ updated' \in [Wrappers -> Stamps]
         /\ Alone(w) /\ w \in Registered(reg) /\ w \in Registered(reg')
         /\ reg'.tasks[w].conn = "connected" /\ updated'[w] >= t
         /\ want # AnySlot => reg'.tasks[w].slot = want
         /\ Shown(reg'.tasks[w]) = IF cached > updated[w] THEN Shown(rec) ELSE Shown(reg.tasks[w])
<1> DEFINE newer == rec # None /\ cached > updated[w]
<1>0. rec # None  BY NoneIsNoCache
<1>1. newer \in BOOLEAN /\ (newer <=> cached > updated[w])  BY <1>0
<1>2. /\ w \in Registered(reg) /\ SlotGranted(reg, w, want)
      /\ want = NoSlot => reg.tasks[w].slot = NoSlot
      /\ reg' = Register(reg, w, want, rec, newer)
      /\ Registrations!Stamp(w, IF newer THEN cached ELSE 0, t)
  BY SameOperators DEF Registrations!ReRegister, Registrations!NoSlot, NoSlot
<1> HIDE DEF newer
<1>3. /\ Sound(reg') /\ w \in Registered(reg') /\ reg'.tasks[w].conn = "connected"
      /\ \A v \in Wrappers \ {w} : reg'.tasks[v] = reg.tasks[v]
      /\ want # AnySlot => reg'.tasks[w].slot = want
      /\ newer => Shown(reg'.tasks[w]) = Shown(rec)
      /\ ~newer => Shown(reg'.tasks[w]) = Shown(reg.tasks[w])
  BY <1>0, <1>1, <1>2, RegisterWrites DEF Caches
<1>4. updated \in [Wrappers -> Stamps]  BY DEF Caches
<1>5. (IF newer THEN cached ELSE 0) \in Nat  OBVIOUS
<1>6. /\ updated' \in [Wrappers -> Stamps] /\ updated'[w] >= t
      /\ \A v \in Wrappers \ {w} : updated'[v] = updated[v]
  BY <1>2, <1>4, <1>5, StampWrites
<1> QED BY <1>1, <1>2, <1>3, <1>6 DEF Alone, Same

\* Removing a task touches no other, but that one is stamped as it takes over
\* the selection; it is connected, and so as late as its wrapper's own.
LEMMA RemoveWrites ==
  ASSUME TypeOK, Caches, OwnIsLatest, NEW w \in Wrappers, RemoveTask(w)
  PROVE  /\ Sound(reg') /\ updated' \in [Wrappers -> Stamps]
         /\ w \in Registered(reg) /\ w \notin Registered(reg')
         /\ \A v \in Wrappers \ {w} : /\ reg'.tasks[v] = reg.tasks[v]
                                      /\ Same(v) \/ Freshened(v)
         /\ held' = [held EXCEPT ![w] = "none"]
<1> DEFINE next == reg'.selected
           t    == IF next = None THEN 0 ELSE Now(next)
           base == [updated EXCEPT ![w] = 0]
<1>1. /\ w \in Registered(reg) /\ reg' = Unregister(reg, w)
      /\ IF reg.selected = w /\ next # None
           THEN /\ Registrations!NextUpdatedAt(updated[next], 0, t) <= MaxStamp
                /\ updated' = [base EXCEPT ![next] = Registrations!NextUpdatedAt(base[next], 0, t)]
           ELSE updated' = base
      /\ held' = [held EXCEPT ![w] = "none"]
  BY SameOperators DEF RemoveTask, Registrations!UnregisterTask
<1>2. /\ Sound(reg') /\ w \notin Registered(reg')
      /\ \A v \in Wrappers \ {w} : reg'.tasks[v] = reg.tasks[v]
      /\ reg.selected = w /\ next # None
           => next \in Registered(reg) \ {w} /\ reg.tasks[next].conn = "connected"
  BY <1>1, UnregisterLeaves DEF Caches
<1>3. updated \in [Wrappers -> Stamps] /\ 0 \in Stamps  BY StampsAssumption DEF Caches, Stamps
<1>4. base \in [Wrappers -> Stamps] /\ \A v \in Wrappers \ {w} : base[v] = updated[v]  BY <1>3
<1> HIDE DEF base
<1>5. CASE reg.selected = w /\ next # None
  <2> DEFINE stamp == Registrations!NextUpdatedAt(updated[next], 0, t)
  <2>1. next \in Registered(reg) /\ next \in Wrappers \ {w} /\ reg.tasks[next].conn = "connected"
    BY <1>2, <1>5 DEF Registered
  <2>2. t = Now(next) /\ t \in Nat  BY <1>5, <2>1, NowIsFresh
  <2>3. updated[next] \in Nat /\ 0 \in Nat  BY <1>3, <2>1, StampsAssumption DEF Stamps
  <2>4. stamp \in Nat /\ stamp >= Now(next)
    <3> HIDE DEF t
    <3>1. stamp \in Nat /\ stamp >= t  BY <2>2, <2>3, NextStamp
    <3> QED BY <2>2, <3>1
  <2>5. stamp <= MaxStamp /\ updated' = [base EXCEPT ![next] = stamp]
    BY <1>1, <1>4, <1>5, <2>1
  <2> HIDE DEF stamp, t
  <2>6. stamp \in Stamps  BY <2>4, <2>5, StampsAssumption DEF Stamps
  <2>7. /\ updated' \in [Wrappers -> Stamps] /\ updated'[next] = stamp
        /\ \A v \in Wrappers \ {w, next} : updated'[v] = updated[v]
    BY <1>4, <2>1, <2>5, <2>6
  <2>8. Freshened(next)
    <3>1. next \in Registered(reg')  BY <1>2, <2>1 DEF Registered
    <3>2. Cached(next) # None => updated[next] >= Cached(next).updated
      BY <2>1 DEF OwnIsLatest
    <3> QED BY <1>2, <2>1, <2>4, <2>7, <3>1, <3>2 DEF Freshened, Shown
  <2>9. \A v \in Wrappers \ {w, next} : Same(v)  BY <1>2, <2>7 DEF Same
  <2> QED BY <1>1, <1>2, <2>7, <2>8, <2>9
<1>6. CASE ~(reg.selected = w /\ next # None)
  <2>1. updated' = base  BY <1>1, <1>6
  <2>2. \A v \in Wrappers \ {w} : Same(v)  BY <1>2, <1>4, <2>1 DEF Same
  <2> QED BY <1>1, <1>2, <1>4, <2>1, <2>2
<1> QED BY <1>5, <1>6

\* A method that writes one task, in the place it has, and stamps it.
LEMMA StampedTask ==
  ASSUME Caches, NEW w \in Registered(reg), NEW task \in Task,
         task.slot = reg.tasks[w].slot, Sound(reg'),
         reg'.tasks = SetTask(reg, w, task).tasks,
         Registrations!Stamp(w, 0, Now(w))
  PROVE  /\ updated' \in [Wrappers -> Stamps]
         /\ Alone(w) /\ w \in Wrappers /\ w \in Registered(reg')
         /\ reg'.tasks[w] = task /\ updated'[w] >= Now(w)
<1>0. w \in Wrappers /\ reg.tasks \in [Wrappers -> Task \cup {None}]
  BY DEF Registered, Caches, Sound, Registry
<1>1. reg'.tasks = [reg.tasks EXCEPT ![w] = task]  BY DEF SetTask, Caches, Sound, Registry
<1>2. reg'.tasks[w] = task /\ \A v \in Wrappers \ {w} : reg'.tasks[v] = reg.tasks[v]
  BY <1>0, <1>1
<1>3. w \in Registered(reg')  BY <1>0, <1>2, NoneIsNoTask DEF Registered
<1>4. updated \in [Wrappers -> Stamps] /\ Now(w) \in Nat /\ 0 \in Nat  BY <1>0, NowIsFresh DEF Caches
<1>5. /\ updated' \in [Wrappers -> Stamps] /\ updated'[w] >= Now(w)
      /\ \A v \in Wrappers \ {w} : updated'[v] = updated[v]
  BY <1>0, <1>4, StampWrites
<1> QED BY <1>0, <1>2, <1>3, <1>5 DEF Alone, Same

LEMMA SetStateWrites ==
  ASSUME Caches, NEW w \in Wrappers, NEW state \in AgentStates,
         Registrations!SetState(w, state, None, Now(w))
  PROVE  /\ Sound(reg') /\ updated' \in [Wrappers -> Stamps] /\ Alone(w)
         /\ w \in Registered(reg) /\ w \in Registered(reg') /\ updated'[w] >= Now(w)
         /\ reg'.tasks[w].slot = reg.tasks[w].slot
         /\ reg'.tasks[w].conn = reg.tasks[w].conn
<1>1. /\ w \in Registered(reg) /\ reg' = ApplyState(reg, w, state, None)
      /\ Registrations!Stamp(w, 0, Now(w))
  BY SameOperators DEF Registrations!SetState
<1>2. reg.tasks[w] \in Task  BY <1>1 DEF Caches, Sound, Registry, Registered
<1> DEFINE unread == state = "complete" \/ (state # "idle" /\ reg.tasks[w].unread)
           task   == [reg.tasks[w] EXCEPT !.state = state, !.unread = unread]
<1>3. unread \in BOOLEAN  OBVIOUS
<1>4. reg' = SetTask(reg, w, task)
  <2>1. [reg.tasks[w] EXCEPT !.state = state, !.unread = unread,
                             !.session = IF None = None THEN @ ELSE None] = task
    BY <1>2 DEF Task
  <2> QED BY <1>1, <2>1 DEF ApplyState
<1> HIDE DEF unread
<1>5. task \in Task /\ task.slot = reg.tasks[w].slot /\ task.conn = reg.tasks[w].conn
  BY <1>2, <1>3 DEF Task, TaskStates
<1>6. Sound(reg')
  <2>1. None \in Sessions \cup {None}  OBVIOUS
  <2> QED BY <1>1, <2>1, ApplyStateSound DEF Caches
<1> HIDE DEF task
<1> QED BY <1>1, <1>4, <1>5, <1>6, StampedTask

LEMMA SetConnectionWrites ==
  ASSUME Caches, NEW w \in Wrappers,
         Registrations!SetConnection(w, "reconnecting", Now(w))
  PROVE  /\ Sound(reg') /\ updated' \in [Wrappers -> Stamps] /\ Alone(w)
         /\ w \in Registered(reg) /\ w \in Registered(reg') /\ updated'[w] >= Now(w)
         /\ reg'.tasks[w].slot = reg.tasks[w].slot
         /\ Shown(reg'.tasks[w]) = Shown(reg.tasks[w])
<1>1. /\ w \in Registered(reg) /\ reg' = MarkConnection(reg, w, "reconnecting")
      /\ Registrations!Stamp(w, 0, Now(w))
  BY SameOperators DEF Registrations!SetConnection
<1>2. reg.tasks[w] \in Task  BY <1>1 DEF Caches, Sound, Registry, Registered
<1> DEFINE task == [reg.tasks[w] EXCEPT !.conn = "reconnecting"]
<1>3. reg' = SetTask(reg, w, task)  BY <1>1 DEF MarkConnection
<1>4. task \in Task /\ task.slot = reg.tasks[w].slot /\ Shown(task) = Shown(reg.tasks[w])
  BY <1>2 DEF Task, Shown
<1>5. Sound(reg')
  <2>1. PICK conn \in {"connected", "reconnecting"} : conn = "reconnecting"  OBVIOUS
  <2>2. reg' = MarkConnection(reg, w, conn)  BY <1>1, <2>1
  <2> QED BY <1>1, <2>2, MarkConnectionSound DEF Caches
<1> HIDE DEF task
<1> QED BY <1>1, <1>3, <1>4, <1>5, StampedTask

LEMMA SelectWrites ==
  ASSUME Caches, NEW s \in Slots, NEW w \in Selectable(reg), reg.tasks[w].slot = s,
         Registrations!SelectSlot(s, Now(w))
  PROVE  /\ Sound(reg') /\ updated' \in [Wrappers -> Stamps] /\ Alone(w)
         /\ w \in Registered(reg) /\ w \in Registered(reg') /\ updated'[w] >= Now(w)
         /\ reg'.tasks[w].slot = reg.tasks[w].slot
         /\ reg'.tasks[w].conn = reg.tasks[w].conn
<1>0. w \in Registered(reg) /\ w \in Wrappers  BY DEF Selectable, Candidates, Registered
<1>1. /\ reg' = SelectRecord(reg, w) /\ Registrations!Stamp(w, 0, Now(w))
  <2>1. PICK x \in Selectable(reg) : /\ reg.tasks[x].slot = s /\ reg' = SelectRecord(reg, x)
                                     /\ Registrations!Stamp(x, 0, Now(w))
    BY SameOperators DEF Registrations!SelectSlot
  <2>2. x \in Registered(reg) /\ s # NoSlot
    BY SlotCountAssumption DEF Selectable, Candidates, Slots, NoSlot
  <2>3. x = w  BY <1>0, <2>1, <2>2 DEF Caches, Sound, SlotsUnshared
  <2> QED BY <2>1, <2>3
<1>2. reg.tasks[w] \in Task  BY <1>0 DEF Caches, Sound, Registry, Registered
<1> DEFINE task == [reg.tasks[w] EXCEPT !.unread = FALSE,
                                        !.state = IF @ = "complete" THEN "idle" ELSE @]
<1>3. reg'.tasks = SetTask(reg, w, task).tasks
  BY <1>1 DEF SelectRecord, SetTask, Caches, Sound, Registry
<1>4. task \in Task /\ task.slot = reg.tasks[w].slot /\ task.conn = reg.tasks[w].conn
  BY <1>2 DEF Task, TaskStates, AgentStates
<1>5. Sound(reg')  BY <1>1, SelectRecordSound DEF Caches
<1> HIDE DEF task
<1> QED BY <1>0, <1>1, <1>3, <1>4, <1>5, StampedTask

-----------------------------------------------------------------------------
(***************************************************************************)
(* Steps of the processes.                                                 *)
(***************************************************************************)
LEMMA TaskStepKeeps ==
  ASSUME TypeOK, Caches, Kin, OneHome, OwnIsLatest, TaskStep
  PROVE  /\ Caches' /\ OneHome' /\ OwnIsLatest'
         /\ reg' \in Registry /\ updated' \in [Wrappers -> Nat]
<1>1. reg' \in Registry /\ updated' \in [Wrappers -> Nat]
  BY StampsAssumption DEF TaskStep, Sound, Stamps
<1> QED BY <1>1, StepCaches, StepHome, StepOwn

\* What a process has to have met, and what it must not have, at each place.
Met == {"pending", "streaming", "lost", "rejoining", "failing"}
New == {"out", "joining"}

LEMMA KinStep ==
  ASSUME Kin, last' = last, first' = first, served' = served,
         \A w \in Wrappers :
           /\ pc'[w] \in New => pc[w] \in New
           /\ pc'[w] \in Met => served[w] # None
           /\ pc'[w] \in New \cup {"starting"} /\ served[w] = None
                => pc[w] \in New \cup {"starting"} /\ (Unknown(w) => w \notin Registered(reg'))
  PROVE  Kin'
<1>1. \A w \in Wrappers : Cached(w)' = Cached(w)  BY DEF Cached
<1>2. \A w \in Wrappers : Unknown(w) /\ w \notin Registered(reg') => Unknown(w)'
  BY DEF Unknown
<1> QED BY <1>1, <1>2 DEF Kin, Met, New

\* What was agreed on stays a registry.
LEMMA ForgetsTyped ==
  ASSUME TypeOK, Forgets
  PROVE  settled' \in Registry \cup {None}
BY DEF TypeOK, Forgets, Registry

\* A process goes on by itself, on neither side of the lease.
LEMMA MovesOn ==
  ASSUME Inv, NEW w \in Wrappers, NEW step \in Steps,
         pc' = [pc EXCEPT ![w] = step],
         UNCHANGED <<registryVars, hostVars, clientVars, ghostVars>>,
         pc[w] # "gone", step \notin {"out", "starting"},
         pc[w] \in InLease => pc[w] = "starting" /\ step = "failing",
         pc[w] \notin InLease => step \notin InLease,
         step = "joining" => pc[w] = "out",
         step \in Met => served[w] # None
  PROVE  Inv' /\ QuietStep
<1> USE DEF registryVars, hostVars, clientVars, ghostVars
<1>1. pc \in [Wrappers -> Steps] /\ TypeOK'  BY DEF Inv, TypeOK
<1>2. \A v \in Wrappers \ {w} : pc'[v] = pc[v]  BY <1>1
<1>3. pc'[w] = step  BY <1>1
<1>4. pc[w] = "out" => last[w] = None
  <2>1. ASSUME pc[w] = "out" PROVE Cached(w) = None  BY <2>1 DEF Inv, Kin
  <2>2. last[w] # None => Cached(w) # None
    BY CachedCases, SnapshotTyped DEF Inv, Caches, SoundStatus, Sound
  <2> QED BY <2>1, <2>2
<1>5. QuietStep
  <2>1. Sound(reg') /\ updated' \in [Wrappers -> Stamps]  BY DEF Inv, Caches
  <2>2. \A v \in Alive' : v \in Alive \/ last[v] = None  BY <1>2, <1>4 DEF Alive
  <2>3. \A v \in Wrappers : Same(v) /\ FirstKept(v)  BY DEF Same, FirstKept
  <2> QED BY <2>1, <2>2, <2>3 DEF QuietStep, TaskStep, Effect, Keeps
<1>6. Caches' /\ OneHome' /\ OwnIsLatest'  BY <1>5, TaskStepKeeps DEF Inv, QuietStep
<1>7. Kin'
  <2>1. \A v \in Wrappers : /\ pc'[v] \in New => pc[v] \in New
                            /\ pc'[v] \in Met => served[v] # None
                            /\ pc'[v] \in New \cup {"starting"} /\ served[v] = None
                                 => pc[v] \in New \cup {"starting"}
    BY <1>2, <1>3 DEF Inv, Kin, New, Met
  <2>2. \A v \in Wrappers : Unknown(v) => v \notin Registered(reg')  BY DEF Unknown
  <2> QED BY <2>1, <2>2, KinStep DEF Inv
<1>8. Placed'
  <2>1. \A v \in Wrappers : host' = v <=> pc'[v] \in InLease
    BY <1>2, <1>3 DEF Inv, Placed, InLease
  <2>2. (serving' => host' # None /\ pc'[host'] = "hosting") /\ (Seeded' <=> Seeded)
    <3>1. CASE host = None  BY <3>1 DEF Inv, Placed, Seeded
    <3>2. CASE host = w
      BY <1>3, <3>2 DEF Inv, Placed, Seeded, InLease
    <3>3. CASE host \in Wrappers \ {w}  BY <1>2, <3>3 DEF Inv, Placed, Seeded
    <3> QED BY <3>1, <3>2, <3>3 DEF Inv, TypeOK
  <2>3. ~Seeded' => reg' = EmptyRegistry /\ held' = NoneHeld  BY <2>2 DEF Inv, Placed
  <2>4. \A v \in Wrappers : held'[v] # "none" => /\ v \in Registered(reg')
                                                 /\ reg'.tasks[v].conn = "connected"
    BY DEF Inv, Placed
  <2> QED BY <2>1, <2>2, <2>3, <2>4 DEF Placed
<1> QED BY <1>1, <1>5, <1>6, <1>7, <1>8 DEF Inv

\* The winner of the race.
LEMMA WinsLease ==
  ASSUME Inv, NEW w \in Wrappers, pc[w] \in {"out", "lost"}, host = None, host' = w,
         pc' = [pc EXCEPT ![w] = "starting"],
         UNCHANGED <<registryVars, serving, held, clientVars, ghostVars>>
  PROVE  Inv' /\ QuietStep
<1> USE DEF registryVars, clientVars, ghostVars
<1>1. pc \in [Wrappers -> Steps] /\ TypeOK'  BY DEF Inv, TypeOK, Steps
<1>2. /\ \A v \in Wrappers \ {w} : pc'[v] = pc[v]
      /\ pc'[w] = "starting"
  BY <1>1
<1>4. pc[w] = "out" => last[w] = None
  <2>1. ASSUME pc[w] = "out" PROVE Cached(w) = None  BY <2>1 DEF Inv, Kin
  <2>2. last[w] # None => Cached(w) # None
    BY CachedCases, SnapshotTyped DEF Inv, Caches, SoundStatus, Sound
  <2> QED BY <2>1, <2>2
<1>5. QuietStep
  <2>1. Sound(reg') /\ updated' \in [Wrappers -> Stamps]  BY DEF Inv, Caches
  <2>2. \A v \in Alive' : v \in Alive \/ last[v] = None  BY <1>2, <1>4 DEF Alive
  <2>3. \A v \in Wrappers : Same(v) /\ FirstKept(v)  BY DEF Same, FirstKept
  <2> QED BY <2>1, <2>2, <2>3 DEF QuietStep, TaskStep, Effect, Keeps
<1>6. Caches' /\ OneHome' /\ OwnIsLatest'  BY <1>5, TaskStepKeeps DEF Inv, QuietStep
<1>7. Kin'
  <2>1. \A v \in Wrappers : /\ pc'[v] \in New => pc[v] \in New
                            /\ pc'[v] \in Met => served[v] # None
                            /\ pc'[v] \in New \cup {"starting"} /\ served[v] = None
                                 => pc[v] \in New \cup {"starting"}
    BY <1>2 DEF Inv, Kin, New, Met
  <2>2. \A v \in Wrappers : Unknown(v) => v \notin Registered(reg')  BY DEF Unknown
  <2> QED BY <2>1, <2>2, KinStep DEF Inv
<1>8. Placed'
  <2>1. \A v \in Wrappers : host' = v <=> pc'[v] \in InLease
    BY <1>2, NoneAssumption DEF Inv, Placed, InLease
  <2>2. ~serving /\ reg = EmptyRegistry /\ held = NoneHeld  BY DEF Inv, Placed, Seeded
  <2>3. \A v \in Wrappers : held'[v] # "none" => /\ v \in Registered(reg')
                                                 /\ reg'.tasks[v].conn = "connected"
    BY DEF Inv, Placed
  <2> QED BY <2>1, <2>2, <2>3 DEF Placed
<1> QED BY <1>1, <1>5, <1>6, <1>7, <1>8 DEF Inv

\* A host's end.
LEMMA HostEnds ==
  ASSUME Inv, NEW w \in Wrappers, host = w, NoHost, NEW step \in {"lost", "gone"},
         pc' = [pc EXCEPT ![w] = step], step = "lost" => pc[w] = "failing",
         UNCHANGED <<clientVars, ghostVars>>
  PROVE  Inv' /\ QuietStep
<1> USE DEF clientVars, ghostVars
<1>0. /\ EmptyRegistry \in Registry /\ Sound(EmptyRegistry)
      /\ NoStamps \in [Wrappers -> Stamps] /\ NoStamps \in [Wrappers -> Nat]
      /\ Registered(EmptyRegistry) = {}
  BY StampsAssumption DEF EmptyRegistry, Sound, Registry, SlotsUnshared, SelectionInSlot,
                          Registered, NoStamps, Stamps
<1>1. pc \in [Wrappers -> Steps] /\ TypeOK'
  BY <1>0 DEF Inv, TypeOK, NoHost, NoneHeld, Steps
<1>2. /\ \A v \in Wrappers \ {w} : pc'[v] = pc[v]
      /\ pc'[w] = step
  BY <1>1
<1>5. QuietStep
  <2>1. Sound(reg') /\ updated' \in [Wrappers -> Stamps]  BY <1>0 DEF NoHost
  <2>2. pc[w] \in InLease  BY DEF Inv, Placed
  <2>3. \A v \in Alive' : v \in Alive  BY <1>2, <2>2 DEF Alive, InLease
  <2>4. \A v \in Wrappers : Dropped(v) /\ FirstKept(v)  BY <1>0 DEF Dropped, FirstKept, NoHost
  <2> QED BY <2>1, <2>3, <2>4 DEF QuietStep, TaskStep, Effect, Keeps
<1>6. Caches' /\ OneHome' /\ OwnIsLatest'  BY <1>5, TaskStepKeeps DEF Inv, QuietStep
<1>7. Kin'
  <2>1. \A v \in Wrappers : /\ pc'[v] \in New => pc[v] \in New
                            /\ pc'[v] \in Met => served[v] # None
                            /\ pc'[v] \in New \cup {"starting"} /\ served[v] = None
                                 => pc[v] \in New \cup {"starting"}
    BY <1>2 DEF Inv, Kin, New, Met
  <2>2. \A v \in Wrappers : Unknown(v) => v \notin Registered(reg')  BY <1>0 DEF NoHost
  <2> QED BY <2>1, <2>2, KinStep DEF Inv
<1>8. Placed'
  <2>1. \A v \in Wrappers : host' = v <=> pc'[v] \in InLease
    BY <1>2, NoneAssumption DEF Inv, Placed, InLease, NoHost
  <2> QED BY <2>1 DEF Placed, NoHost, Seeded, NoneHeld
<1> QED BY <1>1, <1>5, <1>6, <1>7, <1>8 DEF Inv

\* A task goes: a timer fires, a client leaves, or the host does.
LEMMA RemovesTask ==
  ASSUME Inv, NEW w \in Wrappers, RemoveTask(w), NEW step \in Steps,
         pc' = [pc EXCEPT ![w] = step], UNCHANGED <<host, clientVars, touched, behind>>,
         settled' \in Registry \cup {None},
         \/ serving' = serving /\ step = pc[w]
         \/ serving' = serving /\ pc[w] \in Met \ InLease /\ step = "gone"
         \/ serving' = FALSE /\ pc[w] = "hosting" /\ step = "leaving"
  PROVE  Inv' /\ QuietStep
<1> USE DEF clientVars
<1>0. /\ Sound(reg') /\ updated' \in [Wrappers -> Stamps]
      /\ w \in Registered(reg) /\ w \notin Registered(reg')
      /\ \A v \in Wrappers \ {w} : /\ reg'.tasks[v] = reg.tasks[v]
                                   /\ Same(v) \/ Freshened(v)
      /\ held' = [held EXCEPT ![w] = "none"]
  BY RemoveWrites DEF Inv
<1>1. /\ pc \in [Wrappers -> Steps]
      /\ \A v \in Wrappers \ {w} : pc'[v] = pc[v]
      /\ pc'[w] = step
  BY DEF Inv, TypeOK
<1>2. /\ held \in [Wrappers -> {"none", "pending", "open"}]
      /\ held' \in [Wrappers -> {"none", "pending", "open"}]
      /\ held'[w] = "none" /\ \A v \in Wrappers \ {w} : held'[v] = held[v]
  BY <1>0 DEF Inv, TypeOK
<1>3. QuietStep
  <2>1. \A v \in Alive' : v \in Alive  BY <1>1 DEF Alive, Met
  <2>2. Dropped(w)  BY <1>0 DEF Dropped
  <2>3. \A v \in Wrappers : Keeps(v) /\ FirstKept(v)
    BY <1>0, <2>2 DEF Keeps, FirstKept
  <2> QED BY <1>0, <2>1, <2>3 DEF QuietStep, TaskStep, Effect
<1>4. /\ Caches' /\ OneHome' /\ OwnIsLatest'
      /\ reg' \in Registry /\ updated' \in [Wrappers -> Nat]
  BY <1>3, TaskStepKeeps DEF Inv, QuietStep
<1>5. TypeOK'
  <2>1. pc' \in [Wrappers -> Steps] /\ serving' \in BOOLEAN  BY <1>1 DEF Inv, TypeOK
  <2> QED BY <1>2, <1>4, <2>1 DEF Inv, TypeOK
<1>6. Kin'
  <2>1. \A v \in Wrappers : /\ pc'[v] \in New => pc[v] \in New
                            /\ pc'[v] \in Met => served[v] # None
                            /\ pc'[v] \in New \cup {"starting"} /\ served[v] = None
                                 => pc[v] \in New \cup {"starting"}
    BY <1>1 DEF Inv, Kin, New, Met
  <2>2. \A v \in Wrappers : Unknown(v) => v \notin Registered(reg')
    BY <1>0 DEF Unknown, Registered
  <2> QED BY <2>1, <2>2, KinStep DEF Inv
<1>7. Placed'
  <2>1. \A v \in Wrappers : host' = v <=> pc'[v] \in InLease
    BY <1>1 DEF Inv, Placed, InLease, Met
  <2>2. Seeded
    <3>1. reg # EmptyRegistry  BY <1>0 DEF EmptyRegistry, Registered
    <3> QED BY <3>1 DEF Inv, Placed
  <2>3. Seeded' /\ (serving' => host' # None /\ pc'[host'] = "hosting")
    <3>1. host \in Wrappers  BY <2>2 DEF Seeded, Inv, TypeOK
    <3>2. CASE host = w
      BY <1>1, <2>1, <2>2, <3>2 DEF Seeded, Inv, Placed, InLease
    <3>3. CASE host # w
      <4>1. pc'[host] = pc[host] /\ pc[w] # "hosting"
        BY <1>1, <3>1, <3>3 DEF Inv, Placed, InLease
      <4> QED BY <2>2, <4>1 DEF Seeded, Inv, Placed
    <3> QED BY <3>2, <3>3
  <2>4. \A v \in Wrappers : held'[v] # "none" => /\ v \in Registered(reg')
                                                 /\ reg'.tasks[v].conn = "connected"
    BY <1>0, <1>2 DEF Inv, Placed, Registered
  <2> QED BY <2>1, <2>3, <2>4 DEF Placed
<1> QED BY <1>3, <1>4, <1>5, <1>6, <1>7 DEF Inv

\* The host writes one task and no process moves.
LEMMA WritesTask ==
  ASSUME Inv, NEW w \in Wrappers, serving,
         Sound(reg'), updated' \in [Wrappers -> Stamps], Alone(w),
         w \in Registered(reg), w \in Registered(reg'), Effect(w),
         reg'.tasks[w].conn = reg.tasks[w].conn \/ held'[w] = "none",
         held' = [held EXCEPT ![w] = held'[w]], held'[w] \in {held[w], "none"},
         touched \subseteq touched', touched' \subseteq Wrappers, behind' \subseteq Wrappers,
         settled' \in {settled, None},
         UNCHANGED <<host, serving, pc, clientVars>>
  PROVE  Inv' /\ (Keeps(w) => QuietStep)
<1> USE DEF clientVars
<1>2. /\ held \in [Wrappers -> {"none", "pending", "open"}]
      /\ held' \in [Wrappers -> {"none", "pending", "open"}]
      /\ \A v \in Wrappers \ {w} : held'[v] = held[v]
  BY DEF Inv, TypeOK
<1>3. TaskStep
  <2>1. \A v \in Wrappers : Effect(v) /\ FirstKept(v)  BY DEF Alone, Effect, Keeps, FirstKept
  <2>2. \A v \in Alive' : v \in Alive  BY DEF Alive
  <2> QED BY <2>1, <2>2 DEF TaskStep
<1>4. /\ Caches' /\ OneHome' /\ OwnIsLatest'
      /\ reg' \in Registry /\ updated' \in [Wrappers -> Nat]
  BY <1>3, TaskStepKeeps DEF Inv
<1>5. TypeOK'  BY <1>2, <1>4 DEF Inv, TypeOK
<1>6. Kin'
  <2>1. \A v \in Wrappers : /\ pc'[v] \in New => pc[v] \in New
                            /\ pc'[v] \in Met => served[v] # None
                            /\ pc'[v] \in New \cup {"starting"} /\ served[v] = None
                                 => pc[v] \in New \cup {"starting"}
    BY DEF Inv, Kin, New, Met
  <2>2. \A v \in Wrappers : Unknown(v) => v \notin Registered(reg')
    BY DEF Unknown, Registered, Alone, Same
  <2> QED BY <2>1, <2>2, KinStep DEF Inv
<1>7. Placed'
  <2>1. Seeded'  BY DEF Inv, Placed, Seeded
  <2>2. \A v \in Wrappers : held'[v] # "none" => /\ v \in Registered(reg')
                                                 /\ reg'.tasks[v].conn = "connected"
    BY <1>2 DEF Inv, Placed, Registered, Alone, Same
  <2> QED BY <2>1, <2>2 DEF Inv, Placed
<1>8. Keeps(w) => QuietStep  BY <1>3 DEF QuietStep, Alone, Keeps
<1> QED BY <1>4, <1>5, <1>6, <1>7, <1>8 DEF Inv

\* A stream opens.
LEMMA Opens ==
  ASSUME Inv, NEW w \in Wrappers, pc[w] = "pending", Attachable(w),
         held' = [held EXCEPT ![w] = "open"], pc' = [pc EXCEPT ![w] = "streaming"],
         UNCHANGED <<registryVars, host, serving, clientVars, ghostVars>>
  PROVE  Inv' /\ QuietStep
<1> USE DEF clientVars, registryVars, ghostVars
<1>1. /\ pc \in [Wrappers -> Steps]
      /\ \A v \in Wrappers \ {w} : pc'[v] = pc[v]
      /\ pc'[w] = "streaming"
  BY DEF Inv, TypeOK
<1>2. /\ held' \in [Wrappers -> {"none", "pending", "open"}]
      /\ \A v \in Wrappers \ {w} : held'[v] = held[v]
  BY DEF Inv, TypeOK
<1>3. QuietStep
  <2>1. \A v \in Wrappers : Keeps(v) /\ FirstKept(v)  BY DEF Same, Keeps, FirstKept
  <2>2. \A v \in Alive' : v \in Alive  BY <1>1 DEF Alive
  <2> QED BY <2>1, <2>2 DEF QuietStep, TaskStep, Effect, Inv, Caches
<1>4. Caches' /\ OneHome' /\ OwnIsLatest'  BY <1>3, TaskStepKeeps DEF Inv, QuietStep
<1>5. TypeOK'  BY <1>1, <1>2 DEF Inv, TypeOK, Steps
<1>6. Kin'
  <2>1. \A v \in Wrappers : /\ pc'[v] \in New => pc[v] \in New
                            /\ pc'[v] \in Met => served[v] # None
                            /\ pc'[v] \in New \cup {"starting"} /\ served[v] = None
                                 => pc[v] \in New \cup {"starting"}
    BY <1>1 DEF Inv, Kin, New, Met
  <2>2. \A v \in Wrappers : Unknown(v) => v \notin Registered(reg')  BY DEF Unknown
  <2> QED BY <2>1, <2>2, KinStep DEF Inv
<1>7. Placed'
  <2>1. host # w /\ serving  BY DEF Inv, Placed, InLease, Attachable
  <2>2. host \in Wrappers \ {w} /\ pc'[host] = pc[host]
    BY <1>1, <2>1 DEF Inv, Placed, TypeOK
  <2>3. Seeded' /\ (serving' => host' # None /\ pc'[host'] = "hosting")
    BY <2>1, <2>2 DEF Inv, Placed, Seeded
  <2>4. \A v \in Wrappers : held'[v] # "none" => /\ v \in Registered(reg')
                                                 /\ reg'.tasks[v].conn = "connected"
    BY <1>2 DEF Inv, Placed, Attachable
  <2>5. \A v \in Wrappers : host' = v <=> pc'[v] \in InLease
    BY <1>1, <2>1 DEF Inv, Placed, InLease
  <2> QED BY <2>3, <2>4, <2>5 DEF Placed
<1> QED BY <1>3, <1>4, <1>5, <1>6, <1>7 DEF Inv

\* A status arrives: its copies are the host's, and what the wrapper had to be
\* told it has been told, unless somebody holds a later revision of its task.
LEMMA Delivers ==
  ASSUME Inv, NEW w \in Wrappers, Deliver(w)
  PROVE  Inv'
<1> DEFINE status == [reg |-> reg, updated |-> updated]
<1>0. /\ pc[w] = "streaming" /\ host = served[w] /\ held[w] = "open"
      /\ last' = [last EXCEPT ![w] = status] /\ first' = [first EXCEPT ![w] = None]
      /\ touched' = IF NewerHeld(w) THEN touched ELSE touched \ {w}
      /\ settled' = IF Agreed(last') THEN reg ELSE settled
      /\ behind' = behind \ {w}
      /\ UNCHANGED <<reg, updated, host, serving, held, pc, served>>
  BY DEF Deliver, Connected, registryVars, hostVars
<1>1. status \in Status /\ status # None /\ status.reg = reg /\ status.updated = updated
      /\ SoundStatus(status)
  <2>1. status \in Status  BY DEF Status, Inv, TypeOK
  <2> QED BY <2>1, NoneIsNoCache DEF SoundStatus, Inv, Caches
<1> HIDE DEF status
<1>2. /\ last'[w] = status /\ first'[w] = None
      /\ \A v \in Wrappers \ {w} : last'[v] = last[v] /\ first'[v] = first[v]
  BY <1>0 DEF Inv, TypeOK
<1>3. w \in Registered(reg) /\ reg.tasks[w].conn = "connected"
  BY <1>0 DEF Inv, Placed
<1>4. TypeOK'
  <2>1. last' \in [Wrappers -> Status \cup {None}]  BY <1>0, <1>1 DEF Inv, TypeOK
  <2>2. first' \in [Wrappers -> Snapshot \cup {None}]  BY <1>0 DEF Inv, TypeOK
  <2>3. settled' \in Registry \cup {None}  BY <1>0 DEF Inv, TypeOK
  <2> QED BY <1>0, <2>1, <2>2, <2>3 DEF Inv, TypeOK
<1>5. Caches'  BY <1>0, <1>1, <1>2 DEF Inv, Caches, SoundStatus, Sound, Stamps
<1>6. Placed'  BY <1>0 DEF Inv, Placed, Seeded
<1>7. /\ Cached(w)' = SnapshotOf(reg, updated, w)
      /\ Cached(w)' # None
      /\ \A v \in Wrappers \ {w} : Cached(v)' = Cached(v)
  <2>1. Cached(w)' = SnapshotOf(reg, updated, w)
    BY <1>0, <1>1, <1>2, <1>3 DEF Cached
  <2>2. SnapshotOf(reg, updated, w) # None  BY <1>3, SnapshotTyped DEF Inv, Caches, Sound
  <2>3. \A v \in Wrappers \ {w} : Cached(v)' = Cached(v)  BY <1>2 DEF Cached
  <2> QED BY <2>1, <2>2, <2>3
<1>8. Kin'
  <2>1. ASSUME NEW v \in Wrappers, Unknown(v) PROVE Unknown(v)'
    BY <1>0, <1>1, <1>2, <2>1 DEF Unknown
  <2>2. served[w] # None /\ served[w] # w  BY <1>0 DEF Inv, Kin
  <2>3. /\ last'[w] # None /\ w \in Registered(last'[w].reg) /\ first'[w] = None
    BY <1>1, <1>2, <1>3
  <2>4. \A v \in Wrappers \ {w} : last'[v] = last[v] /\ first'[v] = first[v] /\ Cached(v)' = Cached(v)
    BY <1>2, <1>7
  <2> HIDE <1>2
  <2> QED BY <1>0, <1>7, <2>1, <2>2, <2>3, <2>4 DEF Inv, Kin
<1>9. OneHome'
  <2>1. PICK home \in [Wrappers -> Slots \cup {NoSlot}] : HomeIs(home)  BY DEF Inv, OneHome
  <2>2. HomeIs(home)'  BY <1>0, <1>1, <1>2, <2>1 DEF HomeIs, At
  <2> QED BY <2>2 DEF OneHome
<1>10. w \in Alive /\ Alive' = Alive  BY <1>0 DEF Alive
<1>11. \A v \in Wrappers : Copies(v)' \subseteq Copies(v)
  <2> SUFFICES ASSUME NEW v \in Wrappers, NEW c \in Copies(v)' PROVE c \in Copies(v)
    OBVIOUS
  <2>1. CASE v \in Registered(reg) /\ c = CopyOf(SnapshotOf(reg, updated, v))
    BY <2>1 DEF Copies
  <2>2. CASE \E u \in {x \in Alive : last[x] # None /\ v \in Registered(last[x].reg)}' :
               c = CopyOf(SnapshotOf(last'[u].reg, last'[u].updated, v))
    <3>1. PICK u \in Alive : /\ last'[u] # None /\ v \in Registered(last'[u].reg)
                             /\ c = CopyOf(SnapshotOf(last'[u].reg, last'[u].updated, v))
      BY <1>10, <2>2
    <3>2. CASE u = w
      <4>1. v \in Registered(reg) /\ c = CopyOf(SnapshotOf(reg, updated, v))
        BY <1>1, <1>2, <3>1, <3>2
      <4> QED BY <4>1 DEF Copies
    <3>3. CASE u # w
      <4>1. last'[u] = last[u]  BY <1>2, <3>1, <3>3 DEF Alive
      <4>2. u \in {x \in Alive : last[x] # None /\ v \in Registered(last[x].reg)}
        BY <3>1, <4>1
      <4> QED BY <3>1, <4>1, <4>2 DEF Copies
    <3> QED BY <3>2, <3>3
  <2>3. CASE first'[v] # None /\ c = CopyOf(first'[v])
    <3>1. first'[v] = first[v]  BY <1>2, <2>3
    <3> QED BY <2>3, <3>1 DEF Copies
  <2> QED BY <1>0, <2>1, <2>2, <2>3 DEF Copies
<1>12. ASSUME w \notin touched', NEW c \in Copies(w)', c.updated >= updated[w]
       PROVE  c.shown = Mine(w).shown
  <2>0. /\ Mine(w) \in Copies(w) /\ Mine(w).updated = updated[w] /\ c \in Copies(w)
    BY <1>3, <1>11, MineIs DEF Copies, Mine
  <2>1. c.updated \in Nat /\ updated[w] \in Nat
    BY <2>0, CopiesAreOlder, StampsAssumption DEF Inv, Caches, Stamps
  <2>2. CASE NewerHeld(w)
    <3>1. w \notin touched /\ Cached(w) # None  BY <1>0, <1>12, <2>2 DEF Inv, Kin
    <3>2. AsOwn(Copies(w), CopyOf(Cached(w))) /\ updated[w] >= Cached(w).updated
      BY <1>3, <3>1 DEF Inv, OwnIsLatest
    <3>3. CopyOf(Cached(w)).updated = Cached(w).updated  BY DEF CopyOf
    <3>4. Cached(w).updated \in Nat
      BY <3>1, CachedCases, StampsAssumption DEF Inv, Stamps
    <3>5. c.updated >= CopyOf(Cached(w)).updated  BY <1>12, <2>1, <3>2, <3>3, <3>4
    <3> QED BY <2>0, <3>2, <3>3, <3>5 DEF AsOwn
  <2>3. CASE ~NewerHeld(w)
    <3>1. c.updated <= updated[w]
      <4>1. CASE c = CopyOf(SnapshotOf(reg, updated, w))  BY <2>0, <2>1, <4>1 DEF Mine
      <4>2. CASE \E u \in {x \in Alive : last[x] # None /\ w \in Registered(last[x].reg)}' :
                   c = CopyOf(SnapshotOf(last'[u].reg, last'[u].updated, w))
        <5>1. PICK u \in Alive : /\ last'[u] # None
                                 /\ c = CopyOf(SnapshotOf(last'[u].reg, last'[u].updated, w))
          BY <1>10, <4>2
        <5>2. c.updated = last'[u].updated[w]  BY <5>1, MineIs
        <5>3. CASE u = w  BY <1>1, <1>2, <2>1, <5>2, <5>3
        <5>4. CASE u # w
          <6>1. last'[u] = last[u] /\ u \in Wrappers  BY <1>2, <5>1, <5>4 DEF Alive
          <6>2. ~(last[u].updated[w] > updated[w])  BY <2>3, <5>1, <6>1 DEF NewerHeld
          <6> QED BY <2>1, <5>2, <6>1, <6>2
        <5> QED BY <5>3, <5>4
      <4>3. CASE first'[w] # None /\ c = CopyOf(first'[w])  BY <1>2, <4>3
      <4>4. \/ c = CopyOf(SnapshotOf(reg, updated, w))
            \/ \E u \in {x \in Alive : last[x] # None /\ w \in Registered(last[x].reg)}' :
                   c = CopyOf(SnapshotOf(last'[u].reg, last'[u].updated, w))
            \/ first'[w] # None /\ c = CopyOf(first'[w])
        <5>1. c \in Copies(w)'  BY <1>12
        <5>2. UNCHANGED <<reg, updated>>  BY <1>0
        <5> QED BY <5>1, <5>2 DEF Copies
      <4> QED BY <4>1, <4>2, <4>3, <4>4
    <3>2. c.updated = Mine(w).updated  BY <1>12, <2>0, <2>1, <3>1
    <3>3. Distinct(Copies(w))  BY DEF Inv, OwnIsLatest
    <3> QED BY <2>0, <3>2, <3>3 DEF Distinct
  <2> QED BY <2>2, <2>3
<1>13. OwnIsLatest'
  <2>1. ASSUME NEW v \in Wrappers PROVE Distinct(Copies(v)')
    BY <1>11, FewerAreDistinct DEF Inv, OwnIsLatest
  <2>2. ASSUME NEW v \in Wrappers \ {w}
        PROVE  /\ v \notin touched' /\ Cached(v)' # None => AsOwn(Copies(v)', CopyOf(Cached(v)'))
               /\ v \in Registered(reg') /\ reg'.tasks[v].conn = "connected" /\ Cached(v)' # None
                    => updated'[v] >= Cached(v)'.updated
    <3>1. Cached(v)' = Cached(v) /\ (v \notin touched' => v \notin touched)
      BY <1>0, <1>7
    <3> QED BY <1>0, <1>11, <3>1 DEF Inv, OwnIsLatest, AsOwn
  <2>3. w \notin touched' => AsOwn(Copies(w)', CopyOf(Cached(w)'))
    <3>1. CopyOf(Cached(w)') = Mine(w) /\ Mine(w).updated = updated[w]
      BY <1>7, MineIs DEF Mine
    <3> QED BY <1>12, <3>1 DEF AsOwn
  <2>4. updated'[w] >= Cached(w)'.updated
    <3>1. Cached(w)'.updated = updated[w]  BY <1>7, MineIs
    <3>2. updated[w] \in Nat  BY DEF Inv, TypeOK
    <3> QED BY <1>0, <3>1, <3>2
  <2> QED BY <2>1, <2>2, <2>3, <2>4 DEF OwnIsLatest
<1> QED BY <1>4, <1>5, <1>6, <1>8, <1>9, <1>13 DEF Inv

\* What a client sends of its own task: the slot it has, and what it shows.
LEMMA RecoveryTyped ==
  ASSUME NEW snapshot \in Snapshot
  PROVE  /\ RecoverySlot(snapshot) = snapshot.task.slot
         /\ RecoverySlot(snapshot) \in {AnySlot, NoSlot} \cup Slots
         /\ RecoverySlot(snapshot) # AnySlot
         /\ RecoveryOf(snapshot) \in Recovery /\ RecoveryOf(snapshot) # None
         /\ Shown(RecoveryOf(snapshot)) = Shown(snapshot.task)
         /\ snapshot.updated \in Nat
<1>1. /\ snapshot.task \in Task /\ snapshot.selected \in BOOLEAN /\ snapshot.updated \in Nat
      /\ snapshot.task.slot \in Slots \cup {NoSlot}
  BY DEF Snapshot, Task
<1>2. AnySlot \notin Slots \cup {NoSlot}  BY SlotCountAssumption DEF AnySlot, NoSlot, Slots
<1>3. RecoveryOf(snapshot) \in Recovery  BY <1>1 DEF RecoveryOf, Recovery, Task
<1>4. Shown(RecoveryOf(snapshot)) = Shown(snapshot.task)  BY DEF RecoveryOf, Shown
<1> QED BY <1>1, <1>2, <1>3, <1>4, NoneIsNoCache DEF RecoverySlot

\* A host registers a task that its own process, or a client, comes back with.
LEMMA RegistersAgain ==
  ASSUME TypeOK, Caches, Kin, OwnIsLatest, NEW w \in Alive, ~Hosts(w), NEW own \in Snapshot,
         own = Cached(w),
         \/ Registrations!RegisterFirst(w, RecoverySlot(own), RecoveryOf(own), own.updated, Now(w))
         \/ Registrations!ReRegister(w, RecoverySlot(own), RecoveryOf(own), own.updated, Now(w))
  PROVE  /\ Sound(reg') /\ updated' \in [Wrappers -> Stamps] /\ Alone(w)
         /\ w \in Registered(reg') /\ reg'.tasks[w].conn = "connected"
         /\ Renewed(w) \/ (OneHome => Freshened(w))
<1>0. w \in Wrappers /\ Cached(w) # None  BY NoneIsNoCache DEF Alive
<1>1. /\ RecoverySlot(own) \in {AnySlot, NoSlot} \cup Slots /\ RecoverySlot(own) # AnySlot
      /\ RecoverySlot(own) = own.task.slot
      /\ RecoveryOf(own) \in Recovery /\ RecoveryOf(own) # None
      /\ Shown(RecoveryOf(own)) = Shown(own.task)
      /\ own.updated \in Nat
  BY RecoveryTyped
<1>2. Now(w) \in Nat  BY <1>0, NowIsFresh
<1>3. CASE Registrations!RegisterFirst(w, RecoverySlot(own), RecoveryOf(own), own.updated, Now(w))
  <2>1. /\ Sound(reg') /\ updated' \in [Wrappers -> Stamps]
        /\ Alone(w) /\ w \in Registered(reg')
        /\ reg'.tasks[w].conn = "connected"
        /\ reg'.tasks[w].slot = own.task.slot
        /\ Shown(reg'.tasks[w]) = Shown(own.task)
        /\ updated'[w] = own.updated \/ updated'[w] >= Now(w)
    BY <1>0, <1>1, <1>2, <1>3, RegisterFirstWrites
  <2> QED BY <1>0, <2>1 DEF Renewed
<1>4. CASE Registrations!ReRegister(w, RecoverySlot(own), RecoveryOf(own), own.updated, Now(w))
  <2>1. /\ Sound(reg') /\ updated' \in [Wrappers -> Stamps]
        /\ Alone(w) /\ w \in Registered(reg) /\ w \in Registered(reg')
        /\ reg'.tasks[w].conn = "connected" /\ updated'[w] >= Now(w)
        /\ reg'.tasks[w].slot = own.task.slot
        /\ Shown(reg'.tasks[w]) = IF own.updated > updated[w] THEN Shown(own.task)
                                                              ELSE Shown(reg.tasks[w])
    BY <1>0, <1>1, <1>2, <1>4, ReRegisterWrites
  <2>2. CASE own.updated > updated[w]  BY <1>0, <2>1, <2>2 DEF Renewed
  <2>3. CASE ~(own.updated > updated[w])
    <3>1. updated[w] >= Cached(w).updated
      BY <1>0, <1>1, <2>3 DEF TypeOK
    <3>2. ASSUME OneHome PROVE reg.tasks[w].slot = own.task.slot
      <4>1. PICK home \in [Wrappers -> Slots \cup {NoSlot}] : HomeIs(home)
        BY <3>2 DEF OneHome
      <4>2. Cached(w).task.slot = home[w]  BY <1>0, <4>1, OwnIsAtHome
      <4> QED BY <2>1, <4>1, <4>2 DEF HomeIs, At
    <3> QED BY <2>1, <2>3, <3>1, <3>2 DEF Freshened
  <2> QED BY <2>1, <2>2, <2>3
<1> QED BY <1>3, <1>4

\* The seed of a promoted process: what its cache has, without the process that
\* hosted, each task in its slot and waiting for its wrapper.
SeedsFrom(q, r, gone, w) ==
  /\ gone \notin Registered(q)
  /\ \A v \in Wrappers \ {gone} :
       /\ v \in Registered(q) <=> v \in Registered(r)
       /\ v \in Registered(q) => /\ q.tasks[v].slot = r.tasks[v].slot
                                 /\ Shown(q.tasks[v]) = Shown(r.tasks[v])
                                 /\ v # w => q.tasks[v].conn = "reconnecting"

LEMMA SeedHas ==
  ASSUME NEW r, Sound(r), NEW w \in Wrappers, NEW gone \in Wrappers,
         NEW q, q = Restore(WithoutProcess(r, gone), w)
  PROVE  Sound(q) /\ SeedsFrom(q, r, gone, w)
<1> DEFINE seed == WithoutProcess(r, gone)
<1>0. r \in Registry /\ r.tasks \in [Wrappers -> Task \cup {None}]  BY DEF Sound, Registry
<1>1. Sound(seed) /\ Sound(q)  BY WithoutProcessSound, RestoreSound
<1>2. seed.tasks = [r.tasks EXCEPT ![gone] = None]
  BY <1>0 DEF WithoutProcess, SetTask, Registry
<1>3. seed.tasks \in [Wrappers -> Task \cup {None}]  BY <1>0, <1>2
<1> HIDE DEF seed
<1>4. q.tasks = [v \in Wrappers |->
                   IF seed.tasks[v] = None THEN None
                   ELSE [seed.tasks[v] EXCEPT
                           !.conn = IF v = w THEN "connected" ELSE "reconnecting"]]
  BY DEF Restore, seed
<1>5. q.tasks[gone] = None  BY <1>0, <1>2, <1>4
<1>6. ASSUME NEW v \in Wrappers \ {gone}
      PROVE  /\ v \in Registered(q) <=> v \in Registered(r)
             /\ v \in Registered(q) => /\ q.tasks[v].slot = r.tasks[v].slot
                                       /\ Shown(q.tasks[v]) = Shown(r.tasks[v])
                                       /\ v # w => q.tasks[v].conn = "reconnecting"
  <2>1. seed.tasks[v] = r.tasks[v]  BY <1>0, <1>2
  <2> DEFINE conn == IF v = w THEN "connected" ELSE "reconnecting"
             task == [r.tasks[v] EXCEPT !.conn = conn]
  <2>2. CASE r.tasks[v] = None
    BY <1>4, <2>1, <2>2 DEF Registered
  <2>3. CASE r.tasks[v] # None
    <3>1. r.tasks[v] \in Task  BY <1>0, <2>3
    <3>2. q.tasks[v] = task  BY <1>4, <2>1, <2>3
    <3>3. conn \in {"connected", "reconnecting"} /\ (v # w => conn = "reconnecting")  OBVIOUS
    <3> HIDE DEF conn
    <3>4. task \in Task /\ task.slot = r.tasks[v].slot /\ task.conn = conn
          /\ Shown(task) = Shown(r.tasks[v])
      BY <3>1, <3>3 DEF Task, Shown
    <3> HIDE DEF task
    <3>5. v \in Registered(q) /\ v \in Registered(r)
      BY <2>3, <3>2, <3>4, NoneIsNoTask DEF Registered
    <3> QED BY <3>2, <3>3, <3>4, <3>5
  <2> QED BY <2>2, <2>3
<1> QED BY <1>1, <1>5, <1>6 DEF Registered, SeedsFrom

\* A promotion renews the new host's own task, and restores what else it knows.
LEMMA PromoteEffects ==
  ASSUME TypeOK, Caches, Kin, NEW w \in Alive, ~Hosts(w), last[w] # None, Promote(w)
  PROVE  /\ Sound(reg') /\ updated' \in [Wrappers -> Stamps]
         /\ w \in Registered(reg') /\ reg'.tasks[w].conn = "connected"
         /\ Renewed(w)
         /\ \A v \in Wrappers \ {w} : Dropped(v) \/ Restored(v)
         /\ \A v \in Wrappers : Unknown(v) => v \notin Registered(reg')
<1> DEFINE r        == last[w].reg
           gone     == served[w]
           restored == Restore(Seed(w), w)
           own      == SnapshotOf(restored, last[w].updated, w)
<1>0. w \in Wrappers  BY DEF Alive
<1>1. /\ Sound(r) /\ last[w].updated \in [Wrappers -> Stamps]
      /\ w \in Registered(r) /\ Cached(w).task = r.tasks[w] /\ Cached(w) # None
      /\ gone \in Wrappers \ {w}
  <2>1. SoundStatus(last[w])  BY <1>0 DEF Caches
  <2>2. w \in Registered(r) /\ Cached(w) = SnapshotOf(r, last[w].updated, w)
        /\ Cached(w).task = r.tasks[w]
    BY <1>0, CachedCases
  <2>3. Cached(w) # None  BY <2>1, <2>2, SnapshotTyped DEF SoundStatus, Sound
  <2>4. gone # None /\ gone # w  BY <1>0, <2>3 DEF Kin
  <2>5. gone \in Wrappers  BY <1>0, <2>4 DEF TypeOK
  <2> QED BY <2>1, <2>2, <2>3, <2>4, <2>5 DEF SoundStatus
<1>2. /\ reg' = Register(restored, w, RecoverySlot(own), RecoveryOf(own), FALSE)
      /\ updated' = [v \in Wrappers |-> CASE v = w                     -> Now(w)
                                          [] v \notin Registered(reg') -> 0
                                          [] OTHER                     -> last[w].updated[v]]
      /\ Now(w) <= MaxStamp
  BY DEF Promote
<1>3. restored = Restore(WithoutProcess(r, gone), w)  BY DEF Seed
<1> HIDE DEF restored, r, gone
<1>4. /\ Sound(restored) /\ gone \notin Registered(restored)
      /\ \A v \in Wrappers \ {gone} :
           /\ v \in Registered(restored) <=> v \in Registered(r)
           /\ v \in Registered(restored) => /\ restored.tasks[v].slot = r.tasks[v].slot
                                            /\ Shown(restored.tasks[v]) = Shown(r.tasks[v])
                                            /\ v # w => restored.tasks[v].conn = "reconnecting"
  <2>1. Sound(r) /\ gone \in Wrappers  BY <1>1
  <2>2. Sound(restored) /\ SeedsFrom(restored, r, gone, w)  BY <1>0, <1>3, <2>1, SeedHas
  <2> QED BY <2>2 DEF SeedsFrom
<1>5. w \in Registered(restored)  BY <1>0, <1>1, <1>4
<1>6. own \in Snapshot /\ own.task = restored.tasks[w]
  BY <1>1, <1>4, <1>5, SnapshotTyped, MineIs DEF Sound
<1> HIDE DEF own
<1>7. /\ RecoverySlot(own) \in {AnySlot, NoSlot} \cup Slots /\ RecoverySlot(own) # AnySlot
      /\ RecoverySlot(own) = restored.tasks[w].slot
      /\ RecoveryOf(own) \in Recovery
  BY <1>6, RecoveryTyped
<1>8. SlotGranted(restored, w, RecoverySlot(own))
  BY <1>4, <1>5, <1>7 DEF SlotGranted, TaskAtSlot, Sound, SlotsUnshared
<1>9. PICK newer \in BOOLEAN : newer = FALSE  OBVIOUS
<1>10. reg' = Register(restored, w, RecoverySlot(own), RecoveryOf(own), newer)  BY <1>2, <1>9
<1>11. RecoverySlot(own) = NoSlot => restored.tasks[w].slot = NoSlot  BY <1>7
<1>12. /\ Sound(reg') /\ w \in Registered(reg') /\ reg'.tasks[w].conn = "connected"
       /\ \A v \in Wrappers \ {w} : reg'.tasks[v] = restored.tasks[v]
       /\ reg'.tasks[w].slot = restored.tasks[w].slot
       /\ Shown(reg'.tasks[w]) = Shown(restored.tasks[w])
  <2>1. /\ Sound(reg') /\ w \in Registered(reg') /\ reg'.tasks[w].conn = "connected"
        /\ \A v \in Wrappers \ {w} : reg'.tasks[v] = restored.tasks[v]
        /\ RecoverySlot(own) # AnySlot => reg'.tasks[w].slot = RecoverySlot(own)
        /\ w \in Registered(restored) /\ ~(RecoveryOf(own) # None /\ newer)
             => Shown(reg'.tasks[w]) = Shown(restored.tasks[w])
    BY <1>0, <1>4, <1>7, <1>8, <1>10, <1>11, RegisterWrites
  <2> QED BY <1>5, <1>7, <1>9, <2>1
<1>13. Now(w) \in Stamps /\ 0 \in Stamps
  BY <1>0, <1>2, NowIsFresh, StampsAssumption DEF Stamps
<1>14. /\ updated' \in [Wrappers -> Stamps] /\ updated'[w] = Now(w)
       /\ \A v \in Wrappers \ {w} : v \in Registered(reg') => updated'[v] = last[w].updated[v]
  <2>1. ASSUME NEW v \in Wrappers \ {w}
        PROVE  updated'[v] = IF v \in Registered(reg') THEN last[w].updated[v] ELSE 0
    BY <1>2
  <2>2. updated'[w] = Now(w)  BY <1>0, <1>2, <1>12
  <2>3. \A v \in Wrappers : updated'[v] \in Stamps  BY <1>1, <1>13, <2>1, <2>2
  <2>4. \E f : updated' = [v \in Wrappers |-> f[v]]
    <3>1. updated' = [v \in Wrappers |-> updated'[v]]  BY <1>2
    <3> QED BY <3>1
  <2>5. updated' \in [Wrappers -> Stamps]  BY <2>3, <2>4
  <2> QED BY <2>1, <2>2, <2>5
<1>15. Renewed(w)
  <2>1. Now(w) \in Nat  BY <1>0, NowIsFresh
  <2>2. reg'.tasks[w].slot = r.tasks[w].slot /\ Shown(reg'.tasks[w]) = Shown(r.tasks[w])
    BY <1>0, <1>1, <1>4, <1>5, <1>12
  <2> QED BY <1>1, <1>12, <1>14, <2>1, <2>2 DEF Renewed
<1>16. ASSUME NEW v \in Wrappers \ {w}, v \in Registered(reg') PROVE Restored(v)
  <2>1. reg'.tasks[v] = restored.tasks[v] /\ v \in Registered(restored)
    BY <1>12, <1>16 DEF Registered
  <2>2. v # gone  BY <1>4, <2>1
  <2>3. /\ v \in Registered(r) /\ reg'.tasks[v].slot = r.tasks[v].slot
        /\ Shown(reg'.tasks[v]) = Shown(r.tasks[v]) /\ reg'.tasks[v].conn = "reconnecting"
    BY <1>4, <2>1, <2>2
  <2> QED BY <1>14, <1>16, <2>3 DEF Restored, r
<1>17. ASSUME NEW v \in Wrappers, Unknown(v) PROVE v \notin Registered(reg')
  <2>1. v \notin Registered(r)  BY <1>0, <1>17 DEF Unknown, r
  <2>2. v # w  BY <1>1, <2>1
  <2>3. v \notin Registered(restored)  BY <1>4, <2>1, <2>2
  <2> QED BY <1>12, <2>2, <2>3 DEF Registered
<1> QED BY <1>12, <1>14, <1>15, <1>16, <1>17 DEF Dropped

\* Nothing but its own first registration makes a task known.
LEMMA AloneMakesUnknown ==
  ASSUME NEW w \in Wrappers, Alone(w)
  PROVE  \A v \in Wrappers \ {w} : Unknown(v) => v \notin Registered(reg')
BY DEF Alone, Same, Unknown, Registered

\* The host publishes the registry it starts with.
LEMMA Publishes ==
  ASSUME Inv, NEW w \in Wrappers, Publish(w)
  PROVE  /\ Inv' /\ QuietStep
         /\ w \in Registered(reg') /\ reg'.tasks[w].conn = "connected"
         /\ last[w] = None => Alone(w)
<1>0. /\ pc[w] = "starting" /\ serving' = TRUE
      /\ pc' = [pc EXCEPT ![w] = "hosting"]
      /\ UNCHANGED <<host, held, last, first, served, touched, behind>>
      /\ settled' \in Registry \cup {None}
  BY ForgetsTyped DEF Publish, Goes, clientVars, Inv
<1>1. /\ w \in Alive /\ host = w /\ held = NoneHeld /\ reg = EmptyRegistry
      /\ \A v \in Wrappers \ {w} : pc'[v] = pc[v]
      /\ pc'[w] = "hosting"
  BY <1>0 DEF Inv, TypeOK, Alive, Placed, InLease, Seeded
<1>2. /\ Sound(reg') /\ updated' \in [Wrappers -> Stamps]
      /\ \A v \in Wrappers : Keeps(v)
      /\ \A v \in Wrappers \ {w} : Unknown(v) => v \notin Registered(reg')
      /\ w \in Registered(reg') /\ reg'.tasks[w].conn = "connected"
      /\ last[w] = None => Alone(w)
  <2>1. CASE last[w] # None /\ Promote(w)
    <3>1. /\ Sound(reg') /\ updated' \in [Wrappers -> Stamps] /\ Renewed(w)
          /\ w \in Registered(reg') /\ reg'.tasks[w].conn = "connected"
          /\ \A v \in Wrappers \ {w} : Dropped(v) \/ Restored(v)
          /\ \A v \in Wrappers : Unknown(v) => v \notin Registered(reg')
      BY <1>0, <1>1, <2>1, PromoteEffects DEF Inv, Hosts
    <3> QED BY <2>1, <3>1 DEF Keeps
  <2>2. CASE /\ last[w] = None /\ first[w] # None
             /\ Registrations!RegisterFirst(w, RecoverySlot(first[w]), RecoveryOf(first[w]),
                                            first[w].updated, Now(w))
    <3>1. PICK own \in Snapshot : own = first[w]  BY <2>2 DEF Inv, TypeOK
    <3>2. own = Cached(w)  BY <2>2, <3>1 DEF Cached
    <3>3. /\ Sound(reg') /\ updated' \in [Wrappers -> Stamps] /\ Alone(w)
          /\ w \in Registered(reg') /\ reg'.tasks[w].conn = "connected"
          /\ Renewed(w) \/ (OneHome => Freshened(w))
      BY <1>0, <1>1, <2>2, <3>1, <3>2, RegistersAgain DEF Inv, Hosts
    <3>4. \A v \in Wrappers : Keeps(v)  BY <3>3 DEF Inv, Alone, Keeps
    <3> QED BY <3>3, <3>4, AloneMakesUnknown
  <2>3. CASE /\ last[w] = None /\ first[w] = None
             /\ \E want \in Wants : Registrations!RegisterFirst(w, want, None, 0, Now(w))
    <3>1. PICK want \in Wants : Registrations!RegisterFirst(w, want, None, 0, Now(w))
      BY <2>3
    <3>2. /\ want \in {AnySlot, NoSlot} \cup Slots /\ Now(w) \in Nat
          /\ None \in Recovery \cup {None} /\ 0 \in Nat
      BY WantsAssumption, NowIsFresh DEF Inv
    <3>3. /\ Sound(reg') /\ updated' \in [Wrappers -> Stamps] /\ Alone(w)
          /\ w \in Registered(reg') /\ reg'.tasks[w].conn = "connected"
      BY <3>1, <3>2, RegisterFirstWrites DEF Inv
    <3>4. Cached(w) = None  BY <2>3 DEF Cached
    <3>5. Unknown(w)  BY <1>0, <3>4 DEF Inv, Kin
    <3>6. \A v \in Wrappers : Keeps(v)
      BY <1>0, <1>1, <2>3, <3>3, <3>4, <3>5 DEF Arrives, Hosts, Alone, Keeps
    <3> QED BY <3>3, <3>6, AloneMakesUnknown
  <2> QED BY <2>1, <2>2, <2>3 DEF Publish
<1>3. QuietStep
  <2>1. \A v \in Alive' : v \in Alive  BY <1>0, <1>1 DEF Alive
  <2> QED BY <1>0, <1>2, <2>1 DEF QuietStep, TaskStep, Effect, FirstKept
<1>4. /\ Caches' /\ OneHome' /\ OwnIsLatest'
      /\ reg' \in Registry /\ updated' \in [Wrappers -> Nat]
  BY <1>3, TaskStepKeeps DEF Inv, QuietStep
<1>5. TypeOK'
  <2>1. pc' \in [Wrappers -> Steps]  BY <1>0 DEF Inv, TypeOK, Steps
  <2> QED BY <1>0, <1>4, <2>1 DEF Inv, TypeOK
<1>6. Kin'
  <2>1. \A v \in Wrappers : /\ pc'[v] \in New => pc[v] \in New
                            /\ pc'[v] \in Met => served[v] # None
                            /\ pc'[v] \in New \cup {"starting"} /\ served[v] = None
                                 => v # w /\ pc[v] \in New \cup {"starting"}
    BY <1>1 DEF Inv, Kin, New, Met
  <2> QED BY <1>0, <1>2, <2>1, KinStep DEF Inv
<1>7. Placed'
  <2>1. \A v \in Wrappers : host' = v <=> pc'[v] \in InLease
    BY <1>0, <1>1 DEF Inv, Placed, InLease
  <2>2. host' # None  BY <1>0, <1>1, NoneAssumption
  <2>3. \A v \in Wrappers : held'[v] = "none"  BY <1>0, <1>1 DEF NoneHeld
  <2> QED BY <1>0, <1>1, <2>1, <2>2, <2>3 DEF Placed, Seeded
<1> QED BY <1>2, <1>3, <1>4, <1>5, <1>6, <1>7 DEF Inv

\* A host grants a registration, and its client learns of it or not.
Learns(w) ==
  /\ pc' = [pc EXCEPT ![w] = "pending"]
  /\ served' = [served EXCEPT ![w] = host]
  /\ first' = [first EXCEPT ![w] = IF last[w] = None THEN SnapshotOf(reg', updated', w) ELSE @]

LEMMA Registers ==
  ASSUME Inv, NEW w \in Wrappers, pc[w] \in {"joining", "rejoining"}, serving,
         Sound(reg'), updated' \in [Wrappers -> Stamps], Alone(w),
         w \in Registered(reg'), reg'.tasks[w].conn = "connected",
         Arrives(w) \/ Renewed(w) \/ Freshened(w),
         held' = [held EXCEPT ![w] = "pending"],
         UNCHANGED <<host, serving, last, ghostVars>>,
         Learns(w) \/ (pc[w] = "rejoining" /\ UNCHANGED <<pc, first, served>>)
  PROVE  Inv' /\ QuietStep
<1> USE DEF ghostVars
<1>1. host # w /\ host \in Wrappers /\ Seeded
  BY DEF Inv, Placed, InLease, TypeOK, Seeded
<1>2. /\ held' \in [Wrappers -> {"none", "pending", "open"}]
      /\ \A v \in Wrappers \ {w} : held'[v] = held[v]
  BY DEF Inv, TypeOK
<1>3. /\ pc' \in [Wrappers -> Steps] /\ pc'[w] \in {"pending", "rejoining"}
      /\ served' \in [Wrappers -> Wrappers \cup {None}]
      /\ \A v \in Wrappers \ {w} : /\ pc'[v] = pc[v] /\ served'[v] = served[v]
                                   /\ first'[v] = first[v]
  BY <1>1 DEF Inv, TypeOK, Steps, Learns
<1>4. /\ SnapshotOf(reg', updated', w) \in Snapshot
      /\ SnapshotOf(reg', updated', w) # None
  <2>1. reg' \in Registry  BY DEF Sound
  <2> QED BY <2>1, SnapshotTyped
<1>5. FirstKept(w) \/ (Learns(w) /\ FirstTaken(w))
  BY DEF FirstKept, FirstTaken, Learns, Inv, TypeOK
<1>6. QuietStep
  <2>1. \A v \in Alive' : v \in Alive  BY <1>3 DEF Alive
  <2>2. \A v \in Wrappers \ {w} : Keeps(v) /\ FirstKept(v)
    BY <1>3 DEF Alone, Keeps, FirstKept
  <2>3. Keeps(w)  BY DEF Keeps
  <2> QED BY <1>5, <2>1, <2>2, <2>3 DEF QuietStep, TaskStep, Effect
<1>7. /\ Caches' /\ OneHome' /\ OwnIsLatest'
      /\ reg' \in Registry /\ updated' \in [Wrappers -> Nat]
  BY <1>6, TaskStepKeeps DEF Inv, QuietStep
<1>8. TypeOK'
  <2>1. first' \in [Wrappers -> Snapshot \cup {None}]
    BY <1>4 DEF Inv, TypeOK, Learns
  <2> QED BY <1>2, <1>3, <1>7, <2>1 DEF Inv, TypeOK
<1>9. Kin'
  <2>1. \A v \in Wrappers \ {w} : /\ Cached(v)' = Cached(v) /\ last'[v] = last[v]
                                  /\ first'[v] = first[v] /\ served'[v] = served[v]
                                  /\ pc'[v] = pc[v]
    BY <1>3 DEF Cached
  <2>2. \A v \in Wrappers \ {w} : Unknown(v) => Unknown(v)'
    BY AloneMakesUnknown DEF Unknown
  <2>3. CASE Learns(w)
    <3>1. served'[w] = host /\ pc'[w] = "pending"  BY <2>3 DEF Learns, Inv, TypeOK
    <3>2. last[w] # None => first'[w] = None /\ w \in Registered(last[w].reg)
      BY <2>3 DEF Learns, Inv, TypeOK, Kin
    <3>3. Cached(w)' # None
      <4>1. CASE last[w] = None
        <5>1. first'[w] = SnapshotOf(reg', updated', w)  BY <2>3, <4>1 DEF Learns, Inv, TypeOK
        <5>2. Cached(w)' = first'[w]  BY <4>1 DEF Cached
        <5> QED BY <1>4, <5>1, <5>2
      <4>2. CASE last[w] # None
        <5>1. Cached(w)' = Cached(w)  BY <3>2, <4>2 DEF Cached
        <5>2. Cached(w) \in Snapshot
          BY <4>2, CachedCases, SnapshotTyped DEF Inv, Caches, SoundStatus, Sound
        <5> QED BY <5>1, <5>2, NoneIsNoCache
      <4> QED BY <4>1, <4>2
    <3>4. host # None /\ host # w  BY <1>1, NoneAssumption
    <3> QED BY <2>1, <2>2, <3>1, <3>2, <3>3, <3>4 DEF Inv, Kin
  <2>4. CASE pc[w] = "rejoining" /\ UNCHANGED <<pc, first, served>>
    <3>1. \A v \in Wrappers :
            /\ pc'[v] \in New => pc[v] \in New
            /\ pc'[v] \in Met => served[v] # None
            /\ pc'[v] \in New \cup {"starting"} /\ served[v] = None
                 => v # w /\ pc[v] \in New \cup {"starting"}
      BY <2>4 DEF Inv, Kin, New, Met
    <3> QED BY <2>4, <3>1, KinStep, AloneMakesUnknown DEF Inv
  <2> QED BY <2>3, <2>4
<1>10. Placed'
  <2>1. \A v \in Wrappers : host' = v <=> pc'[v] \in InLease
    BY <1>1, <1>3 DEF Inv, Placed, InLease
  <2>2. pc'[host] = pc[host]  BY <1>1, <1>3
  <2>3. Seeded' /\ (serving' => host' # None /\ pc'[host'] = "hosting")
    BY <1>1, <2>2 DEF Inv, Placed, Seeded
  <2>4. ASSUME NEW v \in Wrappers, held'[v] # "none"
        PROVE  v \in Registered(reg') /\ reg'.tasks[v].conn = "connected"
    <3>1. CASE v = w  BY <3>1
    <3>2. CASE v # w
      <4>1. held[v] # "none" /\ reg'.tasks[v] = reg.tasks[v]  BY <1>2, <2>4, <3>2 DEF Alone, Same
      <4> QED BY <4>1 DEF Inv, Placed, Registered
    <3> QED BY <3>1, <3>2
  <2> QED BY <2>1, <2>3, <2>4 DEF Placed
<1> QED BY <1>6, <1>7, <1>8, <1>9, <1>10 DEF Inv

LEMMA Joins ==
  ASSUME Inv, NEW w \in Wrappers, NEW want \in Wants, Join(w, want)
  PROVE  Inv' /\ QuietStep
<1>1. /\ pc[w] = "joining" /\ serving
      /\ Registrations!RegisterFirst(w, want, None, 0, Now(w))
      /\ held' = [held EXCEPT ![w] = "pending"]
      /\ UNCHANGED <<host, serving, last, ghostVars>>
  BY DEF Join, Granted
<1>2. /\ want \in {AnySlot, NoSlot} \cup Slots /\ Now(w) \in Nat
      /\ None \in Recovery \cup {None} /\ 0 \in Nat
  BY WantsAssumption, NowIsFresh DEF Inv
<1>3. /\ Sound(reg') /\ updated' \in [Wrappers -> Stamps] /\ Alone(w)
      /\ w \in Registered(reg') /\ reg'.tasks[w].conn = "connected"
  BY <1>1, <1>2, RegisterFirstWrites DEF Inv
<1>4. Cached(w) = None /\ Unknown(w)  BY <1>1 DEF Inv, Kin
<1>5. last[w] = None
  BY <1>4, CachedCases, SnapshotTyped DEF Inv, Caches, SoundStatus, Sound
<1>6. Arrives(w)
  BY <1>1, <1>3, <1>4, <1>5 DEF Arrives, Cached, Alive, Hosts
<1>7. Learns(w)  BY <1>5 DEF Learns, Join, Goes, Inv, TypeOK
<1> QED BY <1>1, <1>3, <1>6, <1>7, Registers

LEMMA Reregisters ==
  ASSUME Inv, NEW w \in Wrappers, Reregister(w),
         UNCHANGED <<last, ghostVars>>,
         Learns(w) \/ UNCHANGED <<pc, first, served>>
  PROVE  Inv' /\ QuietStep
<1>1. /\ pc[w] = "rejoining" /\ serving
      /\ \/ Registrations!RegisterFirst(w, RecoverySlot(Cached(w)), RecoveryOf(Cached(w)),
                                        Cached(w).updated, Now(w))
         \/ Registrations!ReRegister(w, RecoverySlot(Cached(w)), RecoveryOf(Cached(w)),
                                     Cached(w).updated, Now(w))
      /\ held' = [held EXCEPT ![w] = "pending"]
      /\ UNCHANGED <<host, serving>>
  BY DEF Reregister, Granted
<1>2. w \in Alive /\ ~Hosts(w)  BY <1>1 DEF Alive, Hosts
<1>3. PICK own \in Snapshot : own = Cached(w)
  <2>1. Cached(w) # None  BY <1>1 DEF Inv, Kin
  <2> QED BY <2>1, CachedCases DEF Inv
<1>4. /\ Sound(reg') /\ updated' \in [Wrappers -> Stamps] /\ Alone(w)
      /\ w \in Registered(reg') /\ reg'.tasks[w].conn = "connected"
      /\ Renewed(w) \/ (OneHome => Freshened(w))
  BY <1>1, <1>2, <1>3, RegistersAgain DEF Inv
<1>5. Renewed(w) \/ Freshened(w)  BY <1>4 DEF Inv
<1> QED BY <1>1, <1>4, <1>5, Registers

-----------------------------------------------------------------------------
(***************************************************************************)
(* Every step.                                                             *)
(***************************************************************************)
LEMMA InitInv == Init => Inv
<1> SUFFICES ASSUME Init PROVE Inv
  OBVIOUS
<1>0. /\ EmptyRegistry \in Registry /\ Sound(EmptyRegistry)
      /\ NoStamps \in [Wrappers -> Stamps] /\ NoStamps \in [Wrappers -> Nat]
      /\ Registered(EmptyRegistry) = {}
  BY StampsAssumption DEF EmptyRegistry, Sound, Registry, SlotsUnshared, SelectionInSlot,
                          Registered, NoStamps, Stamps
<1>1. TypeOK  BY <1>0 DEF Init, TypeOK, NoneHeld, Steps
<1>2. Caches  BY <1>0 DEF Init, Caches
<1>3. Placed  BY NoneAssumption DEF Init, Placed, Seeded, InLease, NoneHeld
<1>4. Kin  BY <1>0, NoneAssumption DEF Init, Kin, Cached, Unknown
<1>5. OneHome
  <2>1. [w \in Wrappers |-> NoSlot] \in [Wrappers -> Slots \cup {NoSlot}]  OBVIOUS
  <2>2. PICK home \in [Wrappers -> Slots \cup {NoSlot}] : home = [w \in Wrappers |-> NoSlot]
    BY <2>1
  <2>3. HomeIs(home)  BY <1>0 DEF Init, HomeIs, At
  <2> QED BY <2>3 DEF OneHome
<1>6. OwnIsLatest
  <2> SUFFICES ASSUME NEW w \in Wrappers
               PROVE  Copies(w) = {} /\ Cached(w) = None
    BY DEF OwnIsLatest, Distinct
  <2>1. Unknown(w) /\ first[w] = None /\ last[w] = None  BY <1>0 DEF Init, Unknown
  <2> QED BY <2>1, UnknownHasNoCopies DEF Cached
<1> QED BY <1>1, <1>2, <1>3, <1>4, <1>5, <1>6 DEF Inv

LEMMA StutterInv == Inv /\ UNCHANGED vars => Inv'
<1> SUFFICES ASSUME Inv, UNCHANGED vars PROVE Inv'
  OBVIOUS
<1> USE DEF vars, registryVars, hostVars, clientVars, ghostVars
<1>1. TypeOK' /\ Caches' /\ Placed'  BY DEF Inv, TypeOK, Caches, Placed, Seeded
<1>2. /\ \A w \in Wrappers : Cached(w)' = Cached(w) /\ Unknown(w)' = Unknown(w)
      /\ \A w \in Wrappers : Copies(w)' = Copies(w)
  BY DEF Cached, Unknown, Copies, Alive
<1>3. Kin' /\ OwnIsLatest'  BY <1>2 DEF Inv, Kin, OwnIsLatest
<1>4. OneHome'  BY DEF Inv, OneHome, HomeIs, At
<1> QED BY <1>1, <1>3, <1>4 DEF Inv

\* A task that is removed while no process moves.
LEMMA TimerRemoves ==
  ASSUME Inv, NEW w \in Wrappers, RemoveTask(w),
         Forgets,
         UNCHANGED <<host, serving, pc, clientVars, touched, behind>>
  PROVE  Inv' /\ QuietStep
<1>1. pc[w] \in Steps /\ pc' = [pc EXCEPT ![w] = pc[w]]  BY DEF Inv, TypeOK
<1> QED BY <1>1, RemovesTask, ForgetsTyped DEF Inv

\* Every step but a status keeps what is shown, or nothing was agreed on.
Moves == QuietStep \/ settled' = None \/ \E w \in Wrappers : Deliver(w)

LEMMA NextSteps == Inv /\ Next => Inv' /\ Moves
<1> SUFFICES ASSUME Inv, Next PROVE Inv' /\ Moves
  OBVIOUS
<1> USE DEF Moves
<1>1. ASSUME NEW w \in Wrappers, Start(w) \/ Recover(w) PROVE Inv' /\ Moves
  <2>1. PICK other \in {"joining", "rejoining"} :
          /\ ListenRuntime(w, other)
          /\ other = "joining" => pc[w] = "out"
          /\ other = "rejoining" => pc[w] = "lost"
    BY <1>1 DEF Start, Recover
  <2>2. CASE host = None
    <3>1. pc[w] \in {"out", "lost"}  BY <2>1
    <3> QED BY <2>1, <2>2, <3>1, WinsLease DEF ListenRuntime, Goes
  <2>3. CASE host # None
    <3>1. other \in Steps /\ pc' = [pc EXCEPT ![w] = other]
      BY <2>1, <2>3 DEF ListenRuntime, Goes, Steps
    <3>2. UNCHANGED <<registryVars, hostVars, clientVars, ghostVars>>
      BY <2>1, <2>3 DEF ListenRuntime, hostVars
    <3>3. other \in Met => served[w] # None  BY <2>1 DEF Met, Inv, Kin
    <3>4. /\ pc[w] \notin InLease /\ pc[w] # "gone" /\ other \notin InLease
          /\ other \notin {"out", "starting"}
      BY <2>1 DEF InLease
    <3> QED BY <2>1, <3>1, <3>2, <3>3, <3>4, MovesOn
  <2> QED BY <2>2, <2>3
<1>2. ASSUME NEW w \in Wrappers, Publish(w) PROVE Inv' /\ Moves
  BY <1>2, Publishes
<1>3. ASSUME NEW w \in Wrappers, Closed(w) PROVE Inv' /\ Moves
  <2>1. host = w  BY <1>3 DEF Closed, Inv, Placed, InLease
  <2>2. PICK step \in {"lost", "gone"} : /\ pc' = [pc EXCEPT ![w] = step]
                                         /\ step = "lost" => pc[w] = "failing"
    BY <1>3 DEF Closed, Goes
  <2> QED BY <1>3, <2>1, <2>2, HostEnds DEF Closed
<1>4. ASSUME NEW w \in Wrappers, \E want \in Wants : Join(w, want) PROVE Inv' /\ Moves
  BY <1>4, Joins
<1>5. ASSUME NEW w \in Wrappers, Rejoin(w) PROVE Inv' /\ Moves
  <2>1. Learns(w) /\ UNCHANGED <<last, ghostVars>> /\ Reregister(w)
    BY <1>5 DEF Rejoin, Learns, Goes, Reregister
  <2> QED BY <2>1, Reregisters
<1>6. ASSUME NEW w \in Wrappers, RejoinUnanswered(w) PROVE Inv' /\ Moves
  <2>1. Reregister(w) /\ UNCHANGED <<last, ghostVars>> /\ UNCHANGED <<pc, first, served>>
    BY <1>6 DEF RejoinUnanswered, clientVars
  <2> QED BY <2>1, Reregisters
<1>7. ASSUME NEW w \in Wrappers,
             GiveUp(w) \/ StreamEnds(w) \/ StreamBreaks(w) \/ (Connect(w) /\ ~Attachable(w))
      PROVE  Inv' /\ Moves
  <2>1. /\ pc[w] \in {"rejoining", "streaming", "pending"}
        /\ pc' = [pc EXCEPT ![w] = "lost"]
        /\ UNCHANGED <<registryVars, hostVars, clientVars, ghostVars>>
    BY <1>7 DEF GiveUp, StreamEnds, StreamBreaks, Connect, Goes, hostVars
  <2>2. served[w] # None  BY <2>1 DEF Inv, Kin
  <2>3. pc[w] \notin InLease /\ "lost" \notin InLease  BY <2>1 DEF InLease
  <2>4. PICK step \in Steps : step = "lost"  BY DEF Steps
  <2> QED BY <2>1, <2>2, <2>3, <2>4, MovesOn
<1>8. ASSUME NEW w \in Wrappers, Connect(w), Attachable(w) PROVE Inv' /\ Moves
  BY <1>8, Opens DEF Connect, Goes
<1>9. ASSUME NEW w \in Wrappers, Deliver(w) PROVE Inv' /\ Moves
  BY <1>9, Delivers
<1>10. ASSUME NEW w \in Wrappers, SocketClosed(w) PROVE Inv' /\ Moves
  <2>1. /\ serving /\ held[w] = "open"
        /\ Registrations!SetConnection(w, "reconnecting", Now(w))
        /\ held' = [held EXCEPT ![w] = "none"]
        /\ UNCHANGED <<host, serving, pc, clientVars, ghostVars>>
    BY <1>10 DEF SocketClosed
  <2>2. /\ Sound(reg') /\ updated' \in [Wrappers -> Stamps] /\ Alone(w)
        /\ w \in Registered(reg) /\ w \in Registered(reg') /\ updated'[w] >= Now(w)
        /\ reg'.tasks[w].slot = reg.tasks[w].slot
        /\ Shown(reg'.tasks[w]) = Shown(reg.tasks[w])
    BY <2>1, SetConnectionWrites DEF Inv
  <2>3. Cached(w) # None => updated[w] >= Cached(w).updated
    <3>1. reg.tasks[w].conn = "connected"  BY <2>1 DEF Inv, Placed
    <3> QED BY <2>2, <3>1 DEF Inv, OwnIsLatest
  <2>4. Keeps(w) /\ Effect(w)  BY <2>2, <2>3 DEF Freshened, Effect, Keeps
  <2>5. held'[w] = "none"  BY <2>1 DEF Inv, TypeOK
  <2>6. held' = [held EXCEPT ![w] = held'[w]]  BY <2>1, <2>5
  <2>7. touched' = touched /\ touched \subseteq Wrappers /\ behind' \subseteq Wrappers /\ settled' = settled
    BY <2>1 DEF Inv, TypeOK, ghostVars
  <2> QED BY <2>1, <2>2, <2>4, <2>5, <2>6, <2>7, WritesTask
<1>11. ASSUME NEW w \in Wrappers, PendingExpires(w) \/ LeaseExpires(w) PROVE Inv' /\ Moves
  BY <1>11, TimerRemoves DEF PendingExpires, LeaseExpires
<1>12. ASSUME NEW w \in Wrappers, HardwareFails(w) PROVE Inv' /\ Moves
  <2>1. PICK step \in Steps : step = "failing"  BY DEF Steps
  <2>2. /\ pc[w] = "starting" /\ served[w] # None /\ pc' = [pc EXCEPT ![w] = step]
        /\ UNCHANGED <<registryVars, hostVars, clientVars, ghostVars>>
    BY <1>12, <2>1 DEF HardwareFails, Goes
  <2>3. pc[w] \in InLease  BY <2>2 DEF InLease
  <2> QED BY <2>1, <2>2, <2>3, MovesOn
<1>13. ASSUME NEW w \in Wrappers, JoinFails(w) PROVE Inv' /\ Moves
  <2>1. PICK step \in Steps : step = "gone"  BY DEF Steps
  <2>2. /\ pc[w] = "joining" /\ pc' = [pc EXCEPT ![w] = step]
        /\ UNCHANGED <<registryVars, hostVars, clientVars, ghostVars>>
    BY <1>13, <2>1 DEF JoinFails, Goes
  <2>3. pc[w] \notin InLease /\ step \notin InLease /\ step \notin Met
    BY <2>1, <2>2 DEF InLease, Met
  <2> QED BY <2>1, <2>2, <2>3, MovesOn
<1>14. ASSUME NEW w \in Wrappers, HostLeaves(w) PROVE Inv' /\ Moves
  <2>1. PICK step \in Steps : step = "leaving"  BY DEF Steps
  <2> QED BY <1>14, <2>1, RemovesTask DEF HostLeaves, Goes, ghostVars, Inv, TypeOK
<1>15. ASSUME NEW w \in Wrappers, ClientLeaves(w) PROVE Inv' /\ Moves
  <2>1. PICK step \in Steps : step = "gone"  BY DEF Steps
  <2>2. /\ pc[w] \in Met \ InLease /\ pc' = [pc EXCEPT ![w] = step]
        /\ UNCHANGED <<host, serving, clientVars, ghostVars>>
        /\ RemoveTask(w) \/ UNCHANGED <<registryVars, held>>
    BY <1>15, <2>1 DEF ClientLeaves, Goes, Met, InLease
  <2>3. CASE RemoveTask(w)  BY <2>1, <2>2, <2>3, RemovesTask DEF ghostVars, Inv, TypeOK
  <2>4. CASE UNCHANGED <<registryVars, held>>
    <3>1. UNCHANGED <<registryVars, hostVars, clientVars, ghostVars>>
      BY <2>2, <2>4 DEF hostVars
    <3>2. pc[w] # "gone" /\ step \notin InLease /\ step \notin Met
      BY <2>1, <2>2 DEF InLease, Met
    <3> QED BY <2>1, <2>2, <3>1, <3>2, MovesOn
  <2> QED BY <2>2, <2>3, <2>4
<1>16. ASSUME NEW w \in Wrappers, Die(w) PROVE Inv' /\ Moves
  <2>1. PICK step \in Steps : step = "gone"  BY DEF Steps
  <2>2. /\ w \in Alive /\ pc' = [pc EXCEPT ![w] = step] /\ UNCHANGED <<clientVars, ghostVars>>
        /\ IF host = w THEN NoHost ELSE UNCHANGED <<registryVars, hostVars>>
    BY <1>16, <2>1 DEF Die, Goes
  <2>3. CASE host = w
    <3>1. step \in {"lost", "gone"} /\ step # "lost"  BY <2>1
    <3> QED BY <2>2, <2>3, <3>1, HostEnds
  <2>4. CASE host # w
    <3>1. pc[w] # "gone" /\ pc[w] \notin InLease /\ step \notin InLease /\ step \notin Met
      BY <2>1, <2>2, <2>4 DEF InLease, Met, Alive, Inv, Placed
    <3> QED BY <2>1, <2>2, <2>4, <3>1, MovesOn
  <2> QED BY <2>3, <2>4
<1>17. ASSUME NEW w \in Wrappers, NEW state \in Reports, Report(w, state) PROVE Inv' /\ Moves
  <2>1. /\ serving /\ Registrations!SetState(w, state, None, Now(w))
        /\ settled' = None /\ touched' = touched \cup {w} /\ behind' = behind
        /\ UNCHANGED <<host, serving, pc, clientVars>> /\ held' = held
    BY <1>17 DEF Report, hostVars
  <2>2. state \in AgentStates  BY ReportsAssumption
  <2>3. /\ Sound(reg') /\ updated' \in [Wrappers -> Stamps] /\ Alone(w)
        /\ w \in Registered(reg) /\ w \in Registered(reg') /\ updated'[w] >= Now(w)
        /\ reg'.tasks[w].slot = reg.tasks[w].slot
        /\ reg'.tasks[w].conn = reg.tasks[w].conn
    BY <2>1, <2>2, SetStateWrites DEF Inv
  <2>4. Effect(w)  BY <2>1, <2>3 DEF Noted, Effect, Keeps
  <2>5. /\ held' = [held EXCEPT ![w] = held'[w]] /\ held'[w] \in {held[w], "none"}
        /\ touched \subseteq touched' /\ touched' \subseteq Wrappers /\ behind' \subseteq Wrappers
        /\ settled' \in {settled, None}
    BY <2>1 DEF Inv, TypeOK
  <2> QED BY <2>1, <2>3, <2>4, <2>5, WritesTask
<1>18. ASSUME NEW s \in Slots, SelectSlot(s) PROVE Inv' /\ Moves
  <2>1. PICK w \in Selectable(reg) :
          /\ serving /\ reg.tasks[w].slot = s /\ Registrations!SelectSlot(s, Now(w))
          /\ settled' = None /\ touched' = touched \cup {w} /\ behind' = Wrappers \ {host}
          /\ UNCHANGED <<host, serving, pc, clientVars>> /\ held' = held
    BY <1>18 DEF SelectSlot, hostVars
  <2>2. w \in Wrappers  BY DEF Selectable, Candidates, Registered
  <2>3. /\ Sound(reg') /\ updated' \in [Wrappers -> Stamps] /\ Alone(w)
        /\ w \in Registered(reg) /\ w \in Registered(reg') /\ updated'[w] >= Now(w)
        /\ reg'.tasks[w].slot = reg.tasks[w].slot
        /\ reg'.tasks[w].conn = reg.tasks[w].conn
    BY <2>1, SelectWrites DEF Inv
  <2>4. Effect(w)  BY <2>1, <2>3 DEF Noted, Effect, Keeps
  <2>5. /\ held' = [held EXCEPT ![w] = held'[w]] /\ held'[w] \in {held[w], "none"}
        /\ touched \subseteq touched' /\ touched' \subseteq Wrappers /\ behind' \subseteq Wrappers
        /\ settled' \in {settled, None}
    BY <2>1, <2>2 DEF Inv, TypeOK
  <2> QED BY <2>1, <2>2, <2>3, <2>4, <2>5, WritesTask
<1> QED BY <1>1, <1>2, <1>3, <1>4, <1>5, <1>6, <1>7, <1>8, <1>9, <1>10, <1>11, <1>12,
           <1>13, <1>14, <1>15, <1>16, <1>17, <1>18
        DEF Next, Proceed, HostTimers, Faults, Ending

LEMMA NextInv == Inv /\ [Next]_vars => Inv'
BY NextSteps, StutterInv

\* What a process knows of the others it has from a status.
LEMMA OnlyStatusesTeach ==
  ASSUME Next, last' # last
  PROVE  \E w \in Wrappers : Deliver(w)
BY DEF Next, Start, Proceed, Recover, ListenRuntime, Publish, Closed, Join, Rejoin,
       GiveUp, Connect, StreamEnds, HostTimers, SocketClosed, PendingExpires,
       LeaseExpires, Faults, HardwareFails, JoinFails, RejoinUnanswered, StreamBreaks,
       Ending, HostLeaves, ClientLeaves, Die, Report, SelectSlot, clientVars

\* The invariant of the processes, over any number of hosts.
THEOREM RecoveryInvariant == Spec => []Inv
<1>1. Init => Inv  BY InitInv
<1>2. Inv /\ [Next]_vars => Inv'  BY NextInv
<1> QED BY <1>1, <1>2, PTL DEF Spec

\* The variables keep their types, for any wrappers, sessions and slots.
THEOREM RecoveryTypeCorrect == Spec => []TypeOK
<1>1. Inv => TypeOK  BY DEF Inv
<1> QED BY <1>1, RecoveryInvariant, PTL

\* Whoever hosts, and however it came by its registry, a task is in the slot
\* that its own wrapper knows (its cache, a restore or a registration).
THEOREM SlotsNeverMove == Spec => []SlotAsKnown
<1>1. ASSUME Inv, NEW w \in Registered(reg), Cached(w) # None
      PROVE  reg.tasks[w].slot = Cached(w).task.slot
  <2>1. PICK home \in [Wrappers -> Slots \cup {NoSlot}] : HomeIs(home)
    BY <1>1 DEF Inv, OneHome
  <2>2. w \in Wrappers  BY DEF Registered
  <2>3. Cached(w).task.slot = home[w]  BY <1>1, <2>1, <2>2, OwnIsAtHome DEF Inv
  <2> QED BY <2>1, <2>3 DEF HomeIs, At
<1>2. Inv => SlotAsKnown  BY <1>1 DEF SlotAsKnown
<1> QED BY <1>2, RecoveryInvariant, PTL

\* What a wrapper has seen of its own task is not taken back by a host with an
\* older cache, however many hosts there are in between, whoever has which
\* status when, and whichever registrations and removals are repeated.
THEOREM OwnStateIsNeverReverted == Spec => OwnTaskNotReverted
<1> DEFINE NotReverted ==
             \A w \in Wrappers :
               (last[w] # None /\ last'[w] # last[w] /\ w \notin touched) =>
                 /\ w \in Registered(last'[w].reg)
                 /\ last'[w].reg.tasks[w].state = last[w].reg.tasks[w].state
                 /\ last'[w].reg.tasks[w].unread = last[w].reg.tasks[w].unread
<1>1. ASSUME Inv, Next PROVE NotReverted
  <2> SUFFICES ASSUME NEW w \in Wrappers, last[w] # None, last'[w] # last[w], w \notin touched
               PROVE  /\ w \in Registered(last'[w].reg)
                      /\ last'[w].reg.tasks[w].state = last[w].reg.tasks[w].state
                      /\ last'[w].reg.tasks[w].unread = last[w].reg.tasks[w].unread
    OBVIOUS
  <2>1. \E v \in Wrappers : Deliver(v)  BY <1>1, OnlyStatusesTeach
  <2>2. /\ held[w] = "open" /\ last'[w] = [reg |-> reg, updated |-> updated]
    BY <1>1, <2>1 DEF Deliver, Connected, Inv, TypeOK
  <2>3. w \in Registered(reg) /\ reg.tasks[w].conn = "connected"
    BY <1>1, <2>2 DEF Inv, Placed
  <2>4. Cached(w) # None /\ Cached(w).task = last[w].reg.tasks[w]
    BY <1>1, CachedCases, SnapshotTyped DEF Inv, Caches, SoundStatus, Sound
  <2>5. AsOwn(Copies(w), CopyOf(Cached(w))) /\ updated[w] >= Cached(w).updated
    BY <1>1, <2>3, <2>4 DEF Inv, OwnIsLatest
  <2>6. CopyOf(SnapshotOf(reg, updated, w)) \in Copies(w)  BY <2>3 DEF Copies
  <2>7. CopyOf(SnapshotOf(reg, updated, w)).shown = CopyOf(Cached(w)).shown
    <3>1. CopyOf(SnapshotOf(reg, updated, w)).updated >= CopyOf(Cached(w)).updated
      BY <2>5 DEF CopyOf, SnapshotOf
    <3> QED BY <2>5, <2>6, <3>1 DEF AsOwn
  <2>8. <<reg.tasks[w].state, reg.tasks[w].unread>>
           = <<Cached(w).task.state, Cached(w).task.unread>>
    BY <2>7 DEF CopyOf, SnapshotOf, Shown
  <2> QED BY <2>2, <2>3, <2>4, <2>8
<1>2. UNCHANGED vars => NotReverted  BY DEF vars, clientVars
<1>3. Inv /\ [Next]_vars => [NotReverted]_vars  BY <1>1, <1>2
<1>4. Spec => [][NotReverted]_vars  BY <1>3, RecoveryInvariant, PTL DEF Spec
<1> QED BY <1>4 DEF OwnTaskNotReverted

-----------------------------------------------------------------------------
(***************************************************************************)
(* What everybody agreed on.  The second invariant says that the survivors' *)
(* copies of it, the host's included, go on to look as it does, and that    *)
(* nobody who may still register or seed a host knows of another choice.    *)
(***************************************************************************)
Look(task) == <<task.slot, Shown(task)>>

Clients == {v \in Alive : ~Hosts(v)}

\* A host is registered with itself, and whoever served a process hosts, or did.
HostsItself ==
  \A w \in Wrappers : pc[w] = "hosting" =>
    w \in Registered(reg) /\ reg.tasks[w].conn = "connected" /\ held[w] = "none"

ServedByHosts ==
  \A w \in Wrappers : served[w] # None => pc[served[w]] \in {"hosting", "leaving", "gone"}

\* All copies of a survivor's task look as the one agreed on.
KeptTask(G, w) ==
  /\ pc[w] # "out"
  /\ w \in Alive =>
       /\ pc[w] # "joining" /\ G.tasks[w].conn = "connected"
       /\ w \in Clients => last[w] # None
       /\ w \in Registered(reg) => Look(reg.tasks[w]) = Look(G.tasks[w])
       /\ \A v \in Clients : last[v] # None /\ w \in Registered(last[v].reg) =>
            Look(last[v].reg.tasks[w]) = Look(G.tasks[w])

\* A survivor that was selected is selected for all.
KeptChoice(G) ==
  G.selected \in Alive /\ pc[G.selected] # "leaving" =>
    /\ Seeded => reg.selected = G.selected
    /\ \A v \in Clients : /\ last[v] # None => last[v].reg.selected = G.selected
                          /\ last[v] = None /\ first[v] # None => ~first[v].selected

Kept(G) == (\A w \in Registered(G) : KeptTask(G, w)) /\ KeptChoice(G)

Since ==
  /\ HostsItself /\ ServedByHosts
  /\ settled # None => Sound(settled) /\ Kept(settled)

\* Where processes go.
Moving(v) ==
  /\ pc'[v] = "out" => pc[v] = "out"
  /\ pc'[v] = "joining" => pc[v] \in {"out", "joining"}
  /\ pc[v] = "gone" => pc'[v] = "gone"
  /\ Hosts(v) => pc'[v] \in {"hosting", "leaving", "gone"}
  /\ pc[v] = "leaving" => pc'[v] \in {"leaving", "gone"}
  /\ pc'[v] = "hosting" => pc[v] = "hosting" \/ Publish(v)
  /\ pc'[v] = "leaving" => Hosts(v)

LEMMA OneMoves ==
  ASSUME TypeOK, NEW w \in Wrappers, NEW step, pc' = [pc EXCEPT ![w] = step], Moving(w)
  PROVE  \A v \in Wrappers : Moving(v)
<1>1. pc'[w] = step /\ \A v \in Wrappers \ {w} : pc'[v] = pc[v]  BY DEF TypeOK
<1> QED BY <1>1 DEF Moving, Hosts

LEMMA ProcessesMove ==
  ASSUME TypeOK, Next
  PROVE  \A v \in Wrappers : Moving(v)
<1>0. pc \in [Wrappers -> Steps]  BY DEF TypeOK
<1>1. ASSUME pc' = pc PROVE \A v \in Wrappers : Moving(v)
  BY <1>1 DEF Moving, Hosts
<1>2. ASSUME NEW w \in Wrappers, Start(w) \/ Recover(w) PROVE \A v \in Wrappers : Moving(v)
  <2>1. PICK step \in {"starting", "joining", "rejoining"} :
          /\ pc' = [pc EXCEPT ![w] = step]
          /\ pc[w] \in {"out", "lost"} /\ (step = "joining" => pc[w] = "out")
    BY <1>2 DEF Start, Recover, ListenRuntime, Goes
  <2>2. Moving(w)  BY <1>0, <2>1 DEF Moving, Hosts
  <2> QED BY <2>1, <2>2, OneMoves
<1>3. ASSUME NEW w \in Wrappers, Publish(w) PROVE \A v \in Wrappers : Moving(v)
  <2>1. pc[w] = "starting" /\ pc' = [pc EXCEPT ![w] = "hosting"]  BY <1>3 DEF Publish, Goes
  <2>2. Moving(w)  BY <1>0, <1>3, <2>1 DEF Moving, Hosts
  <2> QED BY <2>1, <2>2, OneMoves
<1>4. ASSUME NEW w \in Wrappers,
             \/ Closed(w) \/ (\E want \in Wants : Join(w, want)) \/ Rejoin(w) \/ GiveUp(w)
             \/ StreamEnds(w) \/ StreamBreaks(w) \/ HardwareFails(w) \/ JoinFails(w)
             \/ Connect(w) \/ HostLeaves(w) \/ ClientLeaves(w) \/ Die(w)
      PROVE  \A v \in Wrappers : Moving(v)
  <2>1. PICK step \in {"pending", "streaming", "lost", "failing", "leaving", "gone"} :
          /\ pc' = [pc EXCEPT ![w] = step]
          /\ pc[w] = "gone" => step = "gone"
          /\ Hosts(w) => step \in {"leaving", "gone"}
          /\ step = "leaving" => pc[w] = "hosting"
    <3>1. CASE Closed(w)
      BY <3>1 DEF Closed, Goes, Hosts
    <3>2. CASE (\E want \in Wants : Join(w, want)) \/ Rejoin(w) \/ GiveUp(w)
      BY <3>2 DEF Join, Rejoin, Reregister, GiveUp, Goes, Hosts
    <3>3. CASE StreamEnds(w) \/ StreamBreaks(w) \/ HardwareFails(w) \/ JoinFails(w) \/ Connect(w)
      BY <3>3 DEF StreamEnds, StreamBreaks, HardwareFails, JoinFails, Connect, Goes, Hosts
    <3>4. CASE HostLeaves(w) \/ ClientLeaves(w) \/ Die(w)
      BY <3>4 DEF HostLeaves, ClientLeaves, Die, Alive, Goes, Hosts
    <3> QED BY <1>4, <3>1, <3>2, <3>3, <3>4
  <2>2. pc'[w] = step  BY <1>0, <2>1
  <2>3. Moving(w)  BY <2>1, <2>2 DEF Moving, Hosts
  <2> QED BY <2>1, <2>3, OneMoves
<1>5. ASSUME NEW w \in Wrappers, RejoinUnanswered(w) \/ Deliver(w) \/ HostTimers(w) PROVE pc' = pc
  BY <1>5 DEF RejoinUnanswered, Deliver, HostTimers, SocketClosed, PendingExpires, LeaseExpires
<1>6. ASSUME \/ \E w \in Wrappers : \E state \in Reports : Report(w, state)
             \/ \E s \in Slots : SelectSlot(s)
      PROVE  pc' = pc
  BY <1>6 DEF Report, SelectSlot
<1> QED BY <1>1, <1>2, <1>3, <1>4, <1>5, <1>6 DEF Next, Proceed, Faults, Ending

LEMMA LooksAlike ==
  ASSUME NEW a, NEW b, a.slot = b.slot, Shown(a) = Shown(b)
  PROVE  Look(a) = Look(b)
BY DEF Look

\* Nobody comes back from the dead, and newcomers know nothing.
LEMMA ClientsWere ==
  ASSUME Inv, \A x \in Wrappers : Moving(x), NEW v \in Wrappers, v \in Clients'
  PROVE  v \in Clients \/ (pc[v] = "out" /\ last[v] = None /\ first[v] = None)
<1>1. pc'[v] \notin {"out", "gone"} /\ pc'[v] \notin {"hosting", "leaving"}
  BY DEF Clients, Alive, Hosts
<1>2. pc[v] # "gone" /\ ~Hosts(v)  BY <1>1 DEF Moving
<1>3. CASE pc[v] = "out"
  <2>1. Cached(v) = None  BY <1>3 DEF Inv, Kin
  <2>2. last[v] = None
    BY <2>1, CachedCases, SnapshotTyped DEF Inv, Caches, SoundStatus, Sound
  <2> QED BY <1>3, <2>1, <2>2 DEF Cached
<1>4. CASE pc[v] # "out"  BY <1>2, <1>4 DEF Clients, Alive
<1> QED BY <1>3, <1>4

\* A quiet step leaves a survivor's copies as they look.
LEMMA TaskStaysKept ==
  ASSUME Inv, QuietStep, \A x \in Wrappers : Moving(x),
         NEW G, NEW w \in Registered(G), KeptTask(G, w)
  PROVE  KeptTask(G, w)'
<1>0. w \in Wrappers /\ last' = last  BY DEF Registered, QuietStep, TaskStep
<1>1. pc'[w] # "out"  BY <1>0 DEF Moving, KeptTask
<1> SUFFICES ASSUME w \in Alive'
             PROVE  /\ pc'[w] # "joining" /\ G.tasks[w].conn = "connected"
                    /\ w \in Clients' => last'[w] # None
                    /\ w \in Registered(reg') => Look(reg'.tasks[w]) = Look(G.tasks[w])
                    /\ \A v \in Clients' : last'[v] # None /\ w \in Registered(last'[v].reg) =>
                         Look(last'[v].reg.tasks[w]) = Look(G.tasks[w])
  BY <1>1 DEF KeptTask
<1>2. w \in Alive  BY <1>0 DEF Alive, Moving, KeptTask
<1>3. /\ pc[w] # "joining" /\ G.tasks[w].conn = "connected"
      /\ w \in Clients => last[w] # None
      /\ w \in Registered(reg) => Look(reg.tasks[w]) = Look(G.tasks[w])
      /\ \A v \in Clients : last[v] # None /\ w \in Registered(last[v].reg) =>
           Look(last[v].reg.tasks[w]) = Look(G.tasks[w])
  BY <1>2 DEF KeptTask
<1>4. pc'[w] # "joining"  BY <1>0, <1>2, <1>3 DEF Moving, Alive
<1>5. w \in Clients' => last'[w] # None
  BY <1>0, <1>2, <1>3, ClientsWere DEF Alive
<1>6. ASSUME NEW v \in Clients', last'[v] # None, w \in Registered(last'[v].reg)
      PROVE  Look(last'[v].reg.tasks[w]) = Look(G.tasks[w])
  <2>1. v \in Wrappers  BY DEF Clients, Alive
  <2>2. v \in Clients  BY <1>0, <1>6, <2>1, ClientsWere
  <2> QED BY <1>0, <1>3, <1>6, <2>2
<1>7. ASSUME w \in Registered(reg') PROVE Look(reg'.tasks[w]) = Look(G.tasks[w])
  <2>1. CASE Same(w)
    BY <1>3, <1>7, <2>1 DEF Same, Registered
  <2>2. CASE Freshened(w)
    BY <1>3, <2>2, LooksAlike DEF Freshened
  <2>3. CASE Renewed(w)
    <3>1. w \in Clients  BY <2>3 DEF Renewed, Clients
    <3>2. last[w] # None  BY <1>3, <3>1
    <3>3. Cached(w).task = last[w].reg.tasks[w] /\ w \in Registered(last[w].reg)
      BY <1>0, <3>2, CachedCases DEF Inv, Kin
    <3>4. Look(reg'.tasks[w]) = Look(last[w].reg.tasks[w])
      BY <2>3, <3>3, LooksAlike DEF Renewed
    <3> QED BY <1>3, <3>1, <3>2, <3>3, <3>4
  <2>4. CASE Arrives(w)
    <3>1. w \in Clients /\ Cached(w) = None  BY <2>4 DEF Arrives, Clients
    <3>2. last[w] # None  BY <1>3, <3>1
    <3> QED BY <1>0, <2>4, <3>2 DEF Arrives, Unknown, Inv, Kin
  <2>5. CASE Restored(w)
    <3>1. PICK u \in Alive :
            /\ ~Hosts(u) /\ last[u] # None /\ w \in Registered(last[u].reg)
            /\ reg'.tasks[w].slot = last[u].reg.tasks[w].slot
            /\ Shown(reg'.tasks[w]) = Shown(last[u].reg.tasks[w])
      BY <2>5 DEF Restored
    <3>2. u \in Clients  BY <3>1 DEF Clients
    <3> QED BY <1>3, <3>1, <3>2, LooksAlike
  <2> QED BY <1>0, <1>7, <2>1, <2>2, <2>3, <2>4, <2>5 DEF QuietStep, Keeps, Dropped
<1> QED BY <1>3, <1>4, <1>5, <1>6, <1>7

-----------------------------------------------------------------------------
(***************************************************************************)
(* The selection.                                                          *)
(***************************************************************************)
\* Who a registration selects: the wrapper, if nobody was selected or it comes
\* back saying that it was.
LEMMA RegisterChooses ==
  ASSUME NEW r \in Registry, NEW w, NEW want, NEW rec, NEW newer,
         r.selected # None
  PROVE  \/ Register(r, w, want, rec, newer).selected = r.selected
         \/ /\ Register(r, w, want, rec, newer).selected = w
            /\ rec # None /\ rec.selected /\ (w \in Registered(r) => newer)
<1> DEFINE q == Register(r, w, want, rec, newer)
<1>1. CASE w \notin Registered(r)
  <2> DEFINE slot == AllocateSlot(r, want)
             task == [slot    |-> slot,
                      state   |-> IF rec = None THEN "idle" ELSE rec.state,
                      conn    |-> "connected",
                      unread  |-> rec # None /\ rec.unread,
                      session |-> IF rec = None THEN None ELSE rec.session]
             takes == slot # NoSlot /\ (r.selected = None \/ (rec # None /\ rec.selected))
             next  == SetTask(r, w, task)
  <2>1. q = IF takes THEN [next EXCEPT !.selected = w] ELSE next
    BY <1>1 DEF Register, RegisterNew
  <2>2. takes => rec # None /\ rec.selected  OBVIOUS
  <2> HIDE DEF takes, task
  <2>3. next.selected = r.selected /\ [next EXCEPT !.selected = w].selected = w
    BY DEF SetTask, Registry
  <2> QED BY <1>1, <2>1, <2>2, <2>3
<1>2. CASE w \in Registered(r)
  <2> DEFINE merge == rec # None /\ newer
             from  == IF merge THEN rec ELSE r.tasks[w]
             slot  == IF want = AnySlot THEN r.tasks[w].slot ELSE want
             takes == slot # NoSlot /\ (r.selected = None \/ (merge /\ rec.selected))
             task  == [slot    |-> slot,
                       state   |-> from.state,
                       conn    |-> "connected",
                       unread  |-> from.unread,
                       session |-> from.session]
             next  == SetTask(r, w, task)
  <2>1. q = IF takes THEN [next EXCEPT !.selected = w] ELSE next
    BY <1>2 DEF Register, RegisterAgain
  <2>2. takes => rec # None /\ newer /\ rec.selected  OBVIOUS
  <2> HIDE DEF takes, task
  <2>3. next.selected = r.selected /\ [next EXCEPT !.selected = w].selected = w
    BY DEF SetTask, Registry
  <2> QED BY <2>1, <2>2, <2>3
<1> QED BY <1>1, <1>2

LEMMA UnregisterChooses ==
  ASSUME NEW r \in Registry, NEW w, r.selected # w
  PROVE  Unregister(r, w).selected = r.selected
BY DEF Unregister, SetTask, Registry

\* A seed keeps the selection its cache names, but the gone process's.
LEMMA SeedChooses ==
  ASSUME NEW r, Sound(r), NEW gone \in Wrappers, NEW w \in Wrappers,
         r.selected # None, r.selected # gone
  PROVE  Restore(WithoutProcess(r, gone), w).selected = r.selected
<1> DEFINE seed  == WithoutProcess(r, gone)
           tasks == [v \in Wrappers |->
                       IF seed.tasks[v] = None THEN None
                       ELSE [seed.tasks[v] EXCEPT
                               !.conn = IF v = w THEN "connected" ELSE "reconnecting"]]
           q     == [tasks |-> tasks, selected |-> seed.selected]
<1>0. r \in Registry /\ r.selected \in Registered(r) /\ r.selected \in Wrappers
  BY DEF Sound, SelectionInSlot, Registered
<1>1. seed = SetTask(r, gone, None)  BY DEF WithoutProcess
<1>2. seed.selected = r.selected /\ seed.tasks[r.selected] = r.tasks[r.selected]
  BY <1>0, <1>1 DEF SetTask, Registry
<1>3. r.tasks[r.selected] \in Task  BY <1>0 DEF Registered, Registry
<1>4. tasks[r.selected] # None
  <2>1. tasks[r.selected] = [r.tasks[r.selected] EXCEPT
                               !.conn = IF r.selected = w THEN "connected" ELSE "reconnecting"]
    BY <1>0, <1>2, <1>3, NoneIsNoTask
  <2>2. tasks[r.selected] \in Task  BY <1>3, <2>1 DEF Task
  <2> QED BY <2>2, NoneIsNoTask
<1>5. Restore(seed, w) = IF seed.selected \in Registered(q) THEN q
                         ELSE [q EXCEPT !.selected = FallbackWrapper(q, {}, TRUE)]
  BY DEF Restore
<1> HIDE DEF tasks, seed
<1>6. seed.selected \in Registered(q)  BY <1>0, <1>2, <1>4 DEF Registered
<1> QED BY <1>2, <1>5, <1>6 DEF seed

\* The host that seeds a registry keeps the choice of a survivor in its cache.
LEMMA PromoteChooses ==
  ASSUME Inv, ServedByHosts, NEW w \in Clients, host = w, last[w] # None, Promote(w),
         NEW s \in Alive, last[w].reg.selected = s
  PROVE  reg'.selected = s
<1> DEFINE r        == last[w].reg
           gone     == served[w]
           restored == Restore(Seed(w), w)
           own      == SnapshotOf(restored, last[w].updated, w)
<1>0. w \in Wrappers /\ s \in Wrappers /\ s # None  BY NoneAssumption DEF Clients, Alive
<1>1. Sound(r)  BY <1>0 DEF Inv, Caches, SoundStatus
<1>2. gone \in Wrappers /\ pc[gone] \in {"hosting", "leaving", "gone"}
  <2>1. Cached(w) # None
    BY <1>0, CachedCases, SnapshotTyped DEF Inv, Caches, SoundStatus, Sound
  <2>2. gone # None  BY <1>0, <2>1 DEF Inv, Kin
  <2> QED BY <1>0, <2>2 DEF ServedByHosts, Inv, TypeOK
<1>3. s # gone
  <2>1. ASSUME s = gone PROVE FALSE
    <3>1. pc[s] \in {"hosting", "leaving"}  BY <1>2, <2>1 DEF Alive
    <3>2. host = s  BY <1>0, <3>1 DEF Inv, Placed, InLease
    <3> QED BY <3>1, <3>2 DEF Clients, Hosts
  <2> QED BY <2>1
<1>4. reg' = Register(restored, w, RecoverySlot(own), RecoveryOf(own), FALSE)
  BY DEF Promote
<1>5. restored = Restore(WithoutProcess(r, gone), w)  BY DEF Seed
<1> HIDE DEF restored, r, gone, own
<1>6. restored.selected = s
  <2>1. r.selected = s  BY DEF r
  <2> QED BY <1>0, <1>1, <1>2, <1>3, <1>5, <2>1, SeedChooses
<1>7. Sound(restored) /\ SeedsFrom(restored, r, gone, w)
  BY <1>0, <1>1, <1>2, <1>5, SeedHas
<1>8. w \in Registered(restored)
  <2>1. w \in Registered(r)  BY <1>0 DEF Inv, Kin, r
  <2>2. gone # w  BY <1>0 DEF Inv, Kin, gone
  <2> QED BY <1>0, <1>7, <2>1, <2>2 DEF SeedsFrom
<1>9. restored \in Registry  BY <1>7 DEF Sound
<1> QED BY <1>0, <1>4, <1>6, <1>8, <1>9, RegisterChooses

\* The registrations and removals of a host that has the survivor keep it too.
LEMMA ChoiceAtHost ==
  ASSUME Inv, Inv', ServedByHosts, Next, QuietStep, \A x \in Wrappers : Moving(x),
         NEW G, G = settled, Sound(G), Kept(G), settled' # None,
         NEW s \in Alive, s = G.selected, pc[s] # "leaving", settled'.selected = s,
         s \in Alive', pc'[s] # "leaving", Seeded'
  PROVE  reg'.selected = s
<1>0. s \in Wrappers /\ s # None /\ s \in Registered(G) /\ reg \in Registry
  BY NoneAssumption DEF Alive, Sound, SelectionInSlot, Inv, TypeOK
<1>1. /\ Seeded => reg.selected = s
      /\ \A v \in Clients : /\ last[v] # None => last[v].reg.selected = s
                            /\ last[v] = None /\ first[v] # None => ~first[v].selected
      /\ s \in Clients => last[s] # None
  BY <1>0 DEF Kept, KeptChoice, KeptTask
<1>2. last' = last  BY DEF QuietStep, TaskStep
<1>3. ASSUME NEW w \in Wrappers, Publish(w) PROVE reg'.selected = s
  <2>1. pc[w] = "starting" /\ host = w /\ w \in Clients
    BY <1>3 DEF Publish, Inv, Placed, InLease, Clients, Alive, Hosts
  <2>2. CASE last[w] # None
    <3>1. Promote(w)  BY <1>3, <2>2 DEF Publish
    <3> QED BY <1>1, <2>1, <2>2, <3>1, PromoteChooses
  <2>3. CASE last[w] = None
    <3>1. s # w  BY <1>1, <2>1, <2>3
    <3>2. Alone(w) /\ reg = EmptyRegistry
      BY <1>3, <2>1, <2>3, Publishes DEF Inv, Placed, Seeded
    <3>3. s \notin Registered(reg')
      BY <1>0, <3>1, <3>2 DEF Alone, Same, EmptyRegistry, Registered
    <3>4. settled'.selected = None
      BY <1>0, <1>3, <3>3 DEF Publish, Forgets, Sound, Registry
    <3> QED BY <1>0, <3>4
  <2> QED BY <2>2, <2>3
<1>4. ASSUME \A w \in Wrappers : ~Publish(w) PROVE Seeded /\ reg.selected = s /\ reg.selected # None
  <2>1. host' \in Wrappers /\ pc'[host'] \in {"hosting", "leaving"}
    BY NoneAssumption DEF Seeded, Inv, TypeOK
  <2>2. pc[host'] \in {"hosting", "leaving"}  BY <1>4, <2>1 DEF Moving, Hosts
  <2>3. host = host'  BY <2>1, <2>2 DEF Inv, Placed, InLease
  <2>4. Seeded  BY <2>1, <2>2, <2>3, NoneAssumption DEF Seeded
  <2> QED BY <1>0, <1>1, <2>4
<1>5. ASSUME NEW w \in Wrappers \ {s}, RemoveTask(w), \A x \in Wrappers : ~Publish(x)
      PROVE  reg'.selected = s
  <2>1. reg' = Unregister(reg, w)
    BY <1>5, SameOperators DEF RemoveTask, Registrations!UnregisterTask
  <2>2. reg.selected = s  BY <1>4, <1>5
  <2> QED BY <1>0, <1>5, <2>1, <2>2, UnregisterChooses
<1>6. ASSUME NEW w \in Clients, \A x \in Wrappers : ~Publish(x),
             NEW want, NEW rec, NEW newer, rec # None => Cached(w) # None /\ rec = RecoveryOf(Cached(w)),
             reg' = Register(reg, w, want, rec, newer)
      PROVE  reg'.selected = s
  <2>1. reg.selected = s /\ s # None  BY <1>0, <1>4, <1>6
  <2>2. \/ reg'.selected = s
        \/ reg'.selected = w /\ rec # None /\ rec.selected
    BY <1>0, <1>6, <2>1, RegisterChooses
  <2>3. ASSUME w # s, rec # None PROVE ~rec.selected
    <3>0. w \in Wrappers /\ rec.selected = Cached(w).selected  
      BY <1>6, <2>3 DEF Clients, Alive, RecoveryOf
    <3>1. CASE last[w] # None
      <4>1. Cached(w) = SnapshotOf(last[w].reg, last[w].updated, w)
        BY <3>0, <3>1, CachedCases DEF Inv
      <4>2. Cached(w).selected = (last[w].reg.selected = w)  BY <4>1 DEF SnapshotOf
      <4> QED BY <1>1, <1>6, <2>3, <3>0, <3>1, <4>2
    <3>2. CASE last[w] = None
      <4>1. Cached(w) = first[w]  BY <3>2 DEF Cached
      <4> QED BY <1>1, <1>6, <2>3, <3>0, <3>2, <4>1
    <3> QED BY <3>1, <3>2
  <2> QED BY <2>2, <2>3
<1>7. ASSUME NEW w \in Wrappers, PendingExpires(w) \/ LeaseExpires(w),
             \A x \in Wrappers : ~Publish(x)
      PROVE  reg'.selected = s
  <2>1. RemoveTask(w) /\ Forgets /\ pc' = pc  BY <1>7 DEF PendingExpires, LeaseExpires
  <2>2. w \notin Registered(reg')  BY <2>1, RemoveWrites DEF Inv
  <2>3. w # s
    <3>1. ASSUME w = s PROVE FALSE
      <4>1. settled'.selected = None
        BY <1>0, <2>1, <2>2, <3>1 DEF Forgets, Sound, Registry
      <4> QED BY <1>0, <4>1
    <3> QED BY <3>1
  <2> QED BY <1>5, <1>7, <2>1, <2>3
<1>8. ASSUME NEW w \in Wrappers, HostLeaves(w) \/ ClientLeaves(w),
             \A x \in Wrappers : ~Publish(x)
      PROVE  reg'.selected = s
  <2>1. pc'[w] \in {"leaving", "gone"}
    BY <1>8 DEF HostLeaves, ClientLeaves, Goes, Inv, TypeOK
  <2>2. w # s  BY <2>1 DEF Alive
  <2>3. RemoveTask(w) \/ reg' = reg  BY <1>8 DEF HostLeaves, ClientLeaves, registryVars
  <2> QED BY <1>4, <1>5, <1>8, <2>2, <2>3
<1>9. ASSUME NEW w \in Wrappers, \E want \in Wants : Join(w, want),
             \A x \in Wrappers : ~Publish(x)
      PROVE  reg'.selected = s
  <2>1. PICK want : /\ pc[w] = "joining"
                    /\ Registrations!RegisterFirst(w, want, None, 0, Now(w))
    BY <1>9 DEF Join
  <2>2. w \in Clients  BY <2>1 DEF Clients, Alive, Hosts
  <2>3. reg' = Register(reg, w, want, None, FALSE)
    BY <2>1, SameOperators DEF Registrations!RegisterFirst
  <2> QED BY <1>6, <1>9, <2>2, <2>3
<1>10. ASSUME NEW w \in Wrappers, Reregister(w), \A x \in Wrappers : ~Publish(x)
       PROVE  reg'.selected = s
  <2>1. /\ pc[w] = "rejoining"
        /\ \/ Registrations!RegisterFirst(w, RecoverySlot(Cached(w)), RecoveryOf(Cached(w)),
                                          Cached(w).updated, Now(w))
           \/ Registrations!ReRegister(w, RecoverySlot(Cached(w)), RecoveryOf(Cached(w)),
                                       Cached(w).updated, Now(w))
    BY <1>10 DEF Reregister
  <2>2. w \in Clients /\ Cached(w) # None
    BY <2>1 DEF Clients, Alive, Hosts, Inv, Kin
  <2> DEFINE rec == RecoveryOf(Cached(w))
  <2>3. PICK newer : reg' = Register(reg, w, RecoverySlot(Cached(w)), rec, newer)
    BY <2>1, SameOperators DEF Registrations!RegisterFirst, Registrations!ReRegister
  <2> QED BY <1>6, <1>10, <2>2, <2>3
<1>11. ASSUME NEW w \in Wrappers, SocketClosed(w), \A x \in Wrappers : ~Publish(x)
       PROVE  reg'.selected = s
  <2>1. reg' = MarkConnection(reg, w, "reconnecting")
    BY <1>11, SameOperators DEF SocketClosed, Registrations!SetConnection
  <2>2. reg'.selected = reg.selected  BY <1>0, <2>1 DEF MarkConnection, SetTask, Registry
  <2> QED BY <1>4, <1>11, <2>2
<1>12. ASSUME NEW w \in Wrappers, Closed(w) \/ (Die(w) /\ host = w) PROVE FALSE
  BY <1>12 DEF Closed, Die, NoHost, Seeded
<1>13. ASSUME NEW w \in Wrappers, Deliver(w) PROVE FALSE
  BY <1>2, <1>13 DEF Deliver, Inv, TypeOK
<1>14. ASSUME NEW w \in Wrappers,
              \/ Start(w) \/ Recover(w) \/ GiveUp(w) \/ Connect(w) \/ StreamEnds(w)
              \/ HardwareFails(w) \/ JoinFails(w) \/ StreamBreaks(w) \/ (Die(w) /\ host # w)
       PROVE  reg' = reg
  BY <1>14 DEF Start, Recover, ListenRuntime, GiveUp, Connect, StreamEnds, HardwareFails,
               JoinFails, StreamBreaks, Die, registryVars
<1>15. ASSUME \/ \E w \in Wrappers : \E state \in Reports : Report(w, state)
              \/ \E x \in Slots : SelectSlot(x)
       PROVE  FALSE
  BY <1>15 DEF Report, SelectSlot
<1>16. CASE \E w \in Wrappers : Publish(w)  BY <1>3, <1>16
<1>17. CASE \A w \in Wrappers : ~Publish(w)
  <2>1. ASSUME NEW w \in Wrappers, Proceed(w) \/ Start(w) \/ Deliver(w)
        PROVE  reg'.selected = s
    BY <1>4, <1>9, <1>10, <1>12, <1>13, <1>14, <1>17, <2>1 DEF Proceed, Rejoin
  <2>2. ASSUME NEW w \in Wrappers, HostTimers(w) \/ Faults(w) \/ Ending(w)
        PROVE  reg'.selected = s
    BY <1>4, <1>7, <1>8, <1>10, <1>11, <1>12, <1>14, <1>17, <2>2
       DEF HostTimers, Faults, Ending, RejoinUnanswered
  <2> QED BY <1>15, <2>1, <2>2 DEF Next
<1> QED BY <1>16, <1>17

\* A registration writes the wrapper's task alone.
LEMMA RegisterTouchesOne ==
  ASSUME NEW r \in Registry, NEW w, NEW want, NEW rec, NEW newer, NEW v \in Wrappers \ {w}
  PROVE  Register(r, w, want, rec, newer).tasks[v] = r.tasks[v]
<1>1. ASSUME NEW task
      PROVE  /\ SetTask(r, w, task).tasks[v] = r.tasks[v]
             /\ [SetTask(r, w, task) EXCEPT !.selected = w].tasks[v] = r.tasks[v]
  BY DEF SetTask, Registry
<1>2. \E task : Register(r, w, want, rec, newer) \in
                  {SetTask(r, w, task), [SetTask(r, w, task) EXCEPT !.selected = w]}
  BY DEF Register, RegisterNew, RegisterAgain
<1> QED BY <1>1, <1>2

\* What a quiet step keeps of the choice.
LEMMA ChoiceStaysKept ==
  ASSUME Inv, Inv', ServedByHosts, Next, QuietStep, \A x \in Wrappers : Moving(x),
         NEW G, G = settled, Sound(G), Kept(G), settled' # None,
         settled'.selected \in {G.selected, None}
  PROVE  KeptChoice(settled)'
<1> DEFINE s == settled'.selected
<1> SUFFICES ASSUME s \in Alive', pc'[s] # "leaving"
             PROVE  /\ Seeded' => reg'.selected = s
                    /\ \A v \in Clients' :
                         /\ last'[v] # None => last'[v].reg.selected = s
                         /\ last'[v] = None /\ first'[v] # None => ~first'[v].selected
  BY DEF KeptChoice
<1>0. /\ s = G.selected /\ s \in Wrappers /\ s \in Registered(G)
  BY NoneAssumption DEF Alive, Sound, SelectionInSlot
<1>1. s \in Alive /\ pc[s] # "leaving"
  <2>1. pc[s] # "out"  BY <1>0 DEF Kept, KeptTask
  <2>2. pc'[s] \notin {"out", "gone", "leaving"}  BY DEF Alive
  <2> QED BY <1>0, <2>1, <2>2 DEF Alive, Moving
<1>2. PICK t \in Alive : t = s  BY <1>1
<1>3. Seeded' => reg'.selected = s
  <2>1. ASSUME Seeded' PROVE reg'.selected = t
    <3>1. /\ t = G.selected /\ pc[t] # "leaving" /\ settled'.selected = t
          /\ t \in Alive' /\ pc'[t] # "leaving"
      BY <1>0, <1>1, <1>2
    <3> QED BY <2>1, <3>1, ChoiceAtHost
  <2> QED BY <1>2, <2>1
<1>4. /\ \A v \in Clients : /\ last[v] # None => last[v].reg.selected = s
                            /\ last[v] = None /\ first[v] # None => ~first[v].selected
      /\ s \in Clients => last[s] # None
  BY <1>0, <1>1 DEF Kept, KeptChoice, KeptTask
<1>5. ASSUME NEW v \in Clients'
      PROVE  /\ last'[v] # None => last'[v].reg.selected = s
             /\ last'[v] = None /\ first'[v] # None => ~first'[v].selected
  <2>0. v \in Wrappers  BY DEF Clients, Alive
  <2>1. v \in Clients \/ (pc[v] = "out" /\ last[v] = None /\ first[v] = None)
    BY <2>0, ClientsWere
  <2>2. last'[v] = last[v] /\ (FirstKept(v) \/ FirstTaken(v))
    BY <2>0 DEF QuietStep, TaskStep
  <2>3. CASE last[v] # None
    BY <1>4, <2>1, <2>2, <2>3
  <2>4. CASE last[v] = None /\ FirstKept(v)
    BY <1>4, <2>1, <2>2, <2>4 DEF FirstKept
  <2>5. CASE last[v] = None /\ FirstTaken(v)
    <3>1. first'[v].selected = (reg'.selected = v) /\ v \in Registered(reg')
      BY <2>5 DEF FirstTaken, SnapshotOf
    <3>2. Seeded'
      <4>1. reg' # EmptyRegistry  BY <2>0, <3>1 DEF EmptyRegistry, Registered
      <4> QED BY <4>1 DEF Inv, Placed
    <3>3. v # s  BY <1>1, <1>4, <2>1, <2>5 DEF Alive
    <3> QED BY <1>3, <2>2, <2>5, <3>1, <3>2, <3>3
  <2> QED BY <2>2, <2>3, <2>4, <2>5
<1> QED BY <1>3, <1>5

\* Hosts stay registered with themselves.
LEMMA HostStaysRegistered ==
  ASSUME Inv, Inv', HostsItself, Next, \A x \in Wrappers : Moving(x)
  PROVE  HostsItself'
<1> SUFFICES ASSUME NEW h \in Wrappers, pc'[h] = "hosting"
             PROVE  /\ h \in Registered(reg') /\ reg'.tasks[h].conn = "connected"
                    /\ held'[h] = "none"
  BY DEF HostsItself
<1>0. host' = h /\ h # None  BY NoneAssumption DEF Inv, Placed, InLease
<1>1. ASSUME Publish(h)
      PROVE  /\ h \in Registered(reg') /\ reg'.tasks[h].conn = "connected"
             /\ held'[h] = "none"
  <2>1. pc[h] = "starting" /\ host = h /\ held' = held
    BY <1>1 DEF Publish, Inv, Placed, InLease
  <2>2. held[h] = "none"  BY <2>1 DEF Inv, Placed, Seeded, NoneHeld
  <2> QED BY <1>1, <2>1, <2>2, Publishes
<1> SUFFICES ASSUME ~Publish(h)
             PROVE  /\ h \in Registered(reg') /\ reg'.tasks[h].conn = "connected"
                    /\ held'[h] = "none"
  BY <1>1
<1>2. /\ pc[h] = "hosting" /\ host = h
      /\ h \in Registered(reg) /\ reg.tasks[h].conn = "connected" /\ held[h] = "none"
  BY DEF Moving, HostsItself, Inv, Placed, InLease
<1>3. ASSUME reg'.tasks[h] = reg.tasks[h], held'[h] = held[h]
      PROVE  /\ h \in Registered(reg') /\ reg'.tasks[h].conn = "connected"
             /\ held'[h] = "none"
  BY <1>2, <1>3 DEF Registered
<1>4. ASSUME NEW w \in Wrappers, RemoveTask(w), w # h
      PROVE  reg'.tasks[h] = reg.tasks[h] /\ held'[h] = held[h]
  BY <1>4, RemoveWrites DEF Inv, TypeOK
<1>5. ASSUME NEW w \in Wrappers, PendingExpires(w) \/ LeaseExpires(w) \/ HostLeaves(w) \/ ClientLeaves(w)
      PROVE  reg'.tasks[h] = reg.tasks[h] /\ held'[h] = held[h]
  <2>1. CASE PendingExpires(w) \/ LeaseExpires(w)
    BY <1>2, <1>4, <2>1 DEF PendingExpires, LeaseExpires
  <2>2. CASE HostLeaves(w) \/ ClientLeaves(w)
    <3>1. w # h  BY <2>2 DEF HostLeaves, ClientLeaves, Goes, Inv, TypeOK
    <3> QED BY <1>4, <2>2, <3>1 DEF HostLeaves, ClientLeaves, registryVars
  <2> QED BY <1>5, <2>1, <2>2
<1>6. ASSUME NEW w \in Wrappers, (\E want \in Wants : Join(w, want)) \/ Reregister(w)
      PROVE  reg'.tasks[h] = reg.tasks[h] /\ held'[h] = held[h]
  <2>1. /\ pc[w] \in {"joining", "rejoining"} /\ held' = [held EXCEPT ![w] = "pending"]
        /\ \E want, rec, newer : reg' = Register(reg, w, want, rec, newer)
    <3>1. CASE \E want \in Wants : Join(w, want)
      <4>1. PICK want : Join(w, want)  BY <3>1
      <4>2. reg' = Register(reg, w, want, None, FALSE)
        BY <4>1, SameOperators DEF Join, Registrations!RegisterFirst
      <4> QED BY <4>1, <4>2 DEF Join
    <3>2. CASE Reregister(w)
      <4> DEFINE rec  == RecoveryOf(Cached(w))
                 want == RecoverySlot(Cached(w))
      <4>1. \/ Registrations!RegisterFirst(w, want, rec, Cached(w).updated, Now(w))
            \/ Registrations!ReRegister(w, want, rec, Cached(w).updated, Now(w))
        BY <3>2 DEF Reregister
      <4> HIDE DEF rec, want
      <4>2. \E newer : reg' = Register(reg, w, want, rec, newer)
        BY <4>1, SameOperators DEF Registrations!RegisterFirst, Registrations!ReRegister
      <4> QED BY <3>2, <4>2 DEF Reregister
    <3> QED BY <1>6, <3>1, <3>2
  <2>2. w # h  BY <1>2, <2>1
  <2>3. PICK want, rec, newer : reg' = Register(reg, w, want, rec, newer)  BY <2>1
  <2>4. reg'.tasks[h] = reg.tasks[h]
    BY <2>2, <2>3, RegisterTouchesOne DEF Inv, TypeOK
  <2> QED BY <2>1, <2>2, <2>4 DEF Inv, TypeOK
<1>7. ASSUME NEW w \in Wrappers, SocketClosed(w)
      PROVE  reg'.tasks[h] = reg.tasks[h] /\ held'[h] = held[h]
  <2>1. w # h  BY <1>2, <1>7 DEF SocketClosed
  <2>2. reg' = MarkConnection(reg, w, "reconnecting") /\ held' = [held EXCEPT ![w] = "none"]
    BY <1>7, SameOperators DEF SocketClosed, Registrations!SetConnection
  <2> QED BY <2>1, <2>2 DEF MarkConnection, SetTask, Inv, TypeOK, Registry
<1>8. ASSUME NEW w \in Wrappers,
             \/ Start(w) \/ Recover(w) \/ GiveUp(w) \/ StreamEnds(w) \/ Deliver(w)
             \/ HardwareFails(w) \/ JoinFails(w) \/ StreamBreaks(w) \/ (Die(w) /\ host # w)
      PROVE  reg' = reg /\ held' = held
  BY <1>8 DEF Start, Recover, ListenRuntime, GiveUp, StreamEnds, Deliver, HardwareFails,
               JoinFails, StreamBreaks, Die, registryVars, hostVars
<1>9. ASSUME NEW w \in Wrappers, Connect(w)
      PROVE  reg'.tasks[h] = reg.tasks[h] /\ held'[h] = held[h]
  <2>1. w # h /\ reg' = reg  BY <1>2, <1>9 DEF Connect, registryVars
  <2>2. held' = held \/ held' = [held EXCEPT ![w] = "open"]  BY <1>9 DEF Connect
  <2> QED BY <2>1, <2>2 DEF Inv, TypeOK
<1>10. ASSUME NEW w \in Wrappers, Closed(w) \/ Publish(w) \/ (Die(w) /\ host = w) PROVE FALSE
  <2>1. CASE Closed(w) \/ (Die(w) /\ host = w)  BY <1>0, <2>1 DEF Closed, Die, NoHost
  <2>2. CASE Publish(w)
    <3>1. pc[w] = "starting"  BY <2>2 DEF Publish
    <3>2. host = w  BY <3>1 DEF Inv, Placed, InLease
    <3> QED BY <1>2, <3>1, <3>2
  <2> QED BY <1>10, <2>1, <2>2
<1>11. ASSUME NEW w \in Wrappers, NEW state \in Reports, Report(w, state)
       PROVE  /\ h \in Registered(reg') /\ reg'.tasks[h].conn = "connected"
              /\ held'[h] = "none"
  <2>1. Registrations!SetState(w, state, None, Now(w)) /\ held' = held /\ state \in AgentStates
    BY <1>11, ReportsAssumption DEF Report, hostVars
  <2>2. /\ Alone(w) /\ w \in Registered(reg')
        /\ reg'.tasks[w].conn = reg.tasks[w].conn
    BY <2>1, SetStateWrites DEF Inv
  <2> QED BY <1>2, <2>1, <2>2 DEF Alone, Same, Registered
<1>12. ASSUME NEW x \in Slots, SelectSlot(x)
       PROVE  /\ h \in Registered(reg') /\ reg'.tasks[h].conn = "connected"
              /\ held'[h] = "none"
  <2>1. PICK w \in Selectable(reg) : /\ reg.tasks[w].slot = x
                                     /\ Registrations!SelectSlot(x, Now(w)) /\ held' = held
    BY <1>12 DEF SelectSlot, hostVars
  <2>2. /\ Alone(w) /\ w \in Registered(reg')
        /\ reg'.tasks[w].conn = reg.tasks[w].conn
    BY <2>1, SelectWrites DEF Inv
  <2> QED BY <1>2, <2>1, <2>2 DEF Alone, Same, Registered
<1> QED
  <2>1. ASSUME NEW w \in Wrappers, Proceed(w) \/ Start(w) \/ Deliver(w)
        PROVE  reg'.tasks[h] = reg.tasks[h] /\ held'[h] = held[h]
    BY <1>6, <1>8, <1>9, <1>10, <2>1 DEF Proceed, Rejoin
  <2>2. ASSUME NEW w \in Wrappers, HostTimers(w) \/ Faults(w) \/ Ending(w)
        PROVE  reg'.tasks[h] = reg.tasks[h] /\ held'[h] = held[h]
    BY <1>5, <1>6, <1>7, <1>8, <1>10, <2>2 DEF HostTimers, Faults, Ending, RejoinUnanswered
  <2> QED BY <1>3, <1>11, <1>12, <2>1, <2>2 DEF Next

LEMMA ServedStay ==
  ASSUME Inv, ServedByHosts, Next, \A x \in Wrappers : Moving(x)
  PROVE  ServedByHosts'
<1> SUFFICES ASSUME NEW w \in Wrappers, served'[w] # None
             PROVE  pc'[served'[w]] \in {"hosting", "leaving", "gone"}
  BY DEF ServedByHosts
<1>1. served'[w] = served[w] \/ (serving /\ served'[w] = host)
  <2>1. ASSUME NEW v \in Wrappers, (\E want \in Wants : Join(v, want)) \/ Rejoin(v)
        PROVE  serving /\ served' = [served EXCEPT ![v] = host]
    BY <2>1 DEF Join, Rejoin, Reregister, Granted
  <2>2. \/ UNCHANGED served
        \/ \E v \in Wrappers : serving /\ served' = [served EXCEPT ![v] = host]
    BY <2>1 DEF Next, Start, Proceed, Recover, ListenRuntime, Publish, Closed,
                GiveUp, Connect, StreamEnds, HostTimers, SocketClosed, PendingExpires,
                LeaseExpires, Faults, HardwareFails, JoinFails, RejoinUnanswered, StreamBreaks,
                Ending, HostLeaves, ClientLeaves, Die, Report, SelectSlot, Deliver, clientVars
  <2> QED BY <2>2 DEF Inv, TypeOK
<1>2. served'[w] \in Wrappers /\ pc[served'[w]] \in {"hosting", "leaving", "gone"}
  BY <1>1 DEF ServedByHosts, Inv, TypeOK, Placed
<1> QED BY <1>2 DEF Moving, Hosts

\* A status shows what was agreed on, or makes it what the host has.
LEMMA DeliveredKept ==
  ASSUME Inv, Since, NEW w \in Wrappers, Deliver(w)
  PROVE  settled' # None => Sound(settled') /\ Kept(settled)'
<1>0. /\ last' = [last EXCEPT ![w] = [reg |-> reg, updated |-> updated]]
      /\ first' = [first EXCEPT ![w] = None]
      /\ settled' = IF Agreed(last') THEN reg ELSE settled
      /\ UNCHANGED <<reg, host, serving, held, pc, served>>
      /\ pc[w] = "streaming" /\ held[w] = "open"
  BY DEF Deliver, registryVars, hostVars, Inv, TypeOK, Connected
<1>1. /\ [reg |-> reg, updated |-> updated] \in Status
      /\ last'[w] = [reg |-> reg, updated |-> updated]
      /\ \A v \in Wrappers \ {w} : last'[v] = last[v] /\ first'[v] = first[v]
  BY <1>0 DEF Inv, TypeOK, Status
<1>2. last'[w] # None /\ last'[w].reg = reg  BY <1>1, NoneIsNoCache
<1>3. /\ Alive' = Alive /\ Clients' = Clients /\ Seeded' = Seeded /\ Seeded
  <2>1. w \in Registered(reg)  BY <1>0 DEF Inv, Placed
  <2>2. Seeded
    <3>1. reg # EmptyRegistry  BY <2>1 DEF EmptyRegistry, Registered
    <3> QED BY <3>1 DEF Inv, Placed
  <2> QED BY <1>0, <2>2 DEF Alive, Clients, Hosts, Seeded
<1> SUFFICES ASSUME NEW G, G = settled', G # None
             PROVE  Sound(G) /\ Kept(settled)'
  OBVIOUS
<1>4. CASE G = settled
  <2>1. Sound(G) /\ Kept(G)  BY <1>4 DEF Since
  <2>2. ASSUME NEW x \in Registered(G) PROVE KeptTask(G, x)'
    <3>1. KeptTask(G, x)  BY <2>1 DEF Kept
    <3>2. ASSUME x \in Alive, NEW v \in Clients, last'[v] # None, x \in Registered(last'[v].reg)
          PROVE  Look(last'[v].reg.tasks[x]) = Look(G.tasks[x])
      <4>1. CASE v = w  BY <1>2, <3>1, <3>2, <4>1 DEF KeptTask
      <4>2. CASE v # w
        <5>1. last'[v] = last[v]  BY <1>1, <4>2 DEF Clients, Alive
        <5> QED BY <3>1, <3>2, <5>1 DEF KeptTask
      <4> QED BY <4>1, <4>2
    <3>3. x \in Clients /\ last[x] # None => last'[x] # None
      BY <1>1, <1>2 DEF Clients, Alive
    <3> QED BY <1>0, <1>3, <3>1, <3>2, <3>3 DEF KeptTask
  <2>3. KeptChoice(G)'
    <3> SUFFICES ASSUME G.selected \in Alive, pc[G.selected] # "leaving"
                 PROVE  /\ reg.selected = G.selected
                        /\ \A v \in Clients :
                             /\ last'[v] # None => last'[v].reg.selected = G.selected
                             /\ last'[v] = None /\ first'[v] # None => ~first'[v].selected
      BY <1>0, <1>3 DEF KeptChoice
    <3>1. /\ reg.selected = G.selected
          /\ \A v \in Clients : /\ last[v] # None => last[v].reg.selected = G.selected
                                /\ last[v] = None /\ first[v] # None => ~first[v].selected
      BY <1>3, <2>1 DEF Kept, KeptChoice
    <3> QED BY <1>1, <1>2, <3>1 DEF Clients, Alive
  <2> QED BY <1>4, <2>1, <2>2, <2>3 DEF Kept
<1>5. CASE G # settled
  <2>1. Agreed(last') /\ G = reg  BY <1>0, <1>5
  <2>2. \A v \in Alive : /\ pc[v] \in {"hosting", "streaming"}
                         /\ v # host => last'[v] # None /\ last'[v].reg = reg
                         /\ v \in Registered(reg) /\ reg.tasks[v].conn = "connected"
    <3> SUFFICES ASSUME NEW v \in Alive
                 PROVE  /\ pc[v] \in {"hosting", "streaming"}
                        /\ v # host => last'[v] # None /\ last'[v].reg = reg
                        /\ v \in Registered(reg) /\ reg.tasks[v].conn = "connected"
      OBVIOUS
    <3>1. /\ Attached(v) /\ v \in Wrappers
          /\ v # host => last'[v] # None /\ last'[v].reg = reg
      BY <2>1 DEF Agreed, Alive
    <3>2. CASE pc[v] = "hosting"  BY <3>1, <3>2 DEF Since, HostsItself
    <3>3. CASE pc[v] = "streaming" /\ Connected(v)
      BY <3>1, <3>3 DEF Connected, Inv, Placed
    <3> QED BY <3>1, <3>2, <3>3 DEF Attached
  <2>3. \A v \in Clients : last'[v] # None /\ last'[v].reg = reg
    <3>1. serving /\ pc[host] = "hosting"  BY <2>1 DEF Agreed, Inv, Placed
    <3> QED BY <2>2, <3>1 DEF Clients, Hosts
  <2>4. ASSUME NEW x \in Registered(G) PROVE KeptTask(G, x)'
    <3>1. pc[x] # "out"
      <4>1. x \in Wrappers /\ x \in Registered(reg)  BY <2>1 DEF Registered
      <4> QED BY <4>1 DEF Inv, Kin, Unknown
    <3>2. x \in Alive => /\ pc[x] # "joining" /\ G.tasks[x].conn = "connected"
                         /\ x \in Clients => last'[x] # None
                         /\ \A v \in Clients : Look(last'[v].reg.tasks[x]) = Look(G.tasks[x])
      BY <2>1, <2>2, <2>3
    <3> QED BY <1>0, <1>3, <2>1, <3>1, <3>2 DEF KeptTask
  <2>5. KeptChoice(G)'
    BY <1>0, <1>3, <2>1, <2>3 DEF KeptChoice
  <2>6. Sound(G)  BY <2>1 DEF Inv, Caches
  <2> QED BY <2>4, <2>5, <2>6 DEF Kept
<1> QED BY <1>4, <1>5

\* What a host forgets of the choice changes no task.
LEMMA ForgetsKeeps ==
  ASSUME NEW G, Sound(G), NEW H, H \in {G, [G EXCEPT !.selected = None]}
  PROVE  Sound(H) /\ H.tasks = G.tasks /\ H.selected \in {G.selected, None}
<1>1. CASE H = G  BY <1>1
<1>2. CASE H = [G EXCEPT !.selected = None]
  <2>1. H \in Registry /\ H.tasks = G.tasks /\ H.selected = None
    BY <1>2 DEF Sound, Registry
  <2> QED BY <2>1 DEF Sound, SlotsUnshared, SelectionInSlot, Registered
<1> QED BY <1>1, <1>2

\* Nothing but a status makes anything of what was agreed on, but less of it.
LEMMA SettledStays ==
  ASSUME Inv, Next, QuietStep, settled' # None
  PROVE  /\ settled # None /\ settled' \in {settled, [settled EXCEPT !.selected = None]}
         /\ settled' # settled => settled.selected \notin Registered(reg')
<1>1. last' = last  BY DEF QuietStep, TaskStep
<1>2. ASSUME NEW w \in Wrappers, Deliver(w) PROVE FALSE
  BY <1>1, <1>2 DEF Deliver, Inv, TypeOK
<1>3. ASSUME Forgets
      PROVE  /\ settled # None /\ settled' \in {settled, [settled EXCEPT !.selected = None]}
             /\ settled' # settled => settled.selected \notin Registered(reg')
  BY <1>3 DEF Forgets
<1> QED
  BY <1>2, <1>3
     DEF Next, Start, Proceed, Recover, ListenRuntime, Publish, Closed, Join, Rejoin,
         GiveUp, Connect, StreamEnds, HostTimers, SocketClosed, PendingExpires,
         LeaseExpires, Faults, HardwareFails, JoinFails, RejoinUnanswered, StreamBreaks,
         Ending, HostLeaves, ClientLeaves, Die, Report, SelectSlot, ghostVars

LEMMA SinceInit == Init => Since
BY DEF Init, Since, HostsItself, ServedByHosts

LEMMA SinceNext == Inv /\ Since /\ [Next]_vars => Since'
<1> SUFFICES ASSUME Inv, Since, [Next]_vars PROVE Since'
  OBVIOUS
<1>0. Inv'  BY NextInv
<1>1. CASE UNCHANGED vars
  BY <1>1 DEF vars, registryVars, hostVars, clientVars, ghostVars, Since, HostsItself,
              ServedByHosts, Kept, KeptTask, KeptChoice, Clients, Alive, Hosts, Seeded
<1>2. CASE Next
  <2>1. \A v \in Wrappers : Moving(v)  BY <1>2, ProcessesMove DEF Inv
  <2>2. HostsItself' /\ ServedByHosts'
    BY <1>0, <1>2, <2>1, HostStaysRegistered, ServedStay DEF Since
  <2>3. CASE QuietStep /\ settled' # None
    <3>1. PICK G : G = settled  OBVIOUS
    <3>2. PICK H : H = settled'  OBVIOUS
    <3>3. /\ G # None /\ H \in {G, [G EXCEPT !.selected = None]}
      BY <1>2, <2>3, <3>1, <3>2, SettledStays
    <3>4. Sound(G) /\ Kept(G)  BY <3>1, <3>3 DEF Since
    <3>5. Sound(H) /\ H.tasks = G.tasks /\ H.selected \in {G.selected, None} /\ H # None
      BY <2>3, <3>2, <3>3, <3>4, ForgetsKeeps
    <3>6. ASSUME NEW w \in Registered(G) PROVE KeptTask(G, w)'
      BY <2>1, <2>3, <3>4, TaskStaysKept DEF Kept
    <3>7. \A w \in Registered(H) : KeptTask(H, w)'
      BY <3>5, <3>6 DEF KeptTask, Registered
    <3>8. KeptChoice(settled)'
      BY <1>0, <1>2, <2>1, <2>3, <3>1, <3>2, <3>4, <3>5, ChoiceStaysKept DEF Since
    <3> QED BY <2>2, <3>2, <3>5, <3>7, <3>8 DEF Since, Kept
  <2>4. CASE settled' = None  BY <2>2, <2>4 DEF Since
  <2>5. CASE \E w \in Wrappers : Deliver(w)
    BY <2>2, <2>5, DeliveredKept DEF Since
  <2> QED BY <1>2, <2>3, <2>4, <2>5, NextSteps DEF Moves
<1> QED BY <1>1, <1>2

LEMMA LooksAndConnects ==
  ASSUME NEW a \in Task, NEW b \in Task, Look(a) = Look(b), a.conn = b.conn
  PROVE  a = b
BY DEF Task, Look, Shown

\* A host alone, that somebody reports to or chooses at, was as attached before.
LEMMA EventsMoveNobody ==
  ASSUME TypeOK, Next, \A w \in Wrappers : ~Deliver(w), settled # None, settled' = None
  PROVE  UNCHANGED <<hostVars, pc, clientVars>>
<1>1. ASSUME Forgets PROVE FALSE
  <2>1. settled \in Registry  BY DEF TypeOK
  <2>2. [settled EXCEPT !.selected = None] \in Registry  BY <2>1 DEF Registry
  <2>3. settled' # None  BY <1>1, <2>2, NoneIsNoCache DEF Forgets
  <2> QED BY <2>3
<1> QED
  BY <1>1
     DEF Next, Start, Proceed, Recover, ListenRuntime, Publish, Closed, Join, Rejoin,
         GiveUp, Connect, StreamEnds, HostTimers, SocketClosed, PendingExpires,
         LeaseExpires, Faults, HardwareFails, JoinFails, RejoinUnanswered, StreamBreaks,
         Ending, HostLeaves, ClientLeaves, Die, Report, SelectSlot, ghostVars

LEMMA AgreeingAgain ==
  ASSUME Inv, Inv', Since, Since', Next, settled # None, Agreed(last)', ~Agreed(last)
  PROVE  CarriedOver(settled, reg', Alive')
<1>0. PICK G : G = settled  OBVIOUS
<1>1. Sound(G) /\ Kept(G)  BY <1>0 DEF Since
<1>2. \A v \in Wrappers : Moving(v)  BY ProcessesMove DEF Inv
<1>3. \A v \in Alive' :
        /\ v \in Wrappers /\ pc'[v] \in {"hosting", "streaming"}
        /\ v # host' => pc'[v] = "streaming" /\ last'[v] # None /\ last'[v].reg = reg'
        /\ v \in Registered(reg') /\ reg'.tasks[v].conn = "connected"
  <2> SUFFICES ASSUME NEW v \in Alive'
               PROVE  /\ v \in Wrappers /\ pc'[v] \in {"hosting", "streaming"}
                      /\ v # host' => pc'[v] = "streaming" /\ last'[v] # None /\ last'[v].reg = reg'
                      /\ v \in Registered(reg') /\ reg'.tasks[v].conn = "connected"
    OBVIOUS
  <2>1. HostsItself'  BY DEF Since
  <2>2. /\ Attached(v)' /\ v \in Wrappers
        /\ v # host' => last'[v] # None /\ last'[v].reg = reg'
    BY DEF Agreed, Alive
  <2>3. CASE pc'[v] = "hosting"
    BY <2>1, <2>2, <2>3 DEF HostsItself, Inv, Placed, InLease
  <2>4. CASE pc'[v] = "streaming" /\ Connected(v)'
    BY <2>2, <2>4 DEF Connected, Inv, Placed
  <2> QED BY <2>2, <2>3, <2>4 DEF Attached
<1>4. ASSUME NEW w \in Registered(G), w \in Alive'
      PROVE  w \in Alive /\ KeptTask(G, w) /\ pc[w] # "leaving"
  <2>1. KeptTask(G, w) /\ w \in Wrappers  BY <1>1 DEF Kept, Registered
  <2>2. pc'[w] \notin {"out", "gone", "leaving"}  BY <1>3, <1>4
  <2> QED BY <1>2, <2>1, <2>2 DEF Moving, KeptTask, Alive
<1>5. \/ G.selected = None \/ G.selected \in Registered(G)
  BY <1>1 DEF Sound, SelectionInSlot
<1>6. serving' /\ Seeded' /\ host' \in Wrappers /\ pc'[host'] = "hosting"
  BY NoneAssumption DEF Agreed, Inv, Placed, Seeded, TypeOK
<1>7. None \notin Alive'  BY NoneAssumption DEF Alive
<1> SUFFICES /\ \A w \in Registered(G) \cap Alive' : Look(reg'.tasks[w]) = Look(G.tasks[w])
             /\ G.selected \in Alive' => reg'.selected = G.selected
  <2>1. ASSUME NEW w \in Registered(G) \cap Alive', Look(reg'.tasks[w]) = Look(G.tasks[w])
        PROVE  reg'.tasks[w] = G.tasks[w]
    <3>1. reg'.tasks[w] \in Task /\ G.tasks[w] \in Task
      BY <1>1, <1>3 DEF Inv, TypeOK, Sound, Registry, Registered
    <3>2. reg'.tasks[w].conn = G.tasks[w].conn
      BY <1>3, <1>4 DEF KeptTask
    <3> QED BY <2>1, <3>1, <3>2, LooksAndConnects
  <2> QED BY <1>0, <2>1 DEF CarriedOver
<1>8. CASE \E x \in Wrappers : Deliver(x)
  <2>1. reg' = reg /\ pc' = pc /\ host' = host
    BY <1>8 DEF Deliver, registryVars, hostVars
  <2>2. Seeded  BY <1>6, <2>1 DEF Seeded
  <2>3. \A w \in Registered(G) \cap Alive' : Look(reg'.tasks[w]) = Look(G.tasks[w])
    BY <1>3, <1>4, <2>1 DEF KeptTask
  <2>4. G.selected \in Alive' => reg'.selected = G.selected
    BY <1>1, <1>4, <1>5, <1>7, <2>1, <2>2 DEF Kept, KeptChoice
  <2> QED BY <2>3, <2>4
<1>9. CASE (\A x \in Wrappers : ~Deliver(x)) /\ \E v \in Alive' : v # host'
  <2>1. PICK v \in Alive' : v # host'  BY <1>9
  <2>2. last' = last  BY <1>9, OnlyStatusesTeach
  <2>3. v \in Wrappers /\ v \in Clients' /\ last[v] # None /\ last[v].reg = reg'
    BY <1>3, <2>1, <2>2 DEF Clients, Hosts
  <2>4. v \in Clients  BY <1>2, <2>3, ClientsWere
  <2>5. \A w \in Registered(G) \cap Alive' : Look(reg'.tasks[w]) = Look(G.tasks[w])
    BY <1>3, <1>4, <2>3, <2>4 DEF KeptTask
  <2>6. G.selected \in Alive' => reg'.selected = G.selected
    BY <1>1, <1>4, <1>5, <1>7, <2>3, <2>4 DEF Kept, KeptChoice
  <2> QED BY <2>5, <2>6
<1>10. CASE (\A x \in Wrappers : ~Deliver(x)) /\ \A v \in Alive' : v = host'
  <2>1. CASE settled' = None
    <3>1. UNCHANGED <<hostVars, pc, clientVars>>
      BY <1>10, <2>1, EventsMoveNobody DEF Inv
    <3>2. serving /\ pc[host] = "hosting" /\ \A v \in Alive : v = host
      BY <1>6, <1>10, <3>1 DEF hostVars, Alive
    <3>3. Agreed(last)  BY <3>2 DEF Agreed, Attached
    <3> QED BY <3>3
  <2>2. CASE settled' # None
    <3>1. QuietStep  BY <1>10, <2>2, NextSteps DEF Moves
    <3>2. PICK H : H = settled'  OBVIOUS
    <3>3. /\ H \in {G, [G EXCEPT !.selected = None]}
          /\ H # G => G.selected \notin Registered(reg')
      BY <1>0, <2>2, <3>1, <3>2, SettledStays
    <3>4. Sound(H) /\ H.tasks = G.tasks /\ H.selected \in {G.selected, None}
      BY <1>1, <3>3, ForgetsKeeps
    <3>5. Kept(H)'  BY <2>2, <3>2 DEF Since, Kept, KeptTask, KeptChoice
    <3>6. ASSUME NEW w \in Registered(G), w \in Alive'
          PROVE  Look(reg'.tasks[w]) = Look(G.tasks[w])
      <4>1. KeptTask(H, w)' /\ w \in Registered(reg')
        BY <1>3, <3>4, <3>5, <3>6 DEF Kept, Registered
      <4> QED BY <3>4, <3>6, <4>1 DEF KeptTask
    <3>7. ASSUME G.selected \in Alive' PROVE reg'.selected = G.selected
      <4>1. G.selected \in Registered(reg') /\ pc'[G.selected] # "leaving"
        BY <1>3, <3>7
      <4>2. H = G  BY <3>3, <4>1
      <4> QED BY <1>6, <3>5, <3>7, <4>1, <4>2 DEF Kept, KeptChoice
    <3> QED BY <3>6, <3>7
  <2> QED BY <2>1, <2>2
<1> QED BY <1>8, <1>9, <1>10

\* When everybody agrees again, after any number of crashes, promotions,
\* registrations and broken streams, no survivor's task has moved or changed
\* since everybody last agreed, and the selection is the one it was, unless an
\* agent reported, the user chose, or a host went on without the selected task.
THEOREM CrashesAreInvisible == Spec => CrashIsInvisible
<1> DEFINE Carried == settled # None /\ Agreed(last)' /\ ~Agreed(last)
                        => CarriedOver(settled, reg', Alive')
<1>1. Init => Since  BY SinceInit
<1>2. Inv /\ Since /\ [Next]_vars => Since'  BY SinceNext
<1>3. Spec => []Since  BY <1>1, <1>2, RecoveryInvariant, PTL DEF Spec
<1>4. Inv /\ Inv' /\ Since /\ Since' /\ [Next]_vars => [Carried]_vars
  BY AgreeingAgain
<1>5. Spec => [][Carried]_vars  BY <1>3, <1>4, RecoveryInvariant, PTL DEF Spec
<1> QED BY <1>5 DEF CrashIsInvisible
=============================================================================
