---------------------------- MODULE PrivateFiles ----------------------------
(***************************************************************************)
(* How OpenControl changes a file that is not its alone: the hook settings *)
(* of an agent (src/src/hooks-install.ts), which the agent and its user    *)
(* edit too, and its own config.json (src/src/layers.ts), which several    *)
(* processes load, seed, migrate and save.  Both go through the read and   *)
(* the atomic write of src/src/secure-files.ts, one system call at a time. *)
(* Files are inodes; a name leads to one of them.  Other people's saves,   *)
(* by rename or in place, a process that dies and a power failure may come *)
(* at any point.                                                           *)
(*                                                                         *)
(* Of a file's text this keeps what the writers are about: whether it has  *)
(* what OpenControl wants of it (its hook entries; the current schema),    *)
(* and which saves of its user it contains.                                *)
(***************************************************************************)
EXTENDS Naturals, FiniteSets

CONSTANTS Installers,  \* processes in updateHookFile
          Loaders,     \* processes in loadConfig
          Setups,      \* opencontrol setup: loads, asks its user, saves
          Inodes,      \* a file system with this many inodes
          MaxRetries,  \* of updateHookFile: three in the product
          Budgets,     \* what others do to the file, and the power
          None

ASSUME FilesAssumption == MaxRetries \in Nat /\ None \notin Inodes

Procs == Installers \cup Loaders \cup Setups

VARIABLES path,     \* the inode the name leads to
          durable,  \* where it leads after a power failure, or else to path
          disk,
          editing,  \* the inode somebody else is writing in place
          pc, proc, \* each process: where it is, what it holds
          budget,
          exposed   \* ghost: processes a save slipped past (see below)

vars == <<path, durable, disk, editing, pc, proc, budget, exposed>>

Numbers == 1 .. 3
Texts   == [wanted : BOOLEAN, saves : SUBSET Numbers]
Files   == [text : Texts, whole : BOOLEAN, synced : BOOLEAN, foreign : BOOLEAN]

ASSUME NoneIsNoFile == None \notin Files

Steps == {"start", "found", "absent", "asking", "writing", "observed", "filled", "synced",
          "free", "same", "published", "done", "failed", "dead"}

Fresh == [seen |-> None, existed |-> FALSE, text |-> [wanted |-> FALSE, saves |-> {}],
          observed |-> None, temp |-> None, attempt |-> 0]

TypeOK ==
  /\ path \in Inodes \cup {None} /\ durable \in Inodes \cup {None}
  /\ disk \in [Inodes -> Files \cup {None}]
  /\ editing \in Inodes \cup {None}
  /\ pc \in [Procs -> Steps]
  /\ proc \in [Procs -> [seen : Inodes \cup {None}, existed : BOOLEAN, text : Texts,
                         observed : Inodes \cup {None}, temp : Inodes \cup {None},
                         attempt : 0 .. MaxRetries]]
  /\ exposed \subseteq Procs
  /\ path # None => disk[path] # None

\* The file, a hooks file or a config, before: none, one that OpenControl has
\* not been at, or one it has.
Init ==
  /\ \E users \in {Installers, Loaders \cup Setups} :
       pc = [p \in Procs |-> IF p \in users THEN "start" ELSE "done"]
  /\ \E first \in {None} \cup {i \in Inodes : \A j \in Inodes : i <= j}, wanted \in BOOLEAN :
       /\ path = first /\ durable = first
       /\ disk = [i \in Inodes |->
                    IF i # first THEN None
                    ELSE [text |-> [wanted |-> wanted, saves |-> {}],
                          whole |-> TRUE, synced |-> TRUE, foreign |-> TRUE]]
  /\ editing = None
  /\ proc = [p \in Procs |-> Fresh]
  /\ budget \in Budgets
  /\ exposed = {}

Spend(what) == budget[what] > 0 /\ budget' = [budget EXCEPT ![what] = @ - 1]

\* Inodes are numbers that are given out again once nothing refers to them.
Free(i) == i \notin {path, durable, editing} /\ \A p \in Procs : proc[p].temp # i

Goes(p, step) == pc' = [pc EXCEPT ![p] = step]

environment == <<path, durable, disk, editing, budget>>

-----------------------------------------------------------------------------
(***************************************************************************)
(* readOwnedRegularFile, and what becomes of the text.                     *)
(***************************************************************************)
\* A race starts updateHookFile again, and fails everybody else.
Retries(p) == p \in Installers /\ proc[p].attempt < MaxRetries

Ends(p, step) == Goes(p, step) /\ proc' = [proc EXCEPT ![p] = Fresh]

Race(p) ==
  IF Retries(p)
    THEN Goes(p, "start") /\ proc' = [proc EXCEPT ![p] = [Fresh EXCEPT !.attempt = proc[p].attempt + 1]]
    ELSE Ends(p, "failed")

\* lstat.  Without a file the text is an empty object, or the default config.
Inspect(p) ==
  /\ pc[p] = "start"
  /\ IF path = None
       THEN Goes(p, "absent") /\ proc' = [proc EXCEPT ![p].existed = FALSE]
       ELSE Goes(p, "found") /\ proc' = [proc EXCEPT ![p].seen = path, ![p].existed = TRUE]
  /\ exposed' = exposed \ {p}
  /\ UNCHANGED environment

\* open, fstat, read and parse.  What cannot be opened or parsed is left alone.
Read(p) ==
  /\ pc[p] = "found"
  /\ IF path = None THEN Ends(p, "failed")
     ELSE IF path # proc[p].seen THEN Race(p)
     ELSE IF ~disk[path].whole THEN Ends(p, "failed")
     ELSE IF disk[path].text.wanted /\ p \notin Setups THEN Ends(p, "done")
     ELSE /\ proc' = [proc EXCEPT ![p].text = disk[path].text, ![p].seen = None]
          /\ Goes(p, IF p \in Setups THEN "asking" ELSE "writing")
  /\ exposed' = exposed \ {p}
  /\ UNCHANGED environment

ReadNothing(p) ==
  /\ pc[p] = "absent"
  /\ Goes(p, IF p \in Setups THEN "asking" ELSE "writing")
  /\ UNCHANGED <<environment, proc, exposed>>

\* The user of setup answers: save number n, on top of what was loaded.
Answer(p) ==
  \E n \in Numbers :
    /\ pc[p] = "asking" /\ n = budget.next
    /\ budget' = [budget EXCEPT !.next = n + 1]
    /\ proc' = [proc EXCEPT ![p].text.saves = @ \cup {n}]
    /\ Goes(p, "writing")
    /\ UNCHANGED <<path, durable, disk, editing, exposed>>

-----------------------------------------------------------------------------
(***************************************************************************)
(* atomicWritePrivateFile.                                                 *)
(***************************************************************************)
\* overwrite: the config is always overwritten, hooks only if they were read.
Overwrites(p) == p \notin Installers \/ proc[p].existed

\* What the checks cannot see.  A new text in inode i slips past a process that
\* has read the file and not yet observed it, past one that has checked it and
\* not yet renamed, and past one that observed that very inode: a text saved in
\* place, or under a number given out again.
SlippedPast(i) ==
  {p \in Procs : \/ pc[p] = "same"
                 \/ pc[p] \in {"absent", "asking", "writing"} /\ Overwrites(p)
                 \/ pc[p] \in {"observed", "filled", "synced"} /\ proc[p].observed = i}

Observe(p) ==
  /\ pc[p] = "writing"
  /\ IF path # None /\ ~Overwrites(p)
       THEN Race(p)
       ELSE Goes(p, "observed") /\ proc' = [proc EXCEPT ![p].observed = path]
  /\ UNCHANGED <<environment, exposed>>

\* The temporary, with the text and the entries OpenControl wants in it.
FillTemporary(p) ==
  \E i \in Inodes :
    /\ pc[p] = "observed" /\ Free(i) /\ \A j \in Inodes : Free(j) => i <= j
    /\ disk' = [disk EXCEPT ![i] = [text |-> [proc[p].text EXCEPT !.wanted = TRUE],
                                    whole |-> TRUE, synced |-> FALSE, foreign |-> FALSE]]
    /\ proc' = [proc EXCEPT ![p].temp = i]
    /\ Goes(p, "filled")
    /\ UNCHANGED <<path, durable, editing, budget, exposed>>

\* Mutant: no fsync before the rename.
LeaveUnsynced(p) ==
  /\ pc[p] = "filled"
  /\ Goes(p, "synced")
  /\ UNCHANGED <<environment, proc, exposed>>

SyncTemporary(p) ==
  /\ pc[p] = "filled"
  /\ disk' = [disk EXCEPT ![proc[p].temp].synced = TRUE]
  /\ Goes(p, "synced")
  /\ UNCHANGED <<path, durable, editing, proc, budget, exposed>>

\* Mutant: whatever is there now is replaced.
CheckNothing(p) ==
  /\ pc[p] = "synced"
  /\ Goes(p, IF path = None THEN "free" ELSE "same") /\ UNCHANGED proc
  /\ UNCHANGED <<environment, exposed>>

\* The destination is inspected again, and must be the file observed before.
CheckSame(p) ==
  /\ pc[p] = "synced"
  /\ IF proc[p].observed = None \/ path = None THEN Goes(p, "free") /\ UNCHANGED proc
     ELSE IF path # proc[p].observed THEN Race(p)
     ELSE Goes(p, "same") /\ UNCHANGED proc
  /\ UNCHANGED <<environment, exposed>>

\* rename replaces whatever has the name by now.
Rename(p) ==
  /\ pc[p] = "same"
  /\ path' = proc[p].temp
  /\ Goes(p, "published")
  /\ exposed' = exposed \cup SlippedPast(proc[p].temp)
  /\ UNCHANGED <<durable, disk, editing, proc, budget>>

\* publishWithoutReplace: link fails if there is a file.
Link(p) ==
  /\ pc[p] = "free"
  /\ IF path = None
       THEN /\ path' = proc[p].temp /\ Goes(p, "published") /\ UNCHANGED proc
            /\ exposed' = exposed \cup SlippedPast(proc[p].temp)
       ELSE Race(p) /\ UNCHANGED <<path, exposed>>
  /\ UNCHANGED <<durable, disk, editing, budget>>

\* fsyncParentDirectory, and the temporary's own name goes.
Finish(p) ==
  /\ pc[p] = "published"
  /\ durable' = path
  /\ Ends(p, "done")
  /\ UNCHANGED <<path, disk, editing, budget, exposed>>

-----------------------------------------------------------------------------
(***************************************************************************)
(* Everybody else.                                                         *)
(***************************************************************************)
Content == IF path = None THEN [wanted |-> FALSE, saves |-> {}] ELSE disk[path].text

\* An editor saves by rename what it just read, with or without our entries.
ForeignSave ==
  \E i \in Inodes, n \in Numbers, wanted \in {Content.wanted, FALSE} :
    /\ budget.saves > 0 /\ n = budget.next
    /\ Free(i) /\ \A j \in Inodes : Free(j) => i <= j
    /\ budget' = [budget EXCEPT !.saves = @ - 1, !.next = n + 1]
    /\ path # None => disk[path].whole
    /\ disk' = [disk EXCEPT ![i] = [text |-> [wanted |-> wanted, saves |-> Content.saves \cup {n}],
                                    whole |-> TRUE, synced |-> TRUE, foreign |-> TRUE]]
    /\ path' = i /\ durable' = i
    /\ exposed' = exposed \cup SlippedPast(i)
    /\ UNCHANGED <<editing, pc, proc>>

\* An editor saves in place: it truncates the file, and then writes it.
EditInPlace ==
  /\ path # None /\ editing = None /\ disk[path].whole /\ Spend("edits")
  /\ editing' = path
  /\ disk' = [disk EXCEPT ![path].whole = FALSE, ![path].foreign = TRUE]
  /\ UNCHANGED <<path, durable, pc, proc, exposed>>

FinishEdit ==
  \E n \in Numbers :
    /\ editing # None /\ n = budget.next
    /\ budget' = [budget EXCEPT !.next = n + 1]
    /\ disk' = [disk EXCEPT ![editing].whole = TRUE, ![editing].text.saves = @ \cup {n}]
    /\ editing' = None
    /\ exposed' = exposed \cup SlippedPast(editing)
    /\ UNCHANGED <<path, durable, pc, proc>>

Remove ==
  /\ path # None /\ Spend("removals")
  /\ path' = None /\ durable' = None
  /\ UNCHANGED <<disk, editing, pc, proc, exposed>>

Busy == {p \in Procs : pc[p] \notin {"start", "done", "failed", "dead"} \/ proc[p].attempt > 0}

Crash(p) ==
  /\ p \in Busy /\ Spend("crashes")
  /\ Goes(p, "dead")
  /\ UNCHANGED <<path, durable, disk, editing, proc, exposed>>

\* The power fails: every running process ends, the name may lead where it led
\* before it was synced, and what was not synced may be gone.
PowerFailure ==
  \E to \in {path, durable}, torn \in SUBSET {i \in Inodes : disk[i] # None /\ ~disk[i].synced} :
    /\ Spend("failures")
    /\ path' = to /\ durable' = to
    /\ disk' = [i \in Inodes |-> IF i \in torn THEN [disk[i] EXCEPT !.whole = FALSE] ELSE disk[i]]
    /\ editing' = None
    /\ pc' = [p \in Procs |-> IF p \in Busy THEN "dead" ELSE pc[p]]
    /\ UNCHANGED <<proc, exposed>>

-----------------------------------------------------------------------------
Write(p) ==
  \/ Observe(p) \/ FillTemporary(p) \/ SyncTemporary(p) \/ CheckSame(p)
  \/ Rename(p) \/ Link(p) \/ Finish(p)

Process(p) == Inspect(p) \/ Read(p) \/ ReadNothing(p) \/ Answer(p) \/ Write(p) \/ Crash(p)

Others == ForeignSave \/ EditInPlace \/ FinishEdit \/ Remove \/ PowerFailure

Next == (\E p \in Procs : Process(p)) \/ Others

Spec == Init /\ [][Next]_vars

-----------------------------------------------------------------------------
\* Whoever reads the file finds one whole text, whatever dies when: a writer
\* between any two system calls, or the power before the directory was synced.
\* Only somebody else's writing in place can leave it torn.
FileWhole == path # None => disk[path].whole \/ disk[path].foreign

\* The saves that publishing by p takes away.
Takes(p) == IF path = None THEN {} ELSE disk[path].text.saves \ disk[proc[p].temp].text.saves

\* A save is overwritten by a process that has not read it only if it slipped
\* past that process in one of the ways above.  In particular it survives if
\* it comes, by rename, while the new file is being written and synced.
LostOnlyUnseen ==
  [][\A p \in Procs : Rename(p) /\ Takes(p) # {} => p \in exposed]_vars
=============================================================================
