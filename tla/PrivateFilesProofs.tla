------------------------ MODULE PrivateFilesProofs -------------------------
(***************************************************************************)
(* Proofs about PrivateFiles, for any number of processes, inodes and      *)
(* retries: whoever reads the file finds one whole text, and a save is     *)
(* overwritten only by a process it slipped past.                          *)
(***************************************************************************)
EXTENDS PrivateFiles, TLAPS

-----------------------------------------------------------------------------
(***************************************************************************)
(* The inductive invariant.                                                *)
(***************************************************************************)
\* Where the name leads, now or after a power failure, is a file that the power
\* cannot tear, or somebody else's.
Steady(i) ==
  /\ disk[i] # None
  /\ disk[i].foreign \/ (disk[i].whole /\ disk[i].synced)

NamesSteady == \A i \in {path, durable} \ {None} : Steady(i)

EditedThere == editing # None => disk[editing] # None

\* The temporary of a writer between its creation and its publication is whole,
\* synced from the fsync on, and not the file yet.
Unpublished == {"filled", "synced", "free", "same"}

Prepared(p) ==
  pc[p] \in Unpublished =>
    LET i == proc[p].temp IN
    /\ i # None /\ i # path /\ disk[i] # None
    /\ disk[i].whole
    /\ pc[p] # "filled" => disk[i].synced

\* No two processes share a temporary.
Apart(p, q) == p # q /\ proc[p].temp # None => proc[p].temp # proc[q].temp

\* The saves in the file are among these.
Has(saves) == path # None => disk[path].text.saves \subseteq saves

\* A process that no save slipped past has all there is to be lost.
Covered(p) ==
  p \notin exposed =>
    /\ (pc[p] \in {"absent", "asking", "writing"} /\ Overwrites(p)) => Has(proc[p].text.saves)
    /\ (pc[p] = "observed" /\ path = proc[p].observed) => Has(proc[p].text.saves)
    /\ (pc[p] \in {"filled", "synced"} /\ path = proc[p].observed)
         => Has(disk[proc[p].temp].text.saves)
    /\ pc[p] = "same" => Has(disk[proc[p].temp].text.saves)

Inv ==
  /\ TypeOK
  /\ NamesSteady
  /\ EditedThere
  /\ \A p \in Procs : Prepared(p)
  /\ \A p, q \in Procs : Apart(p, q)
  /\ \A p \in Procs : Covered(p)

-----------------------------------------------------------------------------
(***************************************************************************)
(* What the building blocks of the actions do.                             *)
(***************************************************************************)
Locals == [seen : Inodes \cup {None}, existed : BOOLEAN, text : Texts,
           observed : Inodes \cup {None}, temp : Inodes \cup {None},
           attempt : 0 .. MaxRetries]

LEMMA FreshType == Fresh \in Locals /\ Fresh.temp = None
BY FilesAssumption DEF Fresh, Locals, Texts

LEMMA LocalsType == TypeOK => proc \in [Procs -> Locals]
BY DEF TypeOK, Locals

\* Only p's point and locals change, to these.
Moves(p, step, locals) ==
  /\ pc' = [pc EXCEPT ![p] = step]
  /\ proc' = [proc EXCEPT ![p] = locals]

LEMMA EndsEffect ==
  ASSUME NEW p \in Procs, NEW step, Ends(p, step)
  PROVE  Moves(p, step, Fresh)
BY DEF Ends, Goes, Moves

\* A race ends the call or starts it again, without a temporary.
LEMMA RaceEffect ==
  ASSUME TypeOK, NEW p \in Procs, Race(p)
  PROVE  \E step \in {"start", "failed"}, locals \in Locals :
           Moves(p, step, locals) /\ locals.temp = None
<1>1. CASE Retries(p)
  <2>1. [Fresh EXCEPT !.attempt = proc[p].attempt + 1] \in Locals
    BY <1>1, FreshType, FilesAssumption, LocalsType DEF Retries, Locals
  <2>2. [Fresh EXCEPT !.attempt = proc[p].attempt + 1].temp = None
    BY FreshType DEF Fresh
  <2> QED
    BY <1>1, <2>1, <2>2 DEF Race, Goes, Moves
<1>2. CASE ~Retries(p)
  BY <1>2, FreshType DEF Race, Ends, Goes, Moves
<1> QED
  BY <1>1, <1>2

-----------------------------------------------------------------------------
(***************************************************************************)
(* Steps of one process that leave the file system alone.                  *)
(***************************************************************************)
LEMMA QuietStep ==
  ASSUME Inv, NEW p \in Procs, NEW step \in Steps, NEW locals \in Locals,
         Moves(p, step, locals), locals.temp \in {None, proc[p].temp},
         UNCHANGED <<path, durable, disk, editing>>,
         exposed' \in {exposed, exposed \ {p}},
         Prepared(p)', Covered(p)'
  PROVE  Inv'
<1>1. /\ pc' \in [Procs -> Steps] /\ proc' \in [Procs -> Locals]
      /\ pc'[p] = step /\ proc'[p] = locals
      /\ \A q \in Procs \ {p} : pc'[q] = pc[q] /\ proc'[q] = proc[q]
  BY LocalsType DEF Inv, TypeOK, Moves
<1>2. TypeOK'
  BY <1>1 DEF Inv, TypeOK, Locals
<1>3. NamesSteady' /\ EditedThere'
  BY DEF Inv, NamesSteady, Steady, EditedThere
<1>4. ASSUME NEW q \in Procs \ {p}
      PROVE  Prepared(q)' /\ Covered(q)'
  <2>1. Prepared(q) /\ Covered(q)
    BY DEF Inv
  <2>2. Prepared(q)'
    BY <1>1, <2>1 DEF Prepared
  <2>3. Covered(q)'
    BY <1>1, <2>1 DEF Covered, Has, Overwrites
  <2> QED
    BY <2>2, <2>3
<1>5. ASSUME NEW q \in Procs, NEW r \in Procs
      PROVE  Apart(q, r)'
  BY <1>1 DEF Inv, Apart
<1> QED
  BY <1>2, <1>3, <1>4, <1>5 DEF Inv

\* A point of the code at which a process holds nothing to lose.
Idle == {"start", "found", "published", "done", "failed", "dead"}

LEMMA NothingAtStake ==
  ASSUME NEW p \in Procs, pc[p] \in Idle
  PROVE  Prepared(p) /\ Covered(p)
BY DEF Idle, Prepared, Unpublished, Covered

LEMMA RaceStep ==
  ASSUME Inv, NEW p \in Procs, Race(p), UNCHANGED <<path, durable, disk, editing>>,
         exposed' \in {exposed, exposed \ {p}}
  PROVE  Inv'
<1>1. PICK step \in {"start", "failed"}, locals \in Locals :
        Moves(p, step, locals) /\ locals.temp = None
  BY RaceEffect DEF Inv
<1>2. pc'[p] \in Idle /\ step \in Steps
  BY <1>1 DEF Moves, Idle, Steps, Inv, TypeOK
<1>3. Prepared(p)' /\ Covered(p)'
  BY <1>2 DEF Idle, Prepared, Unpublished, Covered
<1> QED
  BY <1>1, <1>2, <1>3, QuietStep

LEMMA EndStep ==
  ASSUME Inv, NEW p \in Procs, NEW step \in Steps \cap Idle, Ends(p, step),
         UNCHANGED <<path, durable, disk, editing>>, exposed' \in {exposed, exposed \ {p}}
  PROVE  Inv'
<1>1. Moves(p, step, Fresh) /\ Fresh \in Locals /\ Fresh.temp = None
  BY EndsEffect, FreshType
<1>2. pc'[p] \in Idle
  BY <1>1 DEF Moves, Inv, TypeOK
<1>3. Prepared(p)' /\ Covered(p)'
  BY <1>2 DEF Idle, Prepared, Unpublished, Covered
<1> QED
  BY <1>1, <1>3, QuietStep

\* The steps of p, one by one.
LEMMA ReadingSteps ==
  ASSUME Inv, NEW p \in Procs, Inspect(p) \/ Read(p) \/ ReadNothing(p)
  PROVE  Inv'
<1> USE DEF environment
<1>1. proc[p] \in Locals
  BY LocalsType DEF Inv
<1>2. CASE Inspect(p)
  <2>1. CASE path = None
    <3> DEFINE locals == [proc[p] EXCEPT !.existed = FALSE]
    <3>1. locals \in Locals /\ locals.temp = proc[p].temp /\ Moves(p, "absent", locals)
      BY <1>1, <1>2, <2>1 DEF Inspect, Goes, Moves, Locals
    <3>2. pc'[p] = "absent" /\ path' = None
      BY <3>1, <1>2, <2>1 DEF Moves, Inv, TypeOK, Inspect
    <3>3. Prepared(p)' /\ Covered(p)'
      BY <3>2 DEF Prepared, Unpublished, Covered, Has
    <3> QED
      BY <3>1, <3>3, <1>2, QuietStep DEF Inspect, Steps
  <2>2. CASE path # None
    <3> DEFINE locals == [proc[p] EXCEPT !.seen = path, !.existed = TRUE]
    <3>1. locals \in Locals /\ locals.temp = proc[p].temp /\ Moves(p, "found", locals)
      BY <1>1, <1>2, <2>2 DEF Inspect, Goes, Moves, Locals, Inv, TypeOK
    <3>2. pc'[p] = "found"
      BY <3>1 DEF Moves, Inv, TypeOK
    <3>3. Prepared(p)' /\ Covered(p)'
      BY <3>2 DEF Prepared, Unpublished, Covered
    <3> QED
      BY <3>1, <3>3, <1>2, QuietStep DEF Inspect, Steps
  <2> QED
    BY <2>1, <2>2
<1>3. CASE ReadNothing(p)
  <2> DEFINE step == IF p \in Setups THEN "asking" ELSE "writing"
  <2>1. Moves(p, step, proc[p]) /\ pc[p] = "absent" /\ pc'[p] = step /\ proc'[p] = proc[p]
    BY <1>3 DEF ReadNothing, Goes, Moves, Inv, TypeOK
  <2>2. Prepared(p)'
    BY <2>1 DEF Prepared, Unpublished
  <2>3. Covered(p)'
    BY <2>1, <1>3 DEF ReadNothing, Inv, Covered, Has, Overwrites
  <2> QED
    BY <1>1, <1>3, <2>1, <2>2, <2>3, QuietStep DEF ReadNothing, Steps
<1>4. CASE Read(p)
  <2> DEFINE going == path # None /\ path = proc[p].seen /\ disk[path].whole
                        /\ ~(disk[path].text.wanted /\ p \notin Setups)
  <2>1. CASE going
    <3> DEFINE locals == [proc[p] EXCEPT !.text = disk[path].text, !.seen = None]
               step   == IF p \in Setups THEN "asking" ELSE "writing"
    <3>1. disk[path].text \in Texts
      BY <2>1 DEF Inv, TypeOK, Files
    <3>2. locals \in Locals /\ locals.temp = proc[p].temp /\ locals.text = disk[path].text
      BY <1>1, <3>1 DEF Locals
    <3>3. Moves(p, step, locals)
      BY <1>4, <2>1 DEF Read, Goes, Moves
    <3>4. pc'[p] = step /\ proc'[p] = locals
      BY <3>3 DEF Moves, Inv, TypeOK
    <3>5. Prepared(p)'
      BY <3>4 DEF Prepared, Unpublished
    <3>6. Covered(p)'
      BY <1>4, <3>2, <3>4 DEF Read, Covered, Has
    <3> QED
      BY <1>4, <3>2, <3>3, <3>5, <3>6, QuietStep DEF Read, Steps
  <2>2. CASE ~going
    <3>1. Ends(p, "failed") \/ Ends(p, "done") \/ Race(p)
      BY <1>4, <2>2 DEF Read
    <3>2. UNCHANGED <<path, durable, disk, editing>> /\ exposed' = exposed \ {p}
      BY <1>4 DEF Read
    <3>3. CASE Race(p)
      BY <3>2, <3>3, RaceStep
    <3> QED
      BY <3>1, <3>2, <3>3, EndStep DEF Steps, Idle
  <2> QED
    BY <2>1, <2>2
<1> QED
  BY <1>2, <1>3, <1>4

LEMMA AnswerStep ==
  ASSUME Inv, NEW p \in Procs, Answer(p)
  PROVE  Inv'
<1>1. PICK n \in Numbers : proc' = [proc EXCEPT ![p].text.saves = @ \cup {n}]
  BY DEF Answer
<1> DEFINE locals == [proc[p] EXCEPT !.text.saves = @ \cup {n}]
<1>2. proc[p] \in Locals
  BY LocalsType DEF Inv
<1>3. /\ locals \in Locals /\ locals.temp = proc[p].temp
      /\ locals.existed = proc[p].existed /\ proc[p].text.saves \subseteq locals.text.saves
  BY <1>2 DEF Locals, Texts
<1>4. Moves(p, "writing", locals) /\ pc'[p] = "writing" /\ proc'[p] = locals /\ pc[p] = "asking"
  BY <1>1, <1>2 DEF Answer, Goes, Moves, Inv, TypeOK
<1>5. Prepared(p)'
  BY <1>4 DEF Prepared, Unpublished
<1>6. Covered(p)'
  <2>1. Covered(p)
    BY DEF Inv
  <2> QED
    BY <1>3, <1>4, <2>1 DEF Answer, Covered, Has, Overwrites
<1> QED
  BY <1>3, <1>4, <1>5, <1>6, QuietStep DEF Answer, Steps

LEMMA ObserveStep ==
  ASSUME Inv, NEW p \in Procs, Observe(p)
  PROVE  Inv'
<1> USE DEF environment
<1>1. CASE path # None /\ ~Overwrites(p)
  BY <1>1, RaceStep DEF Observe
<1>2. CASE path = None \/ Overwrites(p)
  <2> DEFINE locals == [proc[p] EXCEPT !.observed = path]
  <2>1. proc[p] \in Locals
    BY LocalsType DEF Inv
  <2>2. /\ locals \in Locals /\ locals.temp = proc[p].temp
        /\ locals.text = proc[p].text /\ locals.observed = path
    BY <2>1 DEF Locals, Inv, TypeOK
  <2>3. /\ Moves(p, "observed", locals)
        /\ pc'[p] = "observed" /\ proc'[p] = locals /\ pc[p] = "writing"
    BY <1>2, <2>1 DEF Observe, Goes, Moves, Inv, TypeOK
  <2>4. Prepared(p)'
    BY <2>3 DEF Prepared, Unpublished
  <2>5. Covered(p)'
    <3>1. Covered(p)
      BY DEF Inv
    <3> QED
      BY <1>2, <2>2, <2>3, <3>1 DEF Observe, Covered, Has
  <2> QED
    BY <2>2, <2>3, <2>4, <2>5, QuietStep DEF Observe, Steps
<1> QED
  BY <1>1, <1>2

LEMMA CheckStep ==
  ASSUME Inv, NEW p \in Procs, CheckSame(p)
  PROVE  Inv'
<1> USE DEF environment
<1>1. CASE Race(p)
  BY <1>1, RaceStep DEF CheckSame
<1>2. CASE ~Race(p)
  <2> DEFINE step == IF proc[p].observed = None \/ path = None THEN "free" ELSE "same"
  <2>1. /\ Moves(p, step, proc[p]) /\ pc[p] = "synced" /\ pc'[p] = step /\ proc'[p] = proc[p]
        /\ step = "same" => path = proc[p].observed
    BY <1>2 DEF CheckSame, Goes, Moves, Inv, TypeOK
  <2>2. Prepared(p) /\ Covered(p) /\ proc[p] \in Locals
    BY LocalsType DEF Inv
  <2>3. Prepared(p)'
    BY <2>1, <2>2 DEF Prepared, Unpublished, CheckSame
  <2>4. Covered(p)'
    BY <2>1, <2>2 DEF Covered, Has, CheckSame
  <2> QED
    BY <2>1, <2>2, <2>3, <2>4, QuietStep DEF CheckSame, Steps
<1> QED
  BY <1>1, <1>2

LEMMA CrashStep ==
  ASSUME Inv, NEW p \in Procs, Crash(p)
  PROVE  Inv'
<1>1. Moves(p, "dead", proc[p]) /\ pc'[p] = "dead" /\ proc[p] \in Locals
  BY LocalsType DEF Crash, Goes, Moves, Inv, TypeOK
<1>2. Prepared(p)' /\ Covered(p)'
  BY <1>1 DEF Prepared, Unpublished, Covered
<1> QED
  BY <1>1, <1>2, QuietStep DEF Crash, Steps

-----------------------------------------------------------------------------
(***************************************************************************)
(* Steps of one process that change the file system.                       *)
(***************************************************************************)
LEMMA FillStep ==
  ASSUME Inv, NEW p \in Procs, FillTemporary(p)
  PROVE  Inv'
<1> DEFINE file == [text |-> [proc[p].text EXCEPT !.wanted = TRUE],
                    whole |-> TRUE, synced |-> FALSE, foreign |-> FALSE]
<1>1. PICK i \in Inodes :
        /\ Free(i) /\ disk' = [disk EXCEPT ![i] = file]
        /\ proc' = [proc EXCEPT ![p].temp = i]
  BY DEF FillTemporary
<1>2. proc[p] \in Locals /\ proc \in [Procs -> Locals]
  BY LocalsType DEF Inv
<1>3. file \in Files /\ file.whole /\ file.text.saves = proc[p].text.saves
  BY <1>2 DEF Files, Texts, Locals
<1> DEFINE locals == [proc[p] EXCEPT !.temp = i]
<1>4. /\ locals \in Locals /\ locals.temp = i
      /\ locals.text = proc[p].text /\ locals.observed = proc[p].observed
  BY <1>2 DEF Locals
<1>5. /\ pc' \in [Procs -> Steps] /\ proc' \in [Procs -> Locals] /\ disk' \in [Inodes -> Files \cup {None}]
      /\ pc[p] = "observed" /\ pc'[p] = "filled" /\ proc'[p] = locals
      /\ \A q \in Procs \ {p} : pc'[q] = pc[q] /\ proc'[q] = proc[q]
      /\ disk'[i] = file /\ \A j \in Inodes \ {i} : disk'[j] = disk[j]
      /\ UNCHANGED <<path, durable, editing, exposed>>
  <2>1. pc' \in [Procs -> Steps] /\ proc' = [proc EXCEPT ![p] = locals]
    BY <1>1, <1>2 DEF FillTemporary, Goes, Steps, Inv, TypeOK
  <2> QED
    BY <1>1, <1>2, <1>3, <1>4, <2>1 DEF FillTemporary, Goes, Inv, TypeOK
<1> HIDE DEF file, locals
<1>6. i \notin {path, durable, editing} /\ i # None /\ \A q \in Procs : proc[q].temp # i
  BY <1>1, FilesAssumption DEF Free
<1>7. file # None
  BY <1>3, NoneIsNoFile
<1>8. /\ path \in Inodes \cup {None} /\ durable \in Inodes \cup {None}
      /\ editing \in Inodes \cup {None} /\ exposed \subseteq Procs
      /\ path # None => disk[path] # None
  BY DEF Inv, TypeOK
<1>9. TypeOK'
  BY <1>5, <1>6, <1>8 DEF TypeOK, Locals
<1>10. NamesSteady' /\ EditedThere'
  BY <1>5, <1>6, <1>8 DEF Inv, NamesSteady, Steady, EditedThere
<1>11. ASSUME NEW q \in Procs PROVE Prepared(q)' /\ Covered(q)'
  <2>1. Prepared(q) /\ Covered(q) /\ proc[q] \in Locals
    BY <1>2 DEF Inv
  <2>2. CASE q = p
    BY <2>1, <2>2, <1>3, <1>4, <1>5, <1>6, <1>7, <1>8 DEF Prepared, Unpublished, Covered, Has
  <2>3. CASE q # p
    <3>1. Prepared(q)'
      BY <2>1, <2>3, <1>5, <1>6 DEF Prepared, Unpublished, Locals
    <3>2. Covered(q)'
      BY <2>1, <2>3, <1>5, <1>6, <1>8 DEF Prepared, Unpublished, Covered, Has, Locals, Overwrites
    <3> QED
      BY <3>1, <3>2
  <2> QED
    BY <2>2, <2>3
<1>12. ASSUME NEW q \in Procs, NEW r \in Procs PROVE Apart(q, r)'
  BY <1>4, <1>5, <1>6 DEF Inv, Apart
<1> QED
  BY <1>9, <1>10, <1>11, <1>12 DEF Inv

LEMMA SyncStep ==
  ASSUME Inv, NEW p \in Procs, SyncTemporary(p)
  PROVE  Inv'
<1> DEFINE i == proc[p].temp
<1>1. /\ proc \in [Procs -> Locals] /\ i # None /\ i # path /\ i \in Inodes
      /\ disk[i] \in Files /\ disk[i].whole /\ Covered(p)
  <2>1. proc \in [Procs -> Locals] /\ Prepared(p) /\ Covered(p)
    BY LocalsType DEF Inv
  <2> QED
    BY <2>1 DEF SyncTemporary, Prepared, Unpublished, Locals, Inv, TypeOK
<1> DEFINE file == [disk[i] EXCEPT !.synced = TRUE]
<1>2. /\ file \in Files /\ file.whole /\ file.synced /\ file # None
      /\ file.text = disk[i].text /\ file.foreign = disk[i].foreign
  BY <1>1, NoneIsNoFile DEF Files
<1>3. /\ pc' \in [Procs -> Steps] /\ disk' \in [Inodes -> Files \cup {None}]
      /\ pc[p] = "filled" /\ pc'[p] = "synced" /\ \A q \in Procs \ {p} : pc'[q] = pc[q]
      /\ disk'[i] = file /\ \A j \in Inodes \ {i} : disk'[j] = disk[j]
      /\ UNCHANGED <<proc, path, durable, editing, exposed>>
  BY <1>1, <1>2 DEF SyncTemporary, Goes, Steps, Inv, TypeOK
<1> HIDE DEF file
<1>4. \A q \in Procs : proc[q] \in Locals /\ Prepared(q) /\ Covered(q) /\ (q # p => proc[q].temp # i)
  BY <1>1 DEF Inv, Apart
<1>5. /\ path \in Inodes \cup {None} /\ durable \in Inodes \cup {None}
      /\ editing \in Inodes \cup {None} /\ exposed \subseteq Procs
      /\ path # None => disk[path] # None
  BY DEF Inv, TypeOK
<1>6. TypeOK'
  BY <1>1, <1>2, <1>3, <1>5 DEF TypeOK, Locals
<1>7. NamesSteady'
  BY <1>1, <1>2, <1>3, <1>5 DEF Inv, NamesSteady, Steady
<1>8. EditedThere'
  BY <1>1, <1>2, <1>3, <1>5 DEF Inv, EditedThere
<1>9. ASSUME NEW q \in Procs PROVE Prepared(q)' /\ Covered(q)'
  <2>1. CASE q = p
    BY <2>1, <1>1, <1>2, <1>3, <1>5 DEF Prepared, Unpublished, Covered, Has
  <2>2. CASE q # p
    <3>1. Prepared(q)'
      BY <2>2, <1>1, <1>3, <1>4 DEF Prepared, Unpublished, Locals
    <3>2. Covered(q)'
      BY <2>2, <1>1, <1>3, <1>4, <1>5 DEF Prepared, Unpublished, Covered, Has, Locals, Overwrites
    <3> QED
      BY <3>1, <3>2
  <2> QED
    BY <2>1, <2>2
<1>10. ASSUME NEW q \in Procs, NEW r \in Procs PROVE Apart(q, r)'
  BY <1>3 DEF Inv, Apart
<1> QED
  BY <1>6, <1>7, <1>8, <1>9, <1>10 DEF Inv

\* The name leads to p's temporary from now on.
LEMMA PublishStep ==
  ASSUME Inv, NEW p \in Procs, pc[p] \in {"free", "same"}, Goes(p, "published"),
         path' = proc[p].temp, exposed' = exposed \cup SlippedPast(proc[p].temp),
         UNCHANGED <<durable, disk, editing, proc>>
  PROVE  Inv'
<1>1. \A q \in Procs : proc[q] \in Locals /\ Prepared(q) /\ Covered(q) /\ Apart(p, q)
  BY LocalsType DEF Inv
<1>2. /\ path' \in Inodes /\ path' # None /\ disk[path'] # None
      /\ disk[path'].whole /\ disk[path'].synced
      /\ \A q \in Procs \ {p} : proc[q].temp # path'
  BY <1>1, FilesAssumption DEF Prepared, Unpublished, Locals, Apart
<1>3. /\ pc' \in [Procs -> Steps] /\ pc'[p] = "published"
      /\ \A q \in Procs \ {p} : pc'[q] = pc[q]
  BY DEF Goes, Steps, Inv, TypeOK
<1>4. TypeOK'
  BY <1>2, <1>3 DEF Inv, TypeOK, SlippedPast
<1>5. NamesSteady' /\ EditedThere'
  BY <1>2 DEF Inv, NamesSteady, Steady, EditedThere
<1>6. ASSUME NEW q \in Procs PROVE Prepared(q)' /\ Covered(q)'
  <2>1. CASE q = p
    BY <2>1, <1>3 DEF Prepared, Unpublished, Covered
  <2>2. CASE q # p
    <3>1. Prepared(q)'
      BY <2>2, <1>1, <1>2, <1>3 DEF Prepared
    <3>2. Covered(q)'
      BY <2>2, <1>2, <1>3 DEF Covered, SlippedPast, Overwrites
    <3> QED
      BY <3>1, <3>2
  <2> QED
    BY <2>1, <2>2
<1>7. ASSUME NEW q \in Procs, NEW r \in Procs PROVE Apart(q, r)'
  BY DEF Inv, Apart
<1> QED
  BY <1>4, <1>5, <1>6, <1>7 DEF Inv

LEMMA LinkStep ==
  ASSUME Inv, NEW p \in Procs, Link(p)
  PROVE  Inv'
<1>1. CASE path = None
  BY <1>1, PublishStep DEF Link
<1>2. CASE path # None
  BY <1>2, RaceStep DEF Link
<1> QED
  BY <1>1, <1>2

LEMMA FinishStep ==
  ASSUME Inv, NEW p \in Procs, Finish(p)
  PROVE  Inv'
<1>1. /\ Moves(p, "done", Fresh) /\ Fresh \in Locals /\ Fresh.temp = None
      /\ \A q \in Procs : proc[q] \in Locals /\ Prepared(q) /\ Covered(q)
  BY EndsEffect, FreshType, LocalsType DEF Finish, Inv
<1>2. /\ pc' \in [Procs -> Steps] /\ proc' \in [Procs -> Locals]
      /\ pc'[p] = "done" /\ proc'[p] = Fresh
      /\ \A q \in Procs \ {p} : pc'[q] = pc[q] /\ proc'[q] = proc[q]
      /\ durable' = path /\ UNCHANGED <<path, disk, editing, exposed>>
  BY <1>1, LocalsType DEF Moves, Finish, Steps, Inv, TypeOK
<1>3. TypeOK'
  BY <1>2 DEF Inv, TypeOK, Locals
<1>4. NamesSteady' /\ EditedThere'
  BY <1>2 DEF Inv, NamesSteady, Steady, EditedThere
<1>5. ASSUME NEW q \in Procs PROVE Prepared(q)' /\ Covered(q)'
  <2>1. CASE q = p
    BY <2>1, <1>2 DEF Prepared, Unpublished, Covered
  <2>2. CASE q # p
    BY <2>2, <1>1, <1>2 DEF Prepared, Covered, Has, Overwrites
  <2> QED
    BY <2>1, <2>2
<1>6. ASSUME NEW q \in Procs, NEW r \in Procs PROVE Apart(q, r)'
  BY <1>1, <1>2 DEF Inv, Apart
<1> QED
  BY <1>3, <1>4, <1>5, <1>6 DEF Inv

-----------------------------------------------------------------------------
(***************************************************************************)
(* Everybody else's steps.                                                 *)
(***************************************************************************)
LEMMA ForeignSaveStep ==
  ASSUME Inv, ForeignSave
  PROVE  Inv'
<1>1. PICK i \in Inodes, n \in Numbers, wanted \in {Content.wanted, FALSE} :
        /\ Free(i)
        /\ disk' = [disk EXCEPT ![i] = [text |-> [wanted |-> wanted, saves |-> Content.saves \cup {n}],
                                       whole |-> TRUE, synced |-> TRUE, foreign |-> TRUE]]
        /\ path' = i /\ durable' = i
        /\ exposed' = exposed \cup SlippedPast(i)
        /\ UNCHANGED <<editing, pc, proc>>
  BY DEF ForeignSave
<1> DEFINE file == [text |-> [wanted |-> wanted, saves |-> Content.saves \cup {n}],
                    whole |-> TRUE, synced |-> TRUE, foreign |-> TRUE]
<1>2. Content \in Texts
  BY DEF Content, Texts, Inv, TypeOK, Files
<1>3. file \in Files /\ file.foreign /\ file # None
  <2>1. file \in Files
    BY <1>2 DEF Files, Texts
  <2> QED
    BY <2>1, NoneIsNoFile
<1>4. /\ disk' \in [Inodes -> Files \cup {None}]
      /\ disk'[i] = file /\ \A j \in Inodes \ {i} : disk'[j] = disk[j]
  BY <1>1, <1>3 DEF Inv, TypeOK
<1> HIDE DEF file
<1>5. i \notin {path, durable, editing} /\ i # None /\ \A q \in Procs : proc[q].temp # i
  BY <1>1, FilesAssumption DEF Free
<1>6. \A q \in Procs : proc[q] \in Locals /\ Prepared(q) /\ Covered(q)
  BY LocalsType DEF Inv
<1>7. TypeOK'
  BY <1>1, <1>3, <1>4 DEF Inv, TypeOK, SlippedPast
<1>8. NamesSteady' /\ EditedThere'
  BY <1>1, <1>3, <1>4, <1>5 DEF Inv, TypeOK, NamesSteady, Steady, EditedThere
<1>9. ASSUME NEW q \in Procs PROVE Prepared(q)' /\ Covered(q)'
  <2>1. Prepared(q)'
    BY <1>1, <1>4, <1>5, <1>6 DEF Prepared, Unpublished, Locals
  <2>2. Covered(q)'
    BY <1>1 DEF Covered, SlippedPast, Overwrites
  <2> QED
    BY <2>1, <2>2
<1>10. ASSUME NEW q \in Procs, NEW r \in Procs PROVE Apart(q, r)'
  BY <1>1 DEF Inv, Apart
<1> QED
  BY <1>7, <1>8, <1>9, <1>10 DEF Inv

LEMMA EditInPlaceStep ==
  ASSUME Inv, EditInPlace
  PROVE  Inv'
<1> DEFINE file == [disk[path] EXCEPT !.whole = FALSE, !.foreign = TRUE]
<1>1. path \in Inodes /\ path # None /\ disk[path] \in Files
  BY DEF EditInPlace, Inv, TypeOK
<1>2. file \in Files /\ file.foreign /\ file.text = disk[path].text /\ file # None
  BY <1>1, NoneIsNoFile DEF Files
<1>3. disk' = [disk EXCEPT ![path] = file]
  BY <1>1 DEF EditInPlace, Inv, TypeOK
<1>4. /\ disk' \in [Inodes -> Files \cup {None}]
      /\ disk'[path] = file /\ \A j \in Inodes \ {path} : disk'[j] = disk[j]
      /\ editing' = path /\ UNCHANGED <<path, durable, pc, proc, exposed>>
  BY <1>1, <1>2, <1>3 DEF EditInPlace, Inv, TypeOK
<1> HIDE DEF file
<1>5. \A q \in Procs : proc[q] \in Locals /\ Prepared(q) /\ Covered(q)
  BY LocalsType DEF Inv
<1>6. TypeOK'
  BY <1>1, <1>2, <1>4 DEF Inv, TypeOK
<1>7. NamesSteady' /\ EditedThere'
  BY <1>1, <1>2, <1>4 DEF Inv, TypeOK, NamesSteady, Steady, EditedThere
<1>8. ASSUME NEW q \in Procs PROVE Prepared(q)' /\ Covered(q)'
  <2>1. Prepared(q)'
    BY <1>4, <1>5 DEF Prepared, Unpublished, Locals
  <2>2. Covered(q)'
    BY <1>1, <1>2, <1>4, <1>5 DEF Covered, Has, Prepared, Unpublished, Locals, Overwrites
  <2> QED
    BY <2>1, <2>2
<1>9. ASSUME NEW q \in Procs, NEW r \in Procs PROVE Apart(q, r)'
  BY <1>4 DEF Inv, Apart
<1> QED
  BY <1>6, <1>7, <1>8, <1>9 DEF Inv

LEMMA FinishEditStep ==
  ASSUME Inv, FinishEdit
  PROVE  Inv'
<1>1. PICK n \in Numbers :
        /\ editing # None /\ editing' = None
        /\ disk' = [disk EXCEPT ![editing].whole = TRUE, ![editing].text.saves = @ \cup {n}]
        /\ exposed' = exposed \cup SlippedPast(editing)
        /\ UNCHANGED <<path, durable, pc, proc>>
  BY DEF FinishEdit
<1> DEFINE file == [disk[editing] EXCEPT !.whole = TRUE, !.text.saves = @ \cup {n}]
<1>2. editing \in Inodes /\ disk[editing] \in Files
  BY <1>1 DEF Inv, TypeOK, EditedThere
<1>3. /\ file \in Files /\ file.whole
      /\ file.foreign = disk[editing].foreign /\ file.synced = disk[editing].synced
      /\ disk[editing].text.saves \subseteq file.text.saves
  BY <1>2 DEF Files, Texts
<1>4. file # None
  BY <1>3, NoneIsNoFile
<1>5. /\ disk' \in [Inodes -> Files \cup {None}]
      /\ disk'[editing] = file /\ \A j \in Inodes \ {editing} : disk'[j] = disk[j]
  <2>1. disk' = [disk EXCEPT ![editing] = file]
    BY <1>1, <1>2 DEF Inv, TypeOK
  <2> QED
    BY <1>2, <1>3, <2>1 DEF Inv, TypeOK
<1> HIDE DEF file
<1>6. \A q \in Procs : proc[q] \in Locals /\ Prepared(q) /\ Covered(q)
  BY LocalsType DEF Inv
<1>7. TypeOK'
  BY <1>1, <1>2, <1>4, <1>5 DEF Inv, TypeOK, SlippedPast
<1>8. NamesSteady' /\ EditedThere'
  <2>1. ASSUME NEW i \in {path, durable} \ {None} PROVE Steady(i)'
    <3>1. i \in Inodes /\ Steady(i)
      BY DEF Inv, TypeOK, NamesSteady
    <3>2. CASE i = editing
      BY <3>1, <3>2, <1>2, <1>3, <1>4, <1>5 DEF Steady
    <3>3. CASE i # editing
      BY <3>1, <3>3, <1>5 DEF Steady
    <3> QED
      BY <3>2, <3>3
  <2>2. NamesSteady'
    BY <2>1, <1>1 DEF NamesSteady
  <2>3. EditedThere'
    BY <1>1 DEF EditedThere
  <2> QED
    BY <2>2, <2>3
<1>9. ASSUME NEW q \in Procs PROVE Prepared(q)' /\ Covered(q)'
  <2>1. Prepared(q)'
    BY <1>1, <1>2, <1>3, <1>4, <1>5, <1>6 DEF Prepared, Unpublished, Locals
  <2>2. Covered(q)'
    <3>1. CASE q \in exposed \/ q \in SlippedPast(editing)
      BY <3>1, <1>1 DEF Covered
    <3>2. CASE q \notin exposed /\ q \notin SlippedPast(editing)
      BY <3>2, <1>1, <1>2, <1>3, <1>5, <1>6
         DEF Covered, Has, SlippedPast, Prepared, Unpublished, Locals, Overwrites, Inv, TypeOK
    <3> QED
      BY <3>1, <3>2
  <2> QED
    BY <2>1, <2>2
<1>10. ASSUME NEW q \in Procs, NEW r \in Procs PROVE Apart(q, r)'
  BY <1>1 DEF Inv, Apart
<1> QED
  BY <1>7, <1>8, <1>9, <1>10 DEF Inv

LEMMA RemoveStep ==
  ASSUME Inv, Remove
  PROVE  Inv'
<1>1. path' = None /\ durable' = None /\ UNCHANGED <<disk, editing, pc, proc, exposed>>
  BY DEF Remove
<1>2. TypeOK' /\ NamesSteady' /\ EditedThere'
  BY <1>1 DEF Inv, TypeOK, NamesSteady, EditedThere
<1>3. ASSUME NEW q \in Procs PROVE Prepared(q)' /\ Covered(q)'
  BY <1>1 DEF Inv, Prepared, Covered, Has
<1>4. ASSUME NEW q \in Procs, NEW r \in Procs PROVE Apart(q, r)'
  BY <1>1 DEF Inv, Apart
<1> QED
  BY <1>2, <1>3, <1>4 DEF Inv

\* Nobody who was writing survives, and what the names lead to is not torn.
LEMMA PowerFailureStep ==
  ASSUME Inv, PowerFailure
  PROVE  Inv'
<1>1. PICK to \in {path, durable}, torn \in SUBSET {i \in Inodes : disk[i] # None /\ ~disk[i].synced} :
        /\ path' = to /\ durable' = to /\ editing' = None
        /\ disk' = [i \in Inodes |-> IF i \in torn THEN [disk[i] EXCEPT !.whole = FALSE] ELSE disk[i]]
        /\ pc' = [p \in Procs |-> IF p \in Busy THEN "dead" ELSE pc[p]]
        /\ UNCHANGED <<proc, exposed>>
  BY DEF PowerFailure
<1>2. ASSUME NEW i \in Inodes
      PROVE  /\ disk'[i] \in Files \cup {None}
             /\ disk[i] # None => disk'[i] # None /\ disk'[i].foreign = disk[i].foreign
             /\ i \notin torn => disk'[i] = disk[i]
  <2>1. CASE i \in torn
    <3>1. disk[i] \in Files
      BY <2>1 DEF Inv, TypeOK
    <3>2. [disk[i] EXCEPT !.whole = FALSE] \in Files /\ [disk[i] EXCEPT !.whole = FALSE].foreign = disk[i].foreign
      BY <3>1 DEF Files
    <3> QED
      BY <1>1, <2>1, <3>2, NoneIsNoFile
  <2>2. CASE i \notin torn
    BY <1>1, <2>2 DEF Inv, TypeOK
  <2> QED
    BY <2>1, <2>2
<1>3. disk' \in [Inodes -> Files \cup {None}]
  BY <1>1, <1>2
<1>4. to \in Inodes \cup {None} /\ (to # None => Steady(to))
  BY DEF Inv, TypeOK, NamesSteady
<1>5. pc' \in [Procs -> Steps] /\ \A q \in Procs : pc'[q] \in {"start", "done", "failed", "dead"}
  BY <1>1 DEF Busy, Steps, Inv, TypeOK
<1>6. TypeOK'
  BY <1>1, <1>2, <1>3, <1>4, <1>5 DEF Inv, TypeOK, Steady
<1>7. NamesSteady' /\ EditedThere'
  BY <1>1, <1>2, <1>4 DEF NamesSteady, Steady, EditedThere
<1>8. ASSUME NEW q \in Procs PROVE Prepared(q)' /\ Covered(q)'
  BY <1>5 DEF Prepared, Unpublished, Covered
<1>9. ASSUME NEW q \in Procs, NEW r \in Procs PROVE Apart(q, r)'
  BY <1>1 DEF Inv, Apart
<1> QED
  BY <1>6, <1>7, <1>8, <1>9 DEF Inv

-----------------------------------------------------------------------------
(***************************************************************************)
(* The theorems.                                                           *)
(***************************************************************************)
LEMMA InitInv == Init => Inv
<1> SUFFICES ASSUME Init PROVE Inv
  OBVIOUS
<1>1. PICK first \in {None} \cup Inodes, wanted \in BOOLEAN :
        /\ path = first /\ durable = first
        /\ disk = [i \in Inodes |->
                     IF i # first THEN None
                     ELSE [text |-> [wanted |-> wanted, saves |-> {}],
                           whole |-> TRUE, synced |-> TRUE, foreign |-> TRUE]]
  BY DEF Init
<1> DEFINE file == [text |-> [wanted |-> wanted, saves |-> {}],
                    whole |-> TRUE, synced |-> TRUE, foreign |-> TRUE]
<1>2. file \in Files /\ file # None /\ file.foreign
  <2>1. file \in Files
    BY DEF Files, Texts
  <2> QED
    BY <2>1, NoneIsNoFile
<1>3. /\ disk \in [Inodes -> Files \cup {None}]
      /\ first # None => disk[first] # None /\ disk[first].foreign
  BY <1>1, <1>2, FilesAssumption
<1>4. /\ pc \in [Procs -> Steps] /\ \A p \in Procs : pc[p] \in {"start", "done"}
      /\ proc = [p \in Procs |-> Fresh] /\ editing = None /\ exposed = {}
  BY DEF Init, Steps
<1>5. TypeOK
  BY <1>1, <1>3, <1>4, FreshType DEF TypeOK, Locals
<1>6. NamesSteady /\ EditedThere
  BY <1>1, <1>3, <1>4 DEF NamesSteady, Steady, EditedThere
<1>7. \A p \in Procs : Prepared(p) /\ Covered(p) /\ \A q \in Procs : Apart(p, q)
  BY <1>4, FreshType DEF Prepared, Unpublished, Covered, Apart
<1> QED
  BY <1>5, <1>6, <1>7 DEF Inv

LEMMA NextInv == Inv /\ [Next]_vars => Inv'
<1> SUFFICES ASSUME Inv, [Next]_vars PROVE Inv'
  OBVIOUS
<1>1. CASE \E p \in Procs : Process(p)
  <2> PICK p \in Procs : Process(p)
    BY <1>1
  <2>1. CASE Inspect(p) \/ Read(p) \/ ReadNothing(p)
    BY <2>1, ReadingSteps
  <2>2. CASE Answer(p)
    BY <2>2, AnswerStep
  <2>3. CASE Observe(p)
    BY <2>3, ObserveStep
  <2>4. CASE FillTemporary(p)
    BY <2>4, FillStep
  <2>5. CASE SyncTemporary(p)
    BY <2>5, SyncStep
  <2>6. CASE CheckSame(p)
    BY <2>6, CheckStep
  <2>7. CASE Rename(p)
    BY <2>7, PublishStep DEF Rename
  <2>8. CASE Link(p)
    BY <2>8, LinkStep
  <2>9. CASE Finish(p)
    BY <2>9, FinishStep
  <2>10. CASE Crash(p)
    BY <2>10, CrashStep
  <2> QED
    BY <2>1, <2>2, <2>3, <2>4, <2>5, <2>6, <2>7, <2>8, <2>9, <2>10 DEF Process, Write
<1>2. CASE Others
  BY <1>2, ForeignSaveStep, EditInPlaceStep, FinishEditStep, RemoveStep, PowerFailureStep DEF Others
<1>3. CASE UNCHANGED vars
  <2>1. UNCHANGED <<path, durable, disk, editing, pc, proc, exposed>>
    BY <1>3 DEF vars
  <2>2. TypeOK' /\ NamesSteady' /\ EditedThere'
    BY <2>1 DEF Inv, TypeOK, NamesSteady, Steady, EditedThere
  <2>3. ASSUME NEW q \in Procs PROVE Prepared(q)' /\ Covered(q)'
    BY <2>1 DEF Inv, Prepared, Covered, Has, Overwrites
  <2>4. ASSUME NEW q \in Procs, NEW r \in Procs PROVE Apart(q, r)'
    BY <2>1 DEF Inv, Apart
  <2> QED
    BY <2>2, <2>3, <2>4 DEF Inv
<1> QED
  BY <1>1, <1>2, <1>3 DEF Next

\* The invariant that carries the rest: names lead to files the power cannot
\* tear, temporaries are their writer's own, and a writer that nothing slipped
\* past has every save of the file it is about to replace.
THEOREM FilesInvariant == Spec => []Inv
<1> QED
  BY InitInv, NextInv, PTL DEF Spec

\* atomicWritePrivateFile: whoever reads the file finds one whole text, unless
\* somebody else was writing it in place, whatever process or power dies when.
THEOREM ReadersFindWholeFiles == Spec => []FileWhole
<1>1. Inv => FileWhole
  BY DEF Inv, NamesSteady, Steady, FileWhole
<1> QED
  BY <1>1, FilesInvariant, PTL

\* A process replaces a file with saves it has not read only if a save slipped
\* past it: between its read and its first look at the destination, between
\* its check and its rename, or under the inode it had checked.
THEOREM SavesAreLostOnlyUnseen == Spec => LostOnlyUnseen
<1>1. ASSUME Inv, NEW p \in Procs, Rename(p), Takes(p) # {}
      PROVE  p \in exposed
  <2>1. pc[p] = "same" /\ Covered(p)
    BY <1>1 DEF Inv, Rename
  <2> QED
    BY <1>1, <2>1 DEF Covered, Has, Takes
<1>2. Inv /\ [Next]_vars => [\A p \in Procs : Rename(p) /\ Takes(p) # {} => p \in exposed]_vars
  BY <1>1
<1> QED
  BY <1>2, FilesInvariant, PTL DEF Spec, LostOnlyUnseen
=============================================================================
