----------------------------- MODULE QmkProofs -----------------------------
(***************************************************************************)
(* What TLAPS proves about the enhanced QMK path, for any keyboard, keymap *)
(* and held table, any list of candidates, any statuses, and whatever the  *)
(* environment is given to do.                                             *)
(*                                                                         *)
(* First the adapter alone: what every operation keeps of its fields, for  *)
(* any set F of frames the host may compose.  Two facts per operation: it  *)
(* leaves the fields fitting each other (Fit), and it delivers no control  *)
(* event and disturbs no pressed control except by ending the connection   *)
(* (Quiet).  Only the receipt of a control report is different.            *)
(*                                                                         *)
(* Then the link (QmkLink).  Its invariant has four parts, each a          *)
(* predicate of the values it relates, so that a lemma about an operation  *)
(* serves every action the operation is a part of.                         *)
(*                                                                         *)
(* At last the 32 bytes of a report (QmkReports), for every message,       *)
(* number, keycode, build and option the two ends may use: that encoding   *)
(* and decoding are inverse to each other, and what an exchange over a     *)
(* cable that changes bytes can come to.                                   *)
(***************************************************************************)
EXTENDS QmkLink, QmkReports, TLAPS, SequenceTheorems, FiniteSetTheorems, WellFoundedInduction

-----------------------------------------------------------------------------
(***************************************************************************)
(* Frames, and least elements.                                             *)
(***************************************************************************)
\* What the lights may be told to show when the frames of F are composed.
Shown(F)  == F \cup {ErrorFrame(f) : f \in F}
Bodies(F) == {EncodeTaskStates(f) : f \in Shown(F)}

LEMMA EncodedType ==
  ASSUME NEW f \in Frame
  PROVE  EncodeTaskStates(f) \in TaskStates
<1>1. f.selected \in Agents \cup {None} /\ f.unread \subseteq Agents
      /\ f.states \in [Agents -> FeedbackStates]
  BY DEF Frame
<1>2. (IF f.selected = None THEN SelectedNone ELSE f.selected - 1) \in 0 .. 255
  <2>1. CASE f.selected = None
    BY <2>1 DEF SelectedNone
  <2>2. CASE f.selected # None
    <3>1. f.selected \in 1 .. 6
      BY <1>1, <2>2, AgentCountAssumption DEF Agents
    <3> QED
      BY <2>2, <3>1
  <2> QED
    BY <2>1, <2>2
<1>3. [i \in 0 .. AgentCount - 1 |-> StateCode[f.states[i + 1]]]
        \in [0 .. AgentCount - 1 -> 0 .. 5]
  <2>1. ASSUME NEW i \in 0 .. AgentCount - 1
        PROVE  StateCode[f.states[i + 1]] \in 0 .. 5
    <3>1. f.states[i + 1] \in FeedbackStates
      BY <1>1, AgentCountAssumption DEF Agents
    <3> QED
      BY <3>1 DEF FeedbackStates, StateCode
  <2> QED
    BY <2>1
<1>4. {a - 1 : a \in f.unread} \in SUBSET (0 .. 7)
  BY <1>1, AgentCountAssumption DEF Agents
<1> QED
  BY <1>2, <1>3, <1>4 DEF EncodeTaskStates, TaskStates

LEMMA ErrorFrameType ==
  ASSUME NEW f \in Frame
  PROVE  ErrorFrame(f) \in Frame
<1>1. [a \in Agents |-> IF f.states[a] = "off" THEN "off" ELSE "error"]
        \in [Agents -> FeedbackStates]
  BY DEF FeedbackStates, StateCode
<1> QED
  BY <1>1 DEF ErrorFrame, Frame

LEMMA ShownType ==
  ASSUME NEW F \in SUBSET Frame
  PROVE  Shown(F) \subseteq Frame /\ Bodies(F) \subseteq TaskStates
BY ErrorFrameType, EncodedType DEF Shown, Bodies

\* Every nonempty set of naturals has a least element, which Min finds.
LEMMA MinIsMember ==
  ASSUME NEW S \in SUBSET Nat, S # {}
  PROVE  Min(S) \in S
<1> DEFINE Below == {1 .. n : n \in S}
<1>1. IsWellFoundedOn(StrictSubsetOrdering(Nat), FiniteSubsetsOf(Nat))
  BY FS_StrictSubsetOrderingWellFounded
<1>2. Below \subseteq FiniteSubsetsOf(Nat) /\ Below # {}
  <2>1. ASSUME NEW n \in S
        PROVE  1 .. n \in FiniteSubsetsOf(Nat)
    <3>1. IsFiniteSet(1 .. n)
      BY FS_Interval
    <3> QED
      BY <3>1 DEF FiniteSubsetsOf
  <2> QED
    BY <2>1
<1>3. PICK x \in Below : \A y \in Below : ~(<<y, x>> \in StrictSubsetOrdering(Nat))
  <2> HIDE DEF Below
  <2> QED
    BY <1>1, <1>2, WFMin
<1>4. PICK m \in S : x = 1 .. m
  OBVIOUS
<1>5. ASSUME NEW n \in S, n < m
      PROVE  FALSE
  <2>1. 1 .. n \in Below /\ 1 .. n \subseteq 1 .. m /\ m \in 1 .. m /\ m \notin 1 .. n
    BY <1>5
  <2>2. <<1 .. n, x>> \in StrictSubsetOrdering(Nat)
    BY <2>1, <1>4 DEF StrictSubsetOrdering
  <2> QED
    BY <1>3, <2>1, <2>2
<1>6. \A n \in S : m =< n
  BY <1>5
<1> QED
  BY <1>6 DEF Min

-----------------------------------------------------------------------------
(***************************************************************************)
(* What holds of the adapter's fields between two events.                  *)
(***************************************************************************)
\* Only frames of F reach the keyboard.
Framed(a, F) ==
  /\ a.last \in F \cup {None} /\ a.displayed \in Shown(F) \cup {None}
  /\ \A p \in a.pending : p.type = "TASK_STATES" => p.body \in Bodies(F)
  /\ \A i \in DOMAIN a.out : a.out[i].type = "TASK_STATES" => a.out[i].body \in Bodies(F)

\* Nothing outlives the connection it belonged to.
Cleared(a) ==
  a.pending = {} /\ a.done = {} /\ a.pressed = {} /\ a.recent = {} /\ a.displayed = None

\* No candidate is listed twice, or again after it was probed.
Unprobed(scan) ==
  /\ \A i, j \in DOMAIN scan.left : scan.left[i] = scan.left[j] => i = j
  /\ \A i \in DOMAIN scan.left : scan.left[i] \notin scan.compatible \cup {scan.probing}
  /\ scan.probing \notin scan.compatible

Opened(a) ==
  a.handles = (IF a.active THEN {Board} ELSE {})
                \cup ({a.scan.probing} \ {None}) \cup a.scan.compatible

Common(a, F) ==
  /\ F \subseteq Frame /\ a \in Adapters /\ Framed(a, F) /\ Opened(a) /\ Unprobed(a.scan)
  /\ a.gone => Board \in a.handles
  /\ \A p \in a.pending : p.wait = "retry" => p.attempts <= MaxRetries

Fit(a, F) ==
  /\ Common(a, F)
  /\ IF a.active THEN ~a.poll /\ a.scan = NoScan ELSE Cleared(a)
  /\ a.displayed # None => a.last # None
  /\ a.scan.probing = None \/ a.poll => a.scan = NoScan

\* Between two probes of a scan.
Scanning(a, F) ==
  Common(a, F) /\ ~a.active /\ Cleared(a) /\ a.scan.probing = None /\ ~a.poll

(***************************************************************************)
(* What an operation does to the rest of the link: no control event, and   *)
(* the same pressed controls unless the connection begins or ends.         *)
(***************************************************************************)
SameLink(a, b) ==
  /\ b.active = a.active /\ b.poll = a.poll /\ b.scan = a.scan /\ b.handles = a.handles
  /\ b.gone = a.gone /\ b.pressed = a.pressed /\ b.recent = a.recent /\ b.emitted = a.emitted

Quiet(a, b) ==
  /\ b.emitted = a.emitted
  /\ IF a.active THEN SameLink(a, b) \/ (~b.active /\ Board \notin b.handles)
                 ELSE b.pressed = {} /\ b.recent = {}

LEMMA NoScanType == NoScan \in Scans /\ Unprobed(NoScan)
<1>1. 0 \in Seqs /\ <<>> \in Seq(Devices) /\ DOMAIN <<>> = {}
  BY AdapterAssumption DEF Seqs
<1> QED
  BY <1>1 DEF NoScan, Scans, Unprobed

\* Changes that leave the connection as it is.
LEMMA SameLinkFits ==
  ASSUME NEW F, NEW a, Fit(a, F), a.active, NEW b \in Adapters, SameLink(a, b), Framed(b, F),
         b.displayed # None => b.last # None,
         \A p \in b.pending : p.wait = "retry" => p.attempts <= MaxRetries
  PROVE  Fit(b, F) /\ Quiet(a, b)
BY DEF Fit, Common, SameLink, Quiet, Opened

LEMMA DisconnectFits ==
  ASSUME NEW F, NEW a, Fit(a, F), a.active
  PROVE  Fit(Disconnect(a), F) /\ Quiet(a, Disconnect(a)) /\ ~Disconnect(a).active
<1> DEFINE b == Disconnect(a)
<1>1. a \in Adapters /\ a.scan = NoScan /\ a.handles = {Board}
  BY DEF Fit, Common, Opened, NoScan
<1>2. /\ b \in Adapters /\ ~b.active /\ b.handles = {} /\ ~b.gone /\ Cleared(b)
      /\ b.scan = NoScan /\ b.emitted = a.emitted /\ b.last = a.last /\ b.out = a.out
  BY <1>1 DEF Disconnect, SchedulePoll, Close, Adapters, Cleared
<1> HIDE DEF b
<1>3. Common(b, F)
  BY <1>1, <1>2, NoScanType DEF Fit, Common, Framed, Opened, Cleared, NoScan
<1> QED
  BY <1>1, <1>2, <1>3 DEF Fit, Quiet, Cleared, NoScan, b

-----------------------------------------------------------------------------
(***************************************************************************)
(* Sequence numbers and reliable reports.                                  *)
(***************************************************************************)
LEMMA NextSequenceType ==
  ASSUME NEW a \in Adapters, FreeOffsets(a) # {}
  PROVE  NextSequence(a) \in Seqs /\ (NextSequence(a) + 1) % SeqCount \in Seqs
<1>1. FreeOffsets(a) \in SUBSET Nat /\ a.sequence \in Nat
  BY AdapterAssumption DEF FreeOffsets, Seqs, Adapters
<1>2. Min(FreeOffsets(a)) \in Nat
  BY <1>1, MinIsMember
<1>3. \A n \in Nat : n % SeqCount \in Seqs
  BY AdapterAssumption DEF Seqs
<1>4. NextSequence(a) \in Seqs
  BY <1>1, <1>2, <1>3 DEF NextSequence
<1> QED
  BY <1>3, <1>4, AdapterAssumption DEF Seqs

LEMMA TakeSequenceType ==
  ASSUME NEW a \in Adapters, FreeOffsets(a) # {}
  PROVE  TakeSequence(a) \in Adapters
BY NextSequenceType DEF TakeSequence, Adapters

LEMMA WriteType ==
  ASSUME NEW a \in Adapters, NEW packet \in Packets
  PROVE  Write(a, packet) \in Adapters /\ Write(a, packet).out = Append(a.out, packet)
<1>1. Append(a.out, packet) \in Seq(Packets)
  BY AppendProperties DEF Adapters
<1> QED
  BY <1>1 DEF Write, Adapters

LEMMA WriteFramed ==
  ASSUME NEW F, NEW a \in Adapters, Framed(a, F), NEW packet \in Packets,
         packet.type = "TASK_STATES" => packet.body \in Bodies(F)
  PROVE  Framed(Write(a, packet), F)
<1>1. /\ Write(a, packet).out = Append(a.out, packet) /\ Write(a, packet).last = a.last
      /\ Write(a, packet).displayed = a.displayed /\ Write(a, packet).pending = a.pending
  BY DEF Write, Adapters
<1>2. a.out \in Seq(Packets)
  BY DEF Adapters
<1>3. \A i \in DOMAIN Append(a.out, packet) :
        Append(a.out, packet)[i] = packet \/ (i \in DOMAIN a.out /\ Append(a.out, packet)[i] = a.out[i])
  BY <1>2, AppendProperties, LenProperties
<1> QED
  BY <1>1, <1>3 DEF Framed

\* A report that waits for its acknowledgement, or for its next attempt.
Waiting(p, F) ==
  /\ p \in Pendings /\ p.attempts <= MaxRetries
  /\ p.type = "TASK_STATES" => p.body \in Bodies(F)

LEMMA TransmitPendingFits ==
  ASSUME NEW F, NEW a, Fit(a, F), a.active, NEW p, Waiting(p, F)
  PROVE  Fit(TransmitPending(a, p), F) /\ Quiet(a, TransmitPending(a, p))
<1> DEFINE tried == p.attempts + 1
           sent  == [p EXCEPT !.attempts = tried, !.wait = "ack"]
           later == [p EXCEPT !.attempts = tried, !.wait = "retry"]
<1>1. a \in Adapters /\ Framed(a, F) /\ p.attempts \in Nat /\ tried <= MaxRetries + 1
  BY AdapterAssumption DEF Fit, Common, Waiting, Pendings
<1>2. /\ sent \in Pendings /\ sent.wait = "ack" /\ sent.type = p.type /\ sent.body = p.body
      /\ later \in Pendings /\ later.attempts = tried /\ later.type = p.type /\ later.body = p.body
  <2>1. tried \in 0 .. MaxRetries + 1 /\ p \in Pendings
    BY <1>1, AdapterAssumption DEF Waiting
  <2> HIDE DEF tried
  <2> QED
    BY <2>1 DEF Pendings
<1>3. Packet(p) \in Packets /\ Packet(p).type = p.type /\ Packet(p).body = p.body
  BY DEF Packet, Packets, Waiting, Pendings
<1> HIDE DEF sent, later
<1>4. ASSUME NEW q \in Pendings, q.type = p.type, q.body = p.body,
             q.wait = "retry" => q.attempts <= MaxRetries
      PROVE  Fit(Replace(a, p, q), F) /\ Quiet(a, Replace(a, p, q)) /\ Replace(a, p, q).active
  <2> DEFINE b == Replace(a, p, q)
  <2>1. /\ b \in Adapters /\ SameLink(a, b) /\ b.pending = (a.pending \ {p}) \cup {q}
        /\ b.last = a.last /\ b.displayed = a.displayed /\ b.out = a.out
    BY <1>1, <1>4 DEF Replace, Adapters, SameLink
  <2> HIDE DEF b
  <2>2. Framed(b, F)
    BY <1>1, <1>4, <2>1 DEF Framed, Waiting
  <2>3. b.displayed # None => b.last # None
    BY <2>1 DEF Fit
  <2>4. \A r \in b.pending : r.wait = "retry" => r.attempts <= MaxRetries
    BY <1>4, <2>1 DEF Fit, Common
  <2>5. Fit(b, F) /\ Quiet(a, b)
    BY <2>1, <2>2, <2>3, <2>4, SameLinkFits
  <2> QED
    BY <2>1, <2>5 DEF b, SameLink
<1>5. CASE ~a.gone
  <2> DEFINE b == Replace(a, p, sent)
             c == Write(b, Packet(p))
  <2>1. Fit(b, F) /\ Quiet(a, b) /\ b.active /\ b \in Adapters /\ Framed(b, F)
    BY <1>2, <1>4 DEF Fit, Common
  <2>2. c \in Adapters /\ Framed(c, F)
    BY <2>1, <1>3, WriteType, WriteFramed DEF Waiting
  <2>3. SameLink(b, c) /\ c.pending = b.pending /\ c.displayed = b.displayed /\ c.last = b.last
    BY <2>1 DEF Write, Adapters, SameLink
  <2>4. TransmitPending(a, p) = c
    BY <1>5 DEF TransmitPending, sent
  <2> HIDE DEF b, c
  <2>5. Fit(c, F) /\ Quiet(b, c)
    BY <2>1, <2>2, <2>3, SameLinkFits DEF Fit, Common
  <2>6. Quiet(a, c)
    BY <2>1, <2>3 DEF Quiet, SameLink
  <2> QED
    BY <2>4, <2>5, <2>6
<1>6. CASE a.gone /\ tried <= MaxRetries
  BY <1>2, <1>4, <1>6 DEF TransmitPending, later
<1>7. CASE a.gone /\ ~(tried <= MaxRetries)
  BY <1>7, DisconnectFits DEF TransmitPending
<1> QED
  BY <1>5, <1>6, <1>7

LEMMA RetryOrFailFits ==
  ASSUME NEW F, NEW a, Fit(a, F), a.active, NEW p \in a.pending
  PROVE  Fit(RetryOrFail(a, p), F) /\ Quiet(a, RetryOrFail(a, p))
<1>1. CASE p.attempts <= MaxRetries
  <2>1. Waiting(p, F)
    BY <1>1 DEF Waiting, Fit, Common, Adapters, Framed
  <2> QED
    BY <1>1, <2>1, TransmitPendingFits DEF RetryOrFail
<1>2. CASE ~(p.attempts <= MaxRetries)
  BY <1>2, DisconnectFits DEF RetryOrFail
<1> QED
  BY <1>1, <1>2

LEMMA SendReliableFits ==
  ASSUME NEW F, NEW a, Fit(a, F), a.active, NEW type \in {"TASK_STATES", "PING"},
         NEW body \in TaskStates \cup {None}, type = "TASK_STATES" => body \in Bodies(F)
  PROVE  Fit(SendReliable(a, type, body), F) /\ Quiet(a, SendReliable(a, type, body))
<1>1. a \in Adapters /\ Framed(a, F)
  BY DEF Fit, Common
<1>2. CASE FreeOffsets(a) = {}
  BY <1>2 DEF SendReliable, Quiet, SameLink
<1>3. CASE FreeOffsets(a) # {}
  <2> DEFINE p == [type |-> type, seq |-> NextSequence(a), body |-> body,
                   attempts |-> 0, wait |-> "ack"]
             b == [TakeSequence(a) EXCEPT !.pending = @ \cup {p}]
  <2>1. p \in Pendings /\ Waiting(p, F) /\ p.type = type /\ p.body = body /\ p.wait = "ack"
    BY <1>1, <1>3, NextSequenceType, AdapterAssumption DEF Pendings, Waiting
  <2>2. SendReliable(a, type, body) = TransmitPending(b, p)
    BY <1>3 DEF SendReliable
  <2> HIDE DEF p
  <2>3. /\ b \in Adapters /\ SameLink(a, b) /\ b.pending = a.pending \cup {p}
        /\ b.last = a.last /\ b.displayed = a.displayed /\ b.out = a.out
    BY <1>1, <1>3, <2>1, NextSequenceType DEF TakeSequence, Adapters, SameLink
  <2> HIDE DEF b
  <2>4. Framed(b, F)
    BY <1>1, <2>1, <2>3 DEF Framed
  <2>5. \A r \in b.pending : r.wait = "retry" => r.attempts <= MaxRetries
    BY <2>1, <2>3 DEF Fit, Common
  <2>6. Fit(b, F) /\ b.active
    BY <2>3, <2>4, <2>5, SameLinkFits DEF Fit, SameLink
  <2>7. Fit(TransmitPending(b, p), F) /\ Quiet(b, TransmitPending(b, p))
    BY <2>1, <2>6, TransmitPendingFits
  <2>8. Quiet(a, TransmitPending(b, p))
    BY <2>3, <2>6, <2>7 DEF Quiet, SameLink
  <2> QED
    BY <2>2, <2>7, <2>8
<1> QED
  BY <1>2, <1>3

LEMMA SendFeedbackFits ==
  ASSUME NEW F, NEW a, Fit(a, F), a.active, NEW frame \in Shown(F)
  PROVE  Fit(SendFeedback(a, frame), F) /\ Quiet(a, SendFeedback(a, frame))
<1>1. EncodeTaskStates(frame) \in Bodies(F) /\ EncodeTaskStates(frame) \in TaskStates
  BY ShownType DEF Bodies, Fit, Common
<1> QED
  BY <1>1, SendReliableFits DEF SendFeedback

\* What is shown or remembered may change with the connection as it is.
LEMMA ShowFits ==
  ASSUME NEW F, NEW a, Fit(a, F), NEW b \in Adapters, SameLink(a, b),
         b.pending = a.pending, b.done = a.done, b.out = a.out,
         b.last \in F \cup {None}, b.displayed \in Shown(F) \cup {None},
         b.displayed # None => a.active /\ b.last # None
  PROVE  Fit(b, F)
BY DEF Fit, Common, SameLink, Opened, Cleared, Framed

LEMMA UpdateFeedbackFits ==
  ASSUME NEW F, NEW a, Fit(a, F), NEW frame \in F
  PROVE  Fit(UpdateFeedback(a, frame), F) /\ Quiet(a, UpdateFeedback(a, frame))
<1> DEFINE b == [a EXCEPT !.last = frame]
<1>1. a \in Adapters /\ F \subseteq Frame /\ frame \in Shown(F) /\ frame # None
  BY NoneIsNoFrame DEF Fit, Common, Shown
<1>2. /\ b \in Adapters /\ SameLink(a, b) /\ b.last = frame /\ b.displayed = a.displayed
      /\ b.pending = a.pending /\ b.done = a.done /\ b.out = a.out
  BY <1>1 DEF Adapters, SameLink
<1> HIDE DEF b
<1>3. Fit(b, F)
  <2>1. b.displayed # None => a.active
    BY <1>2 DEF Fit, Cleared
  <2>2. b.displayed \in Shown(F) \cup {None}
    BY <1>2 DEF Fit, Common, Framed
  <2> QED
    BY <1>1, <1>2, <2>1, <2>2, ShowFits
<1>4. UpdateFeedback(a, frame) = IF a.active /\ a.displayed = None THEN SendFeedback(b, frame) ELSE b
  BY DEF UpdateFeedback, b
<1>5. CASE a.active /\ a.displayed = None
  <2>1. Fit(SendFeedback(b, frame), F) /\ Quiet(b, SendFeedback(b, frame))
    BY <1>1, <1>2, <1>3, <1>5, SendFeedbackFits DEF SameLink
  <2> QED
    BY <1>2, <1>4, <1>5, <2>1 DEF Quiet, SameLink
<1>6. CASE ~(a.active /\ a.displayed = None)
  <2>1. Quiet(a, b)
    BY <1>2 DEF Quiet, SameLink, Fit, Cleared
  <2> QED
    BY <1>3, <1>4, <1>6, <2>1
<1> QED
  BY <1>5, <1>6

LEMMA HeartbeatFits ==
  ASSUME NEW F, NEW a, Fit(a, F), a.active
  PROVE  Fit(Heartbeat(a), F) /\ Quiet(a, Heartbeat(a))
<1>1. a.displayed # None => a.displayed \in Shown(F)
  BY DEF Fit, Common, Framed
<1>2. a.last # None => a.last \in Shown(F)
  BY DEF Fit, Common, Framed, Shown
<1>3. Fit(SendPing(a), F) /\ Quiet(a, SendPing(a))
  BY SendReliableFits DEF SendPing
<1> QED
  BY <1>1, <1>2, <1>3, SendFeedbackFits DEF Heartbeat

LEMMA ShowErrorFits ==
  ASSUME NEW F, NEW a, Fit(a, F), a.active
  PROVE  Fit(ShowError(a), F) /\ Quiet(a, ShowError(a))
<1>1. CASE a.last = None
  BY <1>1 DEF ShowError, Quiet, SameLink
<1>2. CASE a.last # None
  <2> DEFINE b == [a EXCEPT !.displayed = ErrorFrame(a.last)]
  <2>1. a \in Adapters /\ ErrorFrame(a.last) \in Shown(F) /\ ErrorFrame(a.last) \in Frame
    BY <1>2, ShownType DEF Fit, Common, Framed, Shown
  <2>2. /\ b \in Adapters /\ SameLink(a, b) /\ b.last = a.last /\ b.displayed = ErrorFrame(a.last)
        /\ b.pending = a.pending /\ b.done = a.done /\ b.out = a.out
    BY <2>1 DEF Adapters, SameLink
  <2>3. ShowError(a) = SendFeedback(b, ErrorFrame(a.last))
    BY <1>2 DEF ShowError
  <2> HIDE DEF b
  <2>4. Fit(b, F) /\ b.active
    <3>1. a.last \in F \cup {None} /\ b.active
      BY <2>2 DEF Fit, Common, Framed, SameLink
    <3> QED
      BY <1>2, <2>1, <2>2, <3>1, ShowFits
  <2>5. /\ Fit(SendFeedback(b, ErrorFrame(a.last)), F)
        /\ Quiet(b, SendFeedback(b, ErrorFrame(a.last)))
    BY <2>1, <2>4, SendFeedbackFits
  <2> QED
    BY <2>2, <2>3, <2>4, <2>5 DEF Quiet, SameLink
<1> QED
  BY <1>1, <1>2

LEMMA ErrorShownFits ==
  ASSUME NEW F, NEW a, Fit(a, F), a.displayed # None
  PROVE  a.active /\ Fit(ErrorShown(a), F) /\ Quiet(a, ErrorShown(a))
<1> DEFINE b == [a EXCEPT !.displayed = None]
<1>1. a \in Adapters /\ a.active /\ a.last \in Shown(F)
  BY DEF Fit, Common, Framed, Cleared, Shown
<1>2. /\ b \in Adapters /\ SameLink(a, b) /\ b.last = a.last /\ b.displayed = None
      /\ b.pending = a.pending /\ b.done = a.done /\ b.out = a.out
  BY <1>1 DEF Adapters, SameLink
<1>3. ErrorShown(a) = SendFeedback(b, a.last)
  BY DEF ErrorShown
<1> HIDE DEF b
<1>4. Fit(b, F) /\ b.active
  <2>1. a.last \in F \cup {None} /\ b.active
    BY <1>1, <1>2 DEF Fit, Common, Framed, SameLink
  <2> QED
    BY <1>1, <1>2, <2>1, ShowFits
<1>5. Fit(SendFeedback(b, a.last), F) /\ Quiet(b, SendFeedback(b, a.last))
  BY <1>1, <1>4, SendFeedbackFits
<1> QED
  BY <1>1, <1>2, <1>3, <1>4, <1>5 DEF Quiet, SameLink

-----------------------------------------------------------------------------
(***************************************************************************)
(* Reports from the keyboard.                                              *)
(***************************************************************************)
\* Acknowledgements leave less to wait for.
LEMMA SettleFits ==
  ASSUME NEW F, NEW a, Fit(a, F), a.active, NEW S, NEW D \in SUBSET Tombstones,
         NEW b, b = [a EXCEPT !.pending = @ \ S, !.done = D]
  PROVE  Fit(b, F) /\ Quiet(a, b) /\ b.active /\ SameLink(a, b)
<1>1. a \in Adapters
  BY DEF Fit, Common
<1>2. /\ b \in Adapters /\ SameLink(a, b) /\ b.last = a.last /\ b.displayed = a.displayed
      /\ b.pending \subseteq a.pending /\ b.out = a.out
  BY <1>1 DEF Adapters, SameLink
<1>3. Framed(b, F)
  BY <1>2 DEF Fit, Common, Framed
<1> QED
  BY <1>2, <1>3, SameLinkFits DEF Fit, Common, SameLink

\* A tombstone runs out: the number it kept may be used again.
LEMMA TombstoneFits ==
  ASSUME NEW F, NEW a, Fit(a, F), a.active, NEW d
  PROVE  LET b == [a EXCEPT !.done = @ \ {d}] IN Fit(b, F) /\ Quiet(a, b)
<1>1. a \in Adapters
  BY DEF Fit, Common
<1>2. a.done \ {d} \in SUBSET Tombstones
  BY <1>1 DEF Adapters
<1> DEFINE b == [a EXCEPT !.done = @ \ {d}]
<1>3. /\ b \in Adapters /\ SameLink(a, b) /\ b.last = a.last /\ b.displayed = a.displayed
      /\ b.pending = a.pending /\ b.out = a.out
  BY <1>1, <1>2 DEF Adapters, SameLink
<1> HIDE DEF b
<1>4. Framed(b, F)
  BY <1>3 DEF Fit, Common, Framed
<1>5. Fit(b, F) /\ Quiet(a, b)
  BY <1>3, <1>4, SameLinkFits DEF Fit, Common, SameLink
<1> QED
  BY <1>5 DEF b

LEMMA ReceiveAckFits ==
  ASSUME NEW F, NEW a, Fit(a, F), a.active, NEW report \in Reports, report.type = "ACK"
  PROVE  Fit(ReceiveAck(a, report), F) /\ Quiet(a, ReceiveAck(a, report))
<1> DEFINE tombstone == [type |-> report.of, seq |-> report.seq]
           b == [a EXCEPT !.pending = @ \ PendingOf(a, report), !.done = @ \cup {tombstone}]
<1>1. a \in Adapters /\ report.of \in {"TASK_STATES", "PING"} /\ report.seq \in Seqs
  BY DEF Fit, Common, Reports, Events
<1>2. tombstone \in Tombstones /\ a.done \subseteq Tombstones
  BY <1>1 DEF Tombstones, Adapters
<1>3. Fit(b, F) /\ Quiet(a, b)
  <2>1. b = [a EXCEPT !.pending = @ \ PendingOf(a, report), !.done = a.done \cup {tombstone}]
    BY <1>1 DEF Adapters
  <2> QED
    BY <1>2, <2>1, SettleFits
<1>4. Quiet(a, a)
  BY DEF Quiet, SameLink
<1> QED
  BY <1>3, <1>4, ShowErrorFits DEF ReceiveAck

LEMMA ReceiveErrorFits ==
  ASSUME NEW F, NEW a, Fit(a, F), a.active, NEW report
  PROVE  Fit(ReceiveError(a, report), F) /\ Quiet(a, ReceiveError(a, report))
<1> DEFINE b == [a EXCEPT !.pending = @ \ PendingOf(a, report)]
<1>1. a \in Adapters
  BY DEF Fit, Common
<1>2. /\ b \in Adapters /\ SameLink(a, b) /\ b.last = a.last /\ b.displayed = a.displayed
      /\ b.pending \subseteq a.pending /\ b.out = a.out
  BY <1>1 DEF Adapters, SameLink
<1>3. ReceiveError(a, report) = IF report.of = "TASK_STATES" THEN b ELSE ShowError(b)
  BY DEF ReceiveError
<1> HIDE DEF b
<1>4. Fit(b, F) /\ Quiet(a, b) /\ b.active
  <2>1. Framed(b, F)
    BY <1>2 DEF Fit, Common, Framed
  <2> QED
    BY <1>2, <2>1, SameLinkFits DEF Fit, Common, SameLink
<1>5. Fit(ShowError(b), F) /\ Quiet(b, ShowError(b))
  BY <1>4, ShowErrorFits
<1> QED
  BY <1>2, <1>3, <1>4, <1>5 DEF Quiet, SameLink

\* Every report but a control report.
LEMMA ReceiveFits ==
  ASSUME NEW F, NEW a, Fit(a, F), a.active, NEW report \in Reports,
         report.type # "CONTROL_EVENT"
  PROVE  Fit(Receive(a, report), F) /\ Quiet(a, Receive(a, report))
<1>1. Quiet(a, a)
  BY DEF Quiet, SameLink
<1>2. report.type \in {"ACK", "ERROR", "MALFORMED", "HELLO_ACK"}
  BY DEF Reports, Events
<1> QED
  BY <1>1, <1>2, ReceiveAckFits, ReceiveErrorFits, ShowErrorFits DEF Receive

\* A control report moves only the pressed controls, the reports seen and the
\* events delivered.
LEMMA ReceiveControlFits ==
  ASSUME NEW F, NEW a, Fit(a, F), a.active, NEW report \in Events,
         NEW b, b = ReceiveControl(a, report)
  PROVE  /\ Fit(b, F) /\ b.active /\ b.handles = a.handles /\ b.gone = a.gone
         /\ \/ /\ report \in a.recent
               /\ b = a
            \/ /\ report \notin a.recent
               /\ report.phase = "press" => report.control \in a.pressed
               /\ report.phase = "release" => report.control \notin a.pressed
               /\ report.phase # "repeat"
               /\ b.pressed = a.pressed /\ b.recent = a.recent \cup {report}
               /\ b.emitted = a.emitted
            \/ /\ report \notin a.recent /\ report.phase = "press" /\ report.control \notin a.pressed
               /\ b.pressed = a.pressed \cup {report.control}
               /\ b.recent = a.recent \cup {report} /\ b.emitted = Append(a.emitted, report)
            \/ /\ report \notin a.recent /\ report.phase = "release" /\ report.control \in a.pressed
               /\ b.pressed = a.pressed \ {report.control}
               /\ b.recent = {r \in a.recent \cup {report} : r.control # report.control}
               /\ b.emitted = Append(a.emitted, report)
            \/ /\ report \notin a.recent /\ report.phase = "repeat" /\ b.pressed = a.pressed
               /\ b.recent = a.recent \cup {report} /\ b.emitted = Append(a.emitted, report)
<1>1. /\ a \in Adapters /\ report.phase \in {"press", "release", "repeat"}
      /\ report.control \in ControlCodes
  BY DEF Fit, Common, Events
<1>2. Append(a.emitted, report) \in Seq(Events)
  BY <1>1, AppendProperties DEF Adapters
<1>3. ASSUME NEW c \in Adapters, c.poll = a.poll, c.scan = a.scan, c.active = a.active,
             c.handles = a.handles, c.gone = a.gone, c.pending = a.pending,
             c.last = a.last, c.displayed = a.displayed, c.out = a.out
      PROVE  Fit(c, F)
  BY <1>3 DEF Fit, Common, Opened, Framed
<1>4. CASE report \in a.recent
  BY <1>4 DEF ReceiveControl, RememberPacket
<1>5. CASE report \notin a.recent /\ report.phase = "press"
  BY <1>1, <1>2, <1>3, <1>5 DEF ReceiveControl, RememberPacket, Emit, Adapters
<1>6. CASE report \notin a.recent /\ report.phase = "release"
  BY <1>1, <1>2, <1>3, <1>6 DEF ReceiveControl, RememberPacket, Emit, ForgetControl, Adapters
<1>7. CASE report \notin a.recent /\ report.phase = "repeat"
  BY <1>1, <1>2, <1>3, <1>7 DEF ReceiveControl, RememberPacket, Emit, Adapters
<1> QED
  BY <1>1, <1>4, <1>5, <1>6, <1>7

-----------------------------------------------------------------------------
(***************************************************************************)
(* Scans.                                                                  *)
(***************************************************************************)
LEMMA ClaimFits ==
  ASSUME NEW F, NEW a, Scanning(a, F), Board \in a.scan.compatible
  PROVE  Fit(ClaimSelected(a), F) /\ Quiet(a, ClaimSelected(a))
<1> DEFINE c == Close(a, a.scan.compatible \ {Board})
           b == [c EXCEPT !.poll = FALSE, !.active = TRUE, !.scan = NoScan, !.pressed = {},
                          !.recent = {}]
<1>1. a \in Adapters /\ a.handles = a.scan.compatible
  BY DEF Scanning, Common, Opened
<1>2. /\ c \in Adapters /\ c.handles = {Board} /\ (c.gone => a.gone) /\ c.last = a.last
      /\ c.displayed = a.displayed /\ c.pending = a.pending /\ c.out = a.out
      /\ c.emitted = a.emitted
  BY <1>1 DEF Close, Adapters
<1> HIDE DEF c
<1>3. /\ b \in Adapters /\ b.active /\ ~b.poll /\ b.scan = NoScan /\ b.handles = {Board}
      /\ b.pressed = {} /\ b.recent = {} /\ b.last = a.last /\ b.displayed = None
      /\ b.pending = {} /\ b.out = a.out /\ b.emitted = a.emitted
  BY <1>2, NoScanType DEF Adapters, Scanning, Cleared
<1>4. ClaimSelected(a) = IF b.last # None THEN SendFeedback(b, b.last) ELSE b
  BY DEF ClaimSelected, Claim, c
<1> HIDE DEF b
<1>5. Fit(b, F)
  BY <1>3, NoScanType DEF Scanning, Fit, Common, Framed, Opened, NoScan
<1>6. Quiet(a, b)
  BY <1>3 DEF Quiet, Scanning
<1>7. CASE b.last # None
  <2>1. b.last \in Shown(F)
    BY <1>5, <1>7 DEF Fit, Common, Framed, Shown
  <2>2. Fit(SendFeedback(b, b.last), F) /\ Quiet(b, SendFeedback(b, b.last))
    BY <1>3, <1>5, <2>1, SendFeedbackFits
  <2>3. ~SendFeedback(b, b.last).active =>
          SendFeedback(b, b.last).pressed = {} /\ SendFeedback(b, b.last).recent = {}
    BY <2>2 DEF Fit, Cleared
  <2>4. Quiet(a, SendFeedback(b, b.last))
    BY <1>3, <2>2, <2>3 DEF Quiet, SameLink, Scanning
  <2> QED
    BY <1>4, <1>7, <2>2, <2>4
<1> QED
  BY <1>4, <1>5, <1>6, <1>7

LEMMA GiveUpScanFits ==
  ASSUME NEW F, NEW a, Scanning(a, F)
  PROVE  Fit(GiveUpScan(a), F) /\ Quiet(a, GiveUpScan(a))
<1> DEFINE b == GiveUpScan(a)
<1>1. a \in Adapters /\ a.handles = a.scan.compatible
  BY DEF Scanning, Common, Opened
<1>2. /\ b \in Adapters /\ ~b.active /\ b.handles = {} /\ ~b.gone /\ b.scan = NoScan
      /\ b.last = a.last /\ b.displayed = a.displayed /\ b.pending = a.pending
      /\ b.done = a.done /\ b.pressed = a.pressed /\ b.recent = a.recent /\ b.out = a.out
      /\ b.emitted = a.emitted
  <2>1. a.gone => Board \in a.handles
    BY DEF Scanning, Common
  <2> QED
    BY <1>1, <2>1, NoScanType DEF GiveUpScan, SchedulePoll, Close, Adapters, Scanning
<1> HIDE DEF b
<1>3. Fit(b, F) /\ Quiet(a, b)
  BY <1>2, NoScanType DEF Scanning, Fit, Common, Cleared, Framed, Opened, NoScan, Quiet
<1> QED
  BY <1>3 DEF b

\* What is left of a sequence after its element i.
LEMMA RestType ==
  ASSUME NEW S, NEW s \in Seq(S), NEW i \in DOMAIN s
  PROVE  /\ SubSeq(s, i + 1, Len(s)) \in Seq(S)
         /\ DOMAIN SubSeq(s, i + 1, Len(s)) = 1 .. Len(s) - i
         /\ \A k \in DOMAIN SubSeq(s, i + 1, Len(s)) : SubSeq(s, i + 1, Len(s))[k] = s[i + k]
<1> DEFINE rest == SubSeq(s, i + 1, Len(s))
<1>1. Len(s) \in Nat /\ DOMAIN s = 1 .. Len(s) /\ i \in 1 .. Len(s)
  BY LenProperties
<1>2. \A k \in i + 1 .. Len(s) : s[k] \in S
  BY <1>1, ElementOfSeq
<1>3. i + 1 \in Int /\ Len(s) \in Int
  BY <1>1
<1>4. /\ rest \in Seq(S)
      /\ Len(rest) = IF i + 1 <= Len(s) THEN Len(s) - (i + 1) + 1 ELSE 0
      /\ \A k \in 1 .. Len(s) - (i + 1) + 1 : rest[k] = s[(i + 1) + k - 1]
  BY <1>2, <1>3, SubSeqProperties
<1> HIDE DEF rest
<1>5. Len(rest) = Len(s) - i
  <2>1. Len(rest) = IF i + 1 <= Len(s) THEN Len(s) - (i + 1) + 1 ELSE 0
    BY <1>4
  <2>2. CASE i = Len(s)
    BY <1>1, <2>1, <2>2
  <2>3. CASE i < Len(s)
    <3>1. i + 1 <= Len(s) /\ Len(s) - (i + 1) + 1 = Len(s) - i
      BY <1>1, <2>3
    <3> QED
      BY <2>1, <3>1
  <2> QED
    BY <1>1, <2>2, <2>3
<1>6. DOMAIN rest = 1 .. Len(s) - i
  BY <1>4, <1>5, LenProperties
<1>7. ASSUME NEW k \in 1 .. Len(s) - i
      PROVE  rest[k] = s[i + k]
  <2>1. k \in 1 .. Len(s) - (i + 1) + 1
    BY <1>1
  <2>2. (i + 1) + k - 1 = i + k
    BY <1>1
  <2> QED
    BY <1>4, <2>1, <2>2
<1> QED
  BY <1>4, <1>6, <1>7 DEF rest

\* Opening the next candidate, if it can be opened, and writing HELLO to it.
LEMMA ProbeFits ==
  ASSUME NEW F, NEW a, Scanning(a, F), NEW i \in DOMAIN a.scan.left
  PROVE  Fit(Probe(a, i), F) /\ Quiet(a, Probe(a, i))
<1> DEFINE device == a.scan.left[i]
           left   == SubSeq(a.scan.left, i + 1, Len(a.scan.left))
           b == [TakeSequence(a) EXCEPT
                   !.handles = @ \cup {device},
                   !.scan.probing = device, !.scan.seq = NextSequence(a),
                   !.scan.left = SubSeq(@, i + 1, Len(@))]
           hello == [type |-> "HELLO", seq |-> NextSequence(a), body |-> None, garbled |-> FALSE]
<1>1. /\ a \in Adapters /\ a.handles = a.scan.compatible /\ a.scan \in Scans
      /\ a.scan.left \in Seq(Devices)
  BY DEF Scanning, Common, Opened, Adapters, Scans
<1>2. Len(a.scan.left) \in Nat /\ DOMAIN a.scan.left = 1 .. Len(a.scan.left)
  BY <1>1, LenProperties
<1>3. device \in Devices /\ device # None /\ device \notin a.scan.compatible
  BY <1>1, <1>2, ElementOfSeq, NoneIsNoDevice DEF Scanning, Common, Unprobed
<1>4. FreeOffsets(a) # {}
  <2>1. InUse(a) = {} /\ 0 \in Seqs
    BY AdapterAssumption DEF Scanning, Cleared, InUse, Seqs
  <2> QED
    BY <2>1 DEF FreeOffsets
<1>5. NextSequence(a) \in Seqs /\ TakeSequence(a) \in Adapters
  BY <1>1, <1>4, NextSequenceType, TakeSequenceType
<1>6. /\ left \in Seq(Devices) /\ DOMAIN left = 1 .. Len(a.scan.left) - i
      /\ \A k \in DOMAIN left : left[k] = a.scan.left[i + k]
  BY <1>1, RestType
<1> HIDE DEF device
<1>7. /\ b \in Adapters /\ b.handles = a.handles \cup {device}
      /\ b.scan.probing = device /\ b.scan.left = left /\ b.scan.compatible = a.scan.compatible
      /\ b.active = a.active /\ b.poll = a.poll /\ b.gone = a.gone /\ b.last = a.last
      /\ b.displayed = a.displayed /\ b.pending = a.pending /\ b.done = a.done
      /\ b.pressed = a.pressed /\ b.recent = a.recent /\ b.out = a.out
      /\ b.emitted = a.emitted
  <2>1. TakeSequence(a) = [a EXCEPT !.sequence = (NextSequence(a) + 1) % SeqCount]
    BY DEF TakeSequence
  <2>2. (NextSequence(a) + 1) % SeqCount \in Seqs
    BY <1>1, <1>4, NextSequenceType
  <2> QED
    BY <1>1, <1>3, <1>5, <1>6, <2>1, <2>2 DEF Adapters, Scans
<1> HIDE DEF left
<1>8. Unprobed(b.scan)
  <2>1. ASSUME NEW k \in DOMAIN left
        PROVE  /\ i + k \in DOMAIN a.scan.left /\ left[k] = a.scan.left[i + k]
               /\ i + k # i /\ k \in Nat
    BY <1>2, <1>6, <2>1
  <2>2. ASSUME NEW k \in DOMAIN left, NEW l \in DOMAIN left, left[k] = left[l]
        PROVE  k = l
    <3>1. i + k = i + l
      BY <2>1, <2>2 DEF Scanning, Common, Unprobed
    <3> QED
      BY <2>1, <3>1, <1>2
  <2>3. \A k \in DOMAIN left : left[k] \notin a.scan.compatible \cup {device}
    BY <2>1 DEF Scanning, Common, Unprobed, device
  <2> QED
    BY <1>3, <1>7, <2>2, <2>3 DEF Unprobed
<1> HIDE DEF b
<1>9. ASSUME NEW c \in Adapters, Framed(c, F), c.handles = b.handles, c.scan = b.scan,
             c.active = b.active, c.poll = b.poll, c.gone = b.gone, c.pending = b.pending,
             c.done = b.done, c.last = b.last, c.displayed = b.displayed,
             c.pressed = b.pressed, c.recent = b.recent, c.emitted = b.emitted
      PROVE  Fit(c, F) /\ Quiet(a, c)
  BY <1>1, <1>3, <1>7, <1>8, <1>9 DEF Scanning, Fit, Common, Cleared, Opened, Quiet
<1>10. Framed(b, F)
  BY <1>7 DEF Scanning, Common, Framed
<1>11. hello \in Packets
  BY <1>5 DEF Packets
<1>12. Write(b, hello) \in Adapters /\ Framed(Write(b, hello), F)
  BY <1>7, <1>10, <1>11, WriteType, WriteFramed
<1>13. Probe(a, i) = IF device = Board THEN Write(b, hello) ELSE b
  BY DEF Probe, b, device
<1>14. Fit(Write(b, hello), F) /\ Quiet(a, Write(b, hello))
  BY <1>7, <1>9, <1>12 DEF Write, Adapters
<1> QED
  BY <1>7, <1>9, <1>10, <1>13, <1>14

LEMMA ProceedFits ==
  ASSUME NEW F, NEW a, Scanning(a, F), NEW there
  PROVE  Fit(Proceed(a, there), F) /\ Quiet(a, Proceed(a, there))
<1> DEFINE openable == {i \in DOMAIN a.scan.left : a.scan.left[i] # Board \/ there}
<1>1. a.scan.left \in Seq(Devices)
  BY DEF Scanning, Common, Adapters, Scans
<1>2. openable \in SUBSET Nat
  BY <1>1, LenProperties
<1>3. openable # {} => Min(openable) \in DOMAIN a.scan.left
  BY <1>2, MinIsMember
<1> QED
  BY <1>3, GiveUpScanFits, ClaimFits, ProbeFits DEF Proceed

\* A list of candidates as the system gives it.
Listing(candidates) ==
  /\ candidates \in Seq(Devices)
  /\ \A i, j \in DOMAIN candidates : candidates[i] = candidates[j] => i = j

LEMMA ScanFits ==
  ASSUME NEW F, NEW a, Fit(a, F), ~a.active, a.scan = NoScan, NEW candidates,
         Listing(candidates), NEW there
  PROVE  Fit(Scan(a, candidates, there), F) /\ Quiet(a, Scan(a, candidates, there))
<1> DEFINE b == [a EXCEPT !.poll = FALSE, !.scan.left = candidates]
<1>1. a \in Adapters /\ Cleared(a)
  BY DEF Fit, Common
<1>2. /\ b \in Adapters /\ ~b.active /\ ~b.poll /\ b.scan.left = candidates
      /\ b.scan.probing = None /\ b.scan.compatible = {} /\ b.handles = a.handles
      /\ b.gone = a.gone /\ b.last = a.last /\ b.displayed = a.displayed
      /\ b.pending = a.pending /\ b.done = a.done /\ b.pressed = a.pressed
      /\ b.recent = a.recent /\ b.out = a.out /\ b.emitted = a.emitted
  <2>1. /\ a.scan \in Scans /\ a.scan.probing = None /\ a.scan.compatible = {}
        /\ candidates \in Seq(Devices)
    BY NoScanType DEF NoScan, Listing
  <2> QED
    BY <1>1, <2>1 DEF Adapters, Scans
<1>3. Scan(a, candidates, there) = Proceed(b, there)
  BY DEF Scan
<1> HIDE DEF b
<1>4. \A i \in DOMAIN candidates : candidates[i] # None
  BY ElementOfSeq, LenProperties, NoneIsNoDevice DEF Listing
<1>5. Unprobed(b.scan)
  BY <1>2, <1>4 DEF Unprobed, Listing
<1>6. Scanning(b, F)
  BY <1>1, <1>2, <1>5 DEF Scanning, Fit, Common, Cleared, Framed, Opened, NoScan
<1>7. Fit(Proceed(b, there), F) /\ Quiet(b, Proceed(b, there))
  BY <1>6, ProceedFits
<1> QED
  BY <1>2, <1>3, <1>7 DEF Quiet

LEMMA AnsweredFits ==
  ASSUME NEW F, NEW a, Fit(a, F), a.scan.probing # None, NEW there
  PROVE  Fit(Answered(a, there), F) /\ Quiet(a, Answered(a, there))
<1> DEFINE b == [a EXCEPT !.scan.probing = None, !.scan.compatible = @ \cup {a.scan.probing}]
<1>1. a \in Adapters /\ ~a.active /\ ~a.poll /\ Cleared(a) /\ a.scan.probing \in Devices
  BY DEF Fit, Common, Adapters, Scans, NoScan
<1>2. /\ b \in Adapters /\ ~b.active /\ ~b.poll /\ b.scan.left = a.scan.left
      /\ b.scan.probing = None /\ b.scan.compatible = a.scan.compatible \cup {a.scan.probing}
      /\ b.handles = a.handles /\ b.stopped = a.stopped
      /\ b.gone = a.gone /\ b.last = a.last /\ b.displayed = a.displayed
      /\ b.pending = a.pending /\ b.done = a.done /\ b.pressed = a.pressed
      /\ b.recent = a.recent /\ b.out = a.out /\ b.emitted = a.emitted
  BY <1>1 DEF Adapters, Scans
<1>3. Answered(a, there) = IF a.stopped THEN GiveUpScan(b) ELSE Proceed(b, there)
  BY DEF Answered
<1> HIDE DEF b
<1>4. None \notin a.scan.compatible /\ \A i \in DOMAIN a.scan.left : a.scan.left[i] # None
  <2>1. a.scan.left \in Seq(Devices) /\ a.scan.compatible \subseteq Devices
    BY <1>1 DEF Adapters, Scans
  <2> QED
    BY <2>1, ElementOfSeq, LenProperties, NoneIsNoDevice
<1>5. Unprobed(b.scan)
  BY <1>2, <1>4, <1>1, NoneIsNoDevice DEF Unprobed, Fit, Common
<1>6. Scanning(b, F)
  BY <1>1, <1>2, <1>5 DEF Scanning, Fit, Common, Cleared, Framed, Opened
<1>7. /\ Fit(Proceed(b, there), F) /\ Quiet(b, Proceed(b, there))
      /\ Fit(GiveUpScan(b), F) /\ Quiet(b, GiveUpScan(b))
  BY <1>6, ProceedFits, GiveUpScanFits
<1> QED
  BY <1>1, <1>2, <1>3, <1>7 DEF Quiet

LEMMA UnansweredFits ==
  ASSUME NEW F, NEW a, Fit(a, F), a.scan.probing # None, NEW there
  PROVE  Fit(Unanswered(a, there), F) /\ Quiet(a, Unanswered(a, there))
<1> DEFINE b == [Close(a, {a.scan.probing}) EXCEPT !.scan.probing = None]
<1>1. /\ a \in Adapters /\ ~a.active /\ ~a.poll /\ Cleared(a) /\ a.scan.probing \in Devices
      /\ a.scan.probing \notin a.scan.compatible
  BY DEF Fit, Common, Adapters, Scans, NoScan, Unprobed
<1>2. /\ b \in Adapters /\ ~b.active /\ ~b.poll /\ b.scan.left = a.scan.left
      /\ b.scan.probing = None /\ b.scan.compatible = a.scan.compatible
      /\ b.handles = a.handles \ {a.scan.probing}
      /\ b.gone = (a.gone /\ Board \notin {a.scan.probing}) /\ b.last = a.last
      /\ b.displayed = a.displayed /\ b.pending = a.pending /\ b.done = a.done
      /\ b.pressed = a.pressed /\ b.recent = a.recent /\ b.out = a.out /\ b.emitted = a.emitted
  BY <1>1 DEF Close, Adapters, Scans
<1>3. Unanswered(a, there) = Proceed(b, there)
  BY DEF Unanswered
<1> HIDE DEF b
<1>4. None \notin a.scan.compatible /\ \A i \in DOMAIN a.scan.left : a.scan.left[i] # None
  <2>1. a.scan.left \in Seq(Devices) /\ a.scan.compatible \subseteq Devices
    BY <1>1 DEF Adapters, Scans
  <2> QED
    BY <2>1, ElementOfSeq, LenProperties, NoneIsNoDevice
<1>5. Unprobed(b.scan)
  BY <1>2, <1>4 DEF Unprobed, Fit, Common
<1>6. Scanning(b, F)
  BY <1>1, <1>2, <1>5 DEF Scanning, Fit, Common, Cleared, Framed, Opened
<1>7. Fit(Proceed(b, there), F) /\ Quiet(b, Proceed(b, there))
  BY <1>6, ProceedFits
<1> QED
  BY <1>1, <1>2, <1>3, <1>7 DEF Quiet

LEMMA StopFits ==
  ASSUME NEW F, NEW a, Fit(a, F), NEW there
  PROVE  Fit(Stop(a, there), F) /\ Quiet(a, Stop(a, there))
<1> DEFINE b == [a EXCEPT !.stopped = TRUE, !.poll = FALSE, !.displayed = None]
           c == IF b.active THEN Disconnect(b) ELSE b
<1>1. a \in Adapters
  BY DEF Fit, Common
<1>2. /\ b \in Adapters /\ b.active = a.active /\ ~b.poll /\ b.scan = a.scan
      /\ b.handles = a.handles /\ b.gone = a.gone /\ b.last = a.last /\ b.displayed = None
      /\ b.pending = a.pending /\ b.done = a.done /\ b.pressed = a.pressed
      /\ b.recent = a.recent /\ b.out = a.out /\ b.emitted = a.emitted
  BY <1>1 DEF Adapters
<1>3. Stop(a, there) = IF a.scan.probing # None THEN Unanswered(c, there) ELSE c
  BY DEF Stop
<1> HIDE DEF b
<1>4. Fit(b, F)
  BY <1>2 DEF Fit, Common, Cleared, Framed, Opened
<1>5. CASE a.active
  <2>1. Fit(Disconnect(b), F) /\ Quiet(b, Disconnect(b)) /\ ~Disconnect(b).active
    BY <1>2, <1>4, <1>5, DisconnectFits
  <2>2. a.scan.probing = None
    BY <1>5 DEF Fit, NoScan
  <2>3. Quiet(a, Disconnect(b))
    BY <1>2, <1>5, <2>1 DEF Quiet, SameLink
  <2> QED
    BY <1>2, <1>3, <1>5, <2>1, <2>2, <2>3
<1>6. CASE ~a.active
  <2>1. Quiet(a, b)
    BY <1>2, <1>6 DEF Quiet, Fit, Cleared
  <2>2. CASE a.scan.probing # None
    <3>1. Fit(Unanswered(b, there), F) /\ Quiet(b, Unanswered(b, there))
      BY <1>2, <1>4, <2>2, UnansweredFits
    <3> QED
      BY <1>2, <1>3, <1>6, <2>2, <3>1 DEF Quiet
  <2> QED
    BY <1>2, <1>3, <1>4, <1>6, <2>1, <2>2
<1> QED
  BY <1>5, <1>6

\* A new adapter, with the frame the host gives it.
LEMMA NewAdapterFits ==
  ASSUME NEW F \in SUBSET Frame, NEW last \in F \cup {None}
  PROVE  LET a == [NewAdapter EXCEPT !.last = last]
         IN Fit(a, F) /\ ~a.active /\ a.scan = NoScan /\ a.handles = {} /\ a.emitted = <<>>
<1> DEFINE a == [NewAdapter EXCEPT !.last = last]
<1>1. 0 \in Seqs /\ <<>> \in Seq(Packets) /\ <<>> \in Seq(Events) /\ DOMAIN <<>> = {}
  BY AdapterAssumption DEF Seqs
<1>2. a \in Adapters
  BY <1>1, NoScanType DEF NewAdapter, Adapters
<1>3. /\ ~a.active /\ a.scan = NoScan /\ a.handles = {} /\ a.emitted = <<>> /\ ~a.gone
      /\ ~a.poll /\ Cleared(a) /\ a.last = last /\ a.out = <<>>
  BY DEF NewAdapter, Cleared
<1> HIDE DEF a
<1>4. Fit(a, F)
  BY <1>1, <1>2, <1>3, NoScanType DEF Fit, Common, Cleared, Framed, Opened, NoScan
<1> QED
  BY <1>3, <1>4 DEF a

LEMMA StartFits ==
  ASSUME NEW F, NEW a, Fit(a, F), ~a.active, a.scan = NoScan, NEW candidates,
         Listing(candidates), NEW there
  PROVE  Fit(Start(a, candidates, there), F) /\ Quiet(a, Start(a, candidates, there))
<1> DEFINE b == [a EXCEPT !.stopped = FALSE]
<1>1. a \in Adapters
  BY DEF Fit, Common
<1>2. /\ b \in Adapters /\ b.active = a.active /\ b.poll = a.poll /\ b.scan = a.scan
      /\ b.handles = a.handles /\ b.gone = a.gone /\ b.last = a.last /\ b.displayed = a.displayed
      /\ b.pending = a.pending /\ b.done = a.done /\ b.pressed = a.pressed
      /\ b.recent = a.recent /\ b.out = a.out /\ b.emitted = a.emitted
  BY <1>1 DEF Adapters
<1>3. Start(a, candidates, there) = Scan(b, candidates, there)
  BY DEF Start
<1> HIDE DEF b
<1>4. Fit(b, F)
  BY <1>2 DEF Fit, Common, Cleared, Framed, Opened
<1>5. Fit(Scan(b, candidates, there), F) /\ Quiet(b, Scan(b, candidates, there))
  BY <1>2, <1>4, ScanFits
<1> QED
  BY <1>2, <1>3, <1>5 DEF Quiet

-----------------------------------------------------------------------------
(***************************************************************************)
(* The link: what the two ends and the pipe between them agree on.         *)
(***************************************************************************)
\* The frames the host may compose.
Fed == {FeedbackFrame(s) : s \in Statuses}

OnBoard(b) == [selected |-> b.selected, codes |-> b.states, unread |-> b.unread]

\* What the two ends and the pipe between them agree on.
Linked ==
  /\ Fit(adapter, Fed) /\ adapter.out = <<>> /\ adapter.emitted = <<>>
  /\ up # <<>> \/ late # {} => Board \in adapter.handles /\ ~adapter.gone
  /\ host = "down" => adapter = NewAdapter
  /\ \A i \in DOMAIN down : down[i].type = "TASK_STATES" => down[i].body \in Bodies(Fed)
  /\ board.feedback => OnBoard(board) \in Bodies(Fed)

(***************************************************************************)
(* Control reports are numbered as they are struck.  A report that was     *)
(* acted on and is still to come, in the pipe or as a copy, is settled: its *)
(* control has changed sides since, or receiving it delivers nothing.      *)
(***************************************************************************)
Spent(a, e) == e \in a.recent \/ (e.phase = "release" /\ e.control \notin a.pressed)

Coming(u, l, e) == e \in Events /\ (e \in l \/ \E i \in DOMAIN u : u[i] = e)

\* Between places i and k of the journal a report takes the control of e over.
Turned(j, i, k, e) == \E x \in i + 1 .. k - 1 : Turns(e, j[x])

Numbered(a, u, l, j, n) ==
  \A e \in Events : Coming(u, l, e) \/ e \in a.recent \/ (\E i \in DOMAIN j : j[i] = e) => e.id =< n

Settled(a, j, i) == Turned(j, i, Len(j) + 1, j[i]) \/ (a.active /\ Spent(a, j[i]))

Recorded(a, u, l, j, n) ==
  /\ Numbered(a, u, l, j, n)
  /\ \A i, k \in DOMAIN j : i < k /\ j[i] = j[k] => Turned(j, i, k, j[i])
  /\ \A i \in DOMAIN j : Coming(u, l, j[i]) => Settled(a, j, i)

(***************************************************************************)
(* Why the host may take control c for pressed when it has read the pipe   *)
(* up to report i.  A release that it will not take for a copy is one that *)
(* it remembers nothing of and that the part it has read does not hold.    *)
(***************************************************************************)
Fresh(rec, u, i, e) == e \notin rec /\ \A l \in DOMAIN u : l =< i => u[l] # e

Excused(rec, f, m, u, c, i) ==
  \/ \E k \in Keys : f[k] = c
  \/ \E j \in DOMAIN u : j > i /\ c \in ReleasedBy(u[j]) /\ Fresh(rec, u, i, u[j])
  \/ c \in m

HeldAreDown(b, f) == \A h \in b.held : f[h.key] = h.control

Accounted(a, u, f, m) ==
  /\ a.active /\ ~a.gone => \A c \in a.pressed : Excused(a.recent, f, m, u, c, 0)
  /\ a.active /\ a.gone => a.pressed \subseteq m
  /\ \A i \in DOMAIN u :
       u[i] \in Events /\ u[i].phase = "press" => Excused(a.recent, f, m, u, u[i].control, i)

LinkInv ==
  /\ TypeOK
  /\ Linked
  /\ Recorded(adapter, up, late, journal, clock)
  /\ HeldAreDown(board, finger)
  /\ Accounted(adapter, up, finger, missed)

-----------------------------------------------------------------------------
(***************************************************************************)
(* What the constants give: frames, the list of candidates, controls.      *)
(***************************************************************************)
LEMMA FedFrames ==
  /\ Fed \in SUBSET Frame
  /\ \A s \in Statuses : FeedbackFrame(s) \in Fed
<1>1. ASSUME NEW s \in Statuses
      PROVE  FeedbackFrame(s) \in Frame
  <2>1. s.selected \in Agents \cup {None} /\ s.tasks \in [Agents -> TaskViews \cup {None}]
    BY StatusesAssumption
  <2>2. ASSUME NEW a \in Agents, s.tasks[a] # None
        PROVE  FeedbackState(s.tasks[a]) \in FeedbackStates
    <3>1. s.tasks[a] \in TaskViews
      BY <2>1, <2>2
    <3> QED
      BY <3>1 DEF TaskViews, FeedbackState, FeedbackStates, StateCode
  <2>3. "off" \in FeedbackStates
    BY DEF FeedbackStates, StateCode
  <2> QED
    BY <2>1, <2>2, <2>3 DEF FeedbackFrame, Frame
<1> QED
  BY <1>1 DEF Fed

\* What a frame becomes is what a keyboard accepts and keeps whole.
LEMMA BodyKept ==
  ASSUME NEW body \in Bodies(Fed)
  PROVE  body \in TaskStates /\ body.unread \subseteq 0 .. AgentCount - 1
<1>1. PICK f \in Frame : body = EncodeTaskStates(f)
  BY FedFrames, ShownType, ErrorFrameType DEF Bodies, Shown
<1>2. body \in TaskStates
  BY <1>1, EncodedType
<1>3. body.unread = {a - 1 : a \in f.unread} /\ f.unread \subseteq 1 .. AgentCount
  BY <1>1 DEF EncodeTaskStates, Frame, Agents
<1> QED
  BY <1>2, <1>3, AgentCountAssumption

LEMMA ListedListing == Listing(Listed)
<1> DEFINE n  == Len(Candidates)
           at == CHOOSE i \in DOMAIN Candidates : Candidates[i] = Board
           before == SubSeq(Candidates, 1, at - 1)
           after  == SubSeq(Candidates, at + 1, n)
<1>1. n \in Nat /\ DOMAIN Candidates = 1 .. n /\ at \in 1 .. n
  BY CandidatesAssumption, LenProperties
<1>2. CASE plugged
  BY <1>2, CandidatesAssumption DEF Listing, Listed
<1>3. CASE ~plugged
  <2> HIDE DEF at
  <2>1. /\ after \in Seq(Devices) /\ DOMAIN after = 1 .. n - at
        /\ \A k \in DOMAIN after : after[k] = Candidates[at + k]
    BY <1>1, RestType, CandidatesAssumption
  <2>2. /\ before \in Seq(Devices)
        /\ Len(before) = IF 1 <= at - 1 THEN at - 1 - 1 + 1 ELSE 0
        /\ \A k \in 1 .. at - 1 - 1 + 1 : before[k] = Candidates[1 + k - 1]
    <3>1. \A k \in 1 .. at - 1 : Candidates[k] \in Devices
      BY <1>1, CandidatesAssumption, ElementOfSeq
    <3>2. 1 \in Int /\ at - 1 \in Int
      BY <1>1
    <3> QED
      BY <3>1, <3>2, SubSeqProperties
  <2> HIDE DEF before, after, n
  <2>3. Len(before) = at - 1
    <3>1. CASE at = 1
      BY <2>2, <3>1
    <3>2. CASE at > 1
      BY <1>1, <2>2, <3>2
    <3> QED
      BY <1>1, <3>1, <3>2
  <2>4. \A k \in 1 .. at - 1 : before[k] = Candidates[k]
    <3>1. ASSUME NEW k \in 1 .. at - 1
          PROVE  before[k] = Candidates[k]
      <4>1. k \in 1 .. at - 1 - 1 + 1 /\ 1 + k - 1 = k
        BY <1>1
      <4> QED
        BY <2>2, <4>1
    <3> QED
      BY <3>1
  <2>5. Len(after) = n - at
    <3>1. Len(after) \in Nat /\ DOMAIN after = 1 .. Len(after)
      BY <2>1, LenProperties
    <3>2. n - at \in Nat
      BY <1>1
    <3> QED
      BY <2>1, <3>1, <3>2
  <2>6. /\ before \o after \in Seq(Devices) /\ DOMAIN (before \o after) = 1 .. n - 1
        /\ \A k \in 1 .. n - 1 :
             (before \o after)[k] = IF k < at THEN Candidates[k] ELSE Candidates[k + 1]
    <3>1. /\ before \o after \in Seq(Devices)
          /\ Len(before \o after) = (at - 1) + (n - at)
          /\ \A k \in 1 .. (at - 1) + (n - at) : (before \o after)[k] =
               IF k <= at - 1 THEN before[k] ELSE after[k - (at - 1)]
      <4>1. /\ before \o after \in Seq(Devices)
            /\ Len(before \o after) = Len(before) + Len(after)
            /\ \A k \in 1 .. Len(before) + Len(after) : (before \o after)[k] =
                 IF k <= Len(before) THEN before[k] ELSE after[k - Len(before)]
        BY <2>1, <2>2, ConcatProperties
      <4> QED
        BY <2>3, <2>5, <4>1
    <3>2. (at - 1) + (n - at) = n - 1
      BY <1>1
    <3>3. ASSUME NEW k \in 1 .. n - 1
          PROVE  (before \o after)[k] = IF k < at THEN Candidates[k] ELSE Candidates[k + 1]
      <4>1. CASE k < at
        <5>1. k <= at - 1 /\ k \in 1 .. at - 1
          BY <1>1, <4>1
        <5> QED
          BY <2>4, <3>1, <3>2, <4>1, <5>1
      <4>2. CASE ~(k < at)
        <5>1. ~(k <= at - 1) /\ k - (at - 1) \in 1 .. n - at /\ at + (k - (at - 1)) = k + 1
          BY <1>1, <4>2
        <5> QED
          BY <2>1, <3>1, <3>2, <4>2, <5>1
      <4> QED
        BY <4>1, <4>2
    <3>4. DOMAIN (before \o after) = 1 .. n - 1
      BY <3>1, <3>2, LenProperties
    <3> QED
      BY <3>1, <3>3, <3>4
  <2>7. Listed = before \o after
    BY <1>3 DEF Listed, before, after, at, n
  <2> DEFINE place(k) == IF k < at THEN k ELSE k + 1
  <2>8. ASSUME NEW k \in 1 .. n - 1, NEW l \in 1 .. n - 1,
               (before \o after)[k] = (before \o after)[l]
        PROVE  k = l
    <3>1. place(k) \in 1 .. n /\ place(l) \in 1 .. n
      BY <1>1
    <3>2. Candidates[place(k)] = Candidates[place(l)]
      BY <2>6, <2>8
    <3>3. place(k) = place(l)
      <4> HIDE DEF place
      <4> QED
        BY <1>1, <3>1, <3>2, CandidatesAssumption
    <3> QED
      BY <1>1, <3>3
  <2> QED
    BY <2>6, <2>7, <2>8 DEF Listing
<1> QED
  BY <1>2, <1>3

LEMMA ControlType ==
  ASSUME NEW code \in Keycodes \cup {None}
  PROVE  ControlForKeycode(code) \in ControlCodes \cup {ControlNone}
<1>1. code # None => code.f \in 13 .. 24 /\ code.shift \in BOOLEAN
  BY KeymapAssumption
<1> QED
  BY <1>1 DEF ControlForKeycode, ControlCodes, ControlNone

-----------------------------------------------------------------------------
(***************************************************************************)
(* Pipes of reports, by their elements.                                    *)
(***************************************************************************)
LEMMA TailElements ==
  ASSUME NEW S, NEW u \in Seq(S), u # <<>>
  PROVE  /\ Len(u) \in Nat \ {0} /\ DOMAIN u = 1 .. Len(u)
         /\ Head(u) = u[1] /\ u[1] \in S
         /\ Tail(u) \in Seq(S) /\ DOMAIN Tail(u) = 1 .. Len(u) - 1
         /\ \A i \in DOMAIN Tail(u) : Tail(u)[i] = u[i + 1]
<1>1. Len(u) \in Nat \ {0} /\ DOMAIN u = 1 .. Len(u)
  BY LenProperties, EmptySeq
<1>2. /\ Head(u) \in S /\ Tail(u) \in Seq(S) /\ Len(Tail(u)) = Len(u) - 1
      /\ \A i \in 1 .. Len(Tail(u)) : Tail(u)[i] = u[i + 1]
  BY HeadTailProperties
<1>3. DOMAIN Tail(u) = 1 .. Len(u) - 1
  BY <1>2, LenProperties
<1>4. Head(u) = u[1]
  OBVIOUS
<1> QED
  BY <1>1, <1>2, <1>3, <1>4

LEMMA SingleElements ==
  ASSUME NEW S, NEW x \in S
  PROVE  <<x>> \in Seq(S) /\ Len(<<x>>) = 1 /\ <<x>>[1] = x
OBVIOUS

LEMMA PrefixedElements ==
  ASSUME NEW S, NEW u \in Seq(S), NEW x \in S
  PROVE  /\ <<x>> \o u \in Seq(S) /\ DOMAIN (<<x>> \o u) = 1 .. Len(u) + 1
         /\ (<<x>> \o u)[1] = x
         /\ \A i \in 2 .. Len(u) + 1 : (<<x>> \o u)[i] = u[i - 1]
<1>1. <<x>> \in Seq(S) /\ Len(<<x>>) = 1 /\ <<x>>[1] = x /\ Len(u) \in Nat
  BY SingleElements, LenProperties
<1>2. /\ <<x>> \o u \in Seq(S) /\ Len(<<x>> \o u) = 1 + Len(u)
      /\ \A i \in 1 .. 1 + Len(u) : (<<x>> \o u)[i] = IF i <= 1 THEN <<x>>[i] ELSE u[i - 1]
  BY <1>1, ConcatProperties
<1>3. DOMAIN (<<x>> \o u) = 1 .. Len(u) + 1
  BY <1>1, <1>2, LenProperties
<1> QED
  BY <1>1, <1>2, <1>3

LEMMA SentElements ==
  ASSUME NEW S, NEW u \in Seq(S), NEW x \in S
  PROVE  /\ u \o <<x>> \in Seq(S) /\ Len(u) \in Nat
         /\ DOMAIN u = 1 .. Len(u) /\ DOMAIN (u \o <<x>>) = 1 .. Len(u) + 1
         /\ \A i \in 1 .. Len(u) : (u \o <<x>>)[i] = u[i]
         /\ (u \o <<x>>)[Len(u) + 1] = x
<1>1. /\ <<x>> \in Seq(S) /\ Len(<<x>>) = 1 /\ <<x>>[1] = x /\ Len(u) \in Nat
      /\ DOMAIN u = 1 .. Len(u)
  BY SingleElements, LenProperties
<1>2. /\ u \o <<x>> \in Seq(S) /\ Len(u \o <<x>>) = Len(u) + 1
      /\ \A i \in 1 .. Len(u) + 1 : (u \o <<x>>)[i] =
           IF i <= Len(u) THEN u[i] ELSE <<x>>[i - Len(u)]
  BY <1>1, ConcatProperties
<1>3. DOMAIN (u \o <<x>>) = 1 .. Len(u) + 1
  BY <1>1, <1>2, LenProperties
<1>4. (u \o <<x>>)[Len(u) + 1] = <<x>>[Len(u) + 1 - Len(u)] /\ Len(u) + 1 - Len(u) = 1
  BY <1>1, <1>2
<1> QED
  BY <1>1, <1>2, <1>3, <1>4

\* The controls the host believes in are controls.
LEMMA BelievedType ==
  ASSUME NEW a \in Adapters, NEW u \in Seq(Reports)
  PROVE  Believed(a, u) \subseteq ControlCodes
<1>1. ASSUME NEW q \in Range(u), q.type = "CONTROL_EVENT"
      PROVE  q.control \in ControlCodes
  <2>1. q \in Reports
    BY LenProperties, ElementOfSeq DEF Range
  <2>2. q \in Events
    BY <1>1, <2>1 DEF Reports
  <2> QED
    BY <2>2 DEF Events
<1> QED
  BY <1>1 DEF Believed, Adapters

LEMMA PressBelieved ==
  ASSUME NEW a, NEW u, NEW i \in DOMAIN u, u[i] \in Events, u[i].phase = "press"
  PROVE  u[i].control \in Believed(a, u)
<1>1. u[i] \in Range(u) /\ u[i].type = "CONTROL_EVENT"
  BY DEF Range, Events
<1> QED
  BY <1>1 DEF Believed

-----------------------------------------------------------------------------
(***************************************************************************)
(* The journal.                                                            *)
(***************************************************************************)
\* Whatever the environment takes away keeps it.
LEMMA FewerRecorded ==
  ASSUME NEW a, NEW u, NEW l, NEW j, NEW n, Recorded(a, u, l, j, n), NEW v, NEW l2,
         \A e \in Events : Coming(v, l2, e) => Coming(u, l, e)
  PROVE  Recorded(a, v, l2, j, n)
<1>1. Numbered(a, v, l2, j, n)
  BY DEF Recorded, Numbered
<1>2. \A i \in DOMAIN j : Coming(v, l2, j[i]) => Coming(u, l, j[i])
  BY DEF Coming
<1> QED
  BY <1>1, <1>2 DEF Recorded

LEMMA EmptyRecorded ==
  ASSUME NEW a, NEW u, NEW l, NEW j, NEW n, Recorded(a, u, l, j, n)
  PROVE  Recorded(a, <<>>, {}, j, n)
<1>1. DOMAIN <<>> = {}
  OBVIOUS
<1>2. \A e \in Events : ~Coming(<<>>, {}, e)
  BY <1>1 DEF Coming
<1> QED
  BY <1>2, FewerRecorded

LEMMA TailRecorded ==
  ASSUME NEW a, NEW u \in Seq(Reports), NEW l, NEW j, NEW n, Recorded(a, u, l, j, n), u # <<>>
  PROVE  Recorded(a, Tail(u), l, j, n)
<1>1. /\ DOMAIN Tail(u) = 1 .. Len(u) - 1 /\ Len(u) \in Nat /\ DOMAIN u = 1 .. Len(u)
      /\ \A i \in DOMAIN Tail(u) : Tail(u)[i] = u[i + 1]
  BY TailElements
<1>2. \A i \in DOMAIN Tail(u) : i + 1 \in DOMAIN u
  BY <1>1
<1>3. \A e \in Events : Coming(Tail(u), l, e) => Coming(u, l, e)
  BY <1>1, <1>2 DEF Coming
<1> QED
  BY <1>3, FewerRecorded

LEMMA GarbledRecorded ==
  ASSUME NEW a, NEW u \in Seq(Reports), NEW l, NEW j, NEW n, Recorded(a, u, l, j, n), u # <<>>
  PROVE  Recorded(a, <<[type |-> "MALFORMED"]>> \o Tail(u), l, j, n)
<1> DEFINE t == Tail(u)
           v == <<[type |-> "MALFORMED"]>> \o t
<1>1. t \in Seq(Reports) /\ Len(t) \in Nat /\ DOMAIN t = 1 .. Len(t)
  BY TailElements, LenProperties
<1>2. [type |-> "MALFORMED"] \in Reports /\ [type |-> "MALFORMED"] \notin Events
  BY DEF Reports, Events
<1>3. Recorded(a, t, l, j, n)
  BY TailRecorded
<1> HIDE DEF t
<1>4. /\ DOMAIN v = 1 .. Len(t) + 1 /\ v[1] = [type |-> "MALFORMED"]
      /\ \A i \in 2 .. Len(t) + 1 : v[i] = t[i - 1]
  BY <1>1, <1>2, PrefixedElements
<1> HIDE DEF v
<1>5. ASSUME NEW e \in Events, NEW i \in DOMAIN v, v[i] = e
      PROVE  \E k \in DOMAIN t : t[k] = e
  <2>1. i # 1
    BY <1>2, <1>4, <1>5
  <2>2. i \in 2 .. Len(t) + 1 /\ i - 1 \in DOMAIN t
    BY <1>1, <1>4, <2>1
  <2> QED
    BY <1>4, <1>5, <2>2
<1>6. \A e \in Events : Coming(v, l, e) => Coming(t, l, e)
  BY <1>5 DEF Coming
<1> QED
  BY <1>3, <1>6, FewerRecorded DEF v, t

\* A report the keyboard sends: a control report has the next number.
LEMMA SentRecorded ==
  ASSUME NEW a \in Adapters, NEW u \in Seq(Reports), NEW l, NEW j,
         NEW n \in Nat, Recorded(a, u, l, j, n), NEW e \in Reports, NEW m \in Nat, n =< m,
         e \in Events => e.id = m /\ n < m
  PROVE  Recorded(a, u \o <<e>>, l, j, m) /\ Recorded(a, u, l, j, m)
<1> DEFINE v == u \o <<e>>
<1>1. /\ Len(u) \in Nat /\ DOMAIN u = 1 .. Len(u) /\ DOMAIN v = 1 .. Len(u) + 1
      /\ \A i \in 1 .. Len(u) : v[i] = u[i]
      /\ v[Len(u) + 1] = e
  BY SentElements
<1> HIDE DEF v
<1>2. \A i \in DOMAIN v : (i \in DOMAIN u /\ v[i] = u[i]) \/ v[i] = e
  BY <1>1
<1>3. \A x \in Events : x.id \in Nat
  BY DEF Events
<1>4. \A x \in Events : Coming(v, l, x) => Coming(u, l, x) \/ x = e
  BY <1>2 DEF Coming
<1>5. Numbered(a, v, l, j, m) /\ Numbered(a, u, l, j, m)
  <2>1. ASSUME NEW x \in Events,
               Coming(v, l, x) \/ Coming(u, l, x) \/ x \in a.recent \/ \E i \in DOMAIN j : j[i] = x
        PROVE  x.id =< m
    <3>1. CASE x = e
      BY <1>3, <3>1
    <3>2. CASE Coming(u, l, x) \/ x \in a.recent \/ \E i \in DOMAIN j : j[i] = x
      <4>1. x.id =< n
        BY <3>2 DEF Recorded, Numbered
      <4> QED
        BY <1>3, <4>1
    <3> QED
      BY <1>4, <2>1, <3>1, <3>2
  <2> QED
    BY <2>1 DEF Numbered
<1>6. ASSUME NEW i \in DOMAIN j, Coming(v, l, j[i])
      PROVE  Coming(u, l, j[i])
  <2>1. j[i] \in Events /\ j[i].id =< n
    BY <1>6 DEF Coming, Recorded, Numbered
  <2>2. j[i] # e
    BY <1>3, <2>1
  <2> QED
    BY <1>4, <1>6, <2>1, <2>2
<1> QED
  BY <1>5, <1>6 DEF Recorded, v

\* What stays in the pipe to the host when the adapter's fields become b.
Kept(b, u) == IF Board \in b.handles /\ ~b.gone THEN u ELSE <<>>
Left(b, l) == IF Board \in b.handles /\ ~b.gone THEN l ELSE {}

\* An operation that delivers nothing.
LEMMA QuietRecorded ==
  ASSUME NEW a, NEW b, NEW F, Fit(b, F), Quiet(a, b), NEW u, NEW l, NEW j, NEW n,
         Recorded(a, u, l, j, n)
  PROVE  Recorded(b, Kept(b, u), Left(b, l), j, n)
<1>1. Recorded(a, Kept(b, u), Left(b, l), j, n)
  BY EmptyRecorded DEF Kept, Left
<1>2. CASE a.active /\ SameLink(a, b)
  BY <1>1, <1>2 DEF Recorded, Numbered, Settled, Spent, SameLink
<1>3. CASE ~b.active /\ Board \notin b.handles
  <2>1. Kept(b, u) = <<>> /\ Left(b, l) = {} /\ DOMAIN <<>> = {}
    BY <1>3 DEF Kept, Left
  <2>2. b.recent = {}
    BY <1>3 DEF Fit, Cleared
  <2>3. \A e : ~Coming(<<>>, {}, e)
    BY <2>1 DEF Coming
  <2> QED
    BY <1>1, <2>1, <2>2, <2>3 DEF Recorded, Numbered
<1>4. CASE ~a.active
  <2>1. b.recent = {}
    BY <1>4 DEF Quiet
  <2> QED
    BY <1>1, <1>4, <2>1 DEF Recorded, Numbered, Settled
<1> QED
  BY <1>2, <1>3, <1>4 DEF Quiet

\* The receipt of a control report, the oldest in the pipe.
LEMMA ReceivedRecorded ==
  ASSUME NEW F, NEW a, Fit(a, F), a.active, a.emitted = <<>>,
         NEW u \in Seq(Reports), u # <<>>, Head(u) \in Events, NEW l,
         NEW j \in Seq(Events), NEW n, Recorded(a, u, l, j, n),
         NEW b, b = ReceiveControl(a, Head(u))
  PROVE  Recorded(b, Tail(u), l, j \o b.emitted, n)
<1> DEFINE e == Head(u)
           t == Tail(u)
<1>1. e = u[1] /\ 1 \in DOMAIN u
  BY TailElements
<1>2. /\ b.active
      /\ \/ e \in a.recent /\ b = a
         \/ /\ e \notin a.recent
            /\ e.phase = "press" => e.control \in a.pressed
            /\ e.phase = "release" => e.control \notin a.pressed
            /\ e.phase # "repeat"
            /\ b.pressed = a.pressed /\ b.recent = a.recent \cup {e} /\ b.emitted = a.emitted
         \/ /\ e \notin a.recent /\ e.phase = "press" /\ e.control \notin a.pressed
            /\ b.pressed = a.pressed \cup {e.control}
            /\ b.recent = a.recent \cup {e} /\ b.emitted = Append(a.emitted, e)
         \/ /\ e \notin a.recent /\ e.phase = "release" /\ e.control \in a.pressed
            /\ b.pressed = a.pressed \ {e.control}
            /\ b.recent = {r \in a.recent \cup {e} : r.control # e.control}
            /\ b.emitted = Append(a.emitted, e)
         \/ /\ e \notin a.recent /\ e.phase = "repeat" /\ b.pressed = a.pressed
            /\ b.recent = a.recent \cup {e} /\ b.emitted = Append(a.emitted, e)
  BY SMTT(60), ReceiveControlFits
<1>3. Recorded(a, t, l, j, n)
  BY TailRecorded
<1>4. e \in Events /\ e.phase \in {"press", "release", "repeat"} /\ Coming(u, l, e)
  BY <1>1 DEF Events, Coming
<1>5. Append(<<>>, e) = <<e>> /\ <<e>> # <<>>
  OBVIOUS
<1> HIDE DEF e, t
<1>6. e.id =< n
  BY <1>4 DEF Recorded, Numbered
<1>7. CASE b.emitted = a.emitted
  <2>1. j \o b.emitted = j
    BY <1>7, ConcatEmptySeq
  <2>2. a.recent \subseteq b.recent /\ b.pressed = a.pressed /\ b.recent \subseteq a.recent \cup {e}
    BY <1>2, <1>5, <1>7
  <2>3. Numbered(b, t, l, j, n)
    BY <1>3, <1>6, <2>2 DEF Recorded, Numbered
  <2>4. \A i \in DOMAIN j : Settled(a, j, i) => Settled(b, j, i)
    BY <1>2, <2>2 DEF Settled, Spent
  <2> QED
    BY <1>3, <2>1, <2>3, <2>4 DEF Recorded, t
<1>8. CASE b.emitted = <<e>> /\ ~Spent(a, e)
  <2> DEFINE w == j \o <<e>>
  <2>1. /\ Len(j) \in Nat /\ DOMAIN j = 1 .. Len(j) /\ DOMAIN w = 1 .. Len(j) + 1
        /\ \A k \in 1 .. Len(j) : w[k] = j[k]
        /\ w[Len(j) + 1] = e /\ w \in Seq(Events)
    BY <1>4, SentElements
  <2>2. Len(w) = Len(j) + 1
    BY <2>1, LenProperties
  <2> HIDE DEF w
  <2>3. Numbered(b, t, l, w, n)
    <3>1. b.recent \subseteq a.recent \cup {e}
      BY <1>2
    <3>2. \A k \in DOMAIN w : w[k] = e \/ (k \in DOMAIN j /\ w[k] = j[k])
      BY <2>1
    <3> QED
      BY <1>3, <1>6, <3>1, <3>2 DEF Recorded, Numbered
  <2>4. ASSUME NEW i \in DOMAIN j, NEW k \in 1 .. Len(j) + 1, Turned(j, i, k, j[i])
        PROVE  Turned(w, i, k, w[i]) /\ Turned(w, i, Len(w) + 1, w[i])
    <3>1. PICK x \in i + 1 .. k - 1 : Turns(j[i], j[x])
      BY <2>4 DEF Turned
    <3>2. /\ w[i] = j[i] /\ w[x] = j[x] /\ x \in i + 1 .. k - 1
          /\ x \in i + 1 .. (Len(j) + 1 + 1) - 1
      BY <2>1, <3>1
    <3> QED
      BY <2>2, <3>1, <3>2 DEF Turned
  <2>5. ASSUME NEW i \in DOMAIN w, NEW k \in DOMAIN w, i < k, w[i] = w[k]
        PROVE  Turned(w, i, k, w[i])
    <3>1. i \in DOMAIN j /\ w[i] = j[i] /\ k \in 1 .. Len(j) + 1
      BY <2>1, <2>5
    <3>2. CASE k \in DOMAIN j
      <4>1. j[i] = j[k]
        BY <2>1, <2>5, <3>2
      <4>2. Turned(j, i, k, j[i])
        BY <2>5, <3>1, <3>2, <4>1 DEF Recorded
      <4> QED
        BY <2>4, <3>1, <4>2
    <3>3. CASE k = Len(j) + 1
      <4>1. j[i] = e
        BY <2>1, <2>5, <3>1, <3>3
      <4>2. Settled(a, j, i)
        BY <1>4, <3>1, <4>1 DEF Recorded
      <4>3. Turned(j, i, k, j[i])
        BY <1>8, <3>3, <4>1, <4>2 DEF Settled
      <4> QED
        BY <2>4, <3>1, <4>3
    <3> QED
      BY <2>1, <3>2, <3>3
  <2>6. ASSUME NEW i \in DOMAIN w, Coming(t, l, w[i])
        PROVE  Settled(b, w, i)
    <3>1. CASE i = Len(j) + 1
      <4>1. w[i] = e /\ Spent(b, e)
        BY <1>2, <1>5, <1>8, <2>1, <3>1 DEF Spent
      <4> QED
        BY <1>2, <4>1 DEF Settled
    <3>2. CASE i \in DOMAIN j
      <4>1. w[i] = j[i] /\ Settled(a, j, i)
        BY <1>3, <2>1, <2>6, <3>2 DEF Recorded
      <4>2. CASE Turned(j, i, Len(j) + 1, j[i])
        <5>1. Len(j) + 1 \in 1 .. Len(j) + 1
          BY <2>1
        <5> QED
          BY <2>4, <3>2, <4>2, <5>1 DEF Settled
      <4>3. CASE Spent(a, j[i])
        <5>1. CASE Turns(j[i], e)
          <6>1. Len(j) + 1 \in i + 1 .. (Len(w) + 1) - 1
            BY <2>1, <2>2, <3>2
          <6>2. Turned(w, i, Len(w) + 1, w[i])
            BY <2>1, <4>1, <5>1, <6>1 DEF Turned
          <6> QED
            BY <6>2 DEF Settled
        <5>2. CASE ~Turns(j[i], e)
          <6>1. Spent(b, j[i])
            BY <1>2, <1>5, <1>8, <4>3, <5>2 DEF Spent, Turns
          <6> QED
            BY <1>2, <4>1, <6>1 DEF Settled
        <5> QED
          BY <5>1, <5>2
      <4> QED
        BY <4>1, <4>2, <4>3 DEF Settled
    <3> QED
      BY <2>1, <3>1, <3>2
  <2> QED
    BY <1>8, <2>3, <2>5, <2>6 DEF Recorded, w, t
<1> QED
  BY <1>2, <1>5, <1>7, <1>8 DEF t, e, Spent

-----------------------------------------------------------------------------
(***************************************************************************)
(* Excuses.                                                                *)
(***************************************************************************)
LEMMA ExcuseType ==
  ASSUME NEW r, NEW f, NEW m, NEW u \in Seq(Reports), NEW c, NEW i \in Nat,
         Excused(r, f, m, u, c, i), NEW v \in Seq(Reports), NEW i2, NEW m2, m \subseteq m2, NEW r2,
         \A j \in DOMAIN u : j > i /\ c \in ReleasedBy(u[j]) /\ Fresh(r, u, i, u[j]) =>
           c \in m2 \/ \E l \in DOMAIN v : l > i2 /\ v[l] = u[j] /\ Fresh(r2, v, i2, u[j])
  PROVE  Excused(r2, f, m2, v, c, i2)
<1>1. CASE \E k \in Keys : f[k] = c
  BY <1>1 DEF Excused
<1>2. CASE c \in m
  BY <1>2 DEF Excused
<1>3. ASSUME NEW j \in DOMAIN u, j > i, c \in ReleasedBy(u[j]), Fresh(r, u, i, u[j])
      PROVE  Excused(r2, f, m2, v, c, i2)
  <2>1. CASE c \in m2
    BY <2>1 DEF Excused
  <2>2. ASSUME NEW l \in DOMAIN v, l > i2, v[l] = u[j], Fresh(r2, v, i2, u[j])
        PROVE  Excused(r2, f, m2, v, c, i2)
    BY <1>3, <2>2 DEF Excused
  <2> QED
    BY <1>3, <2>1, <2>2
<1> QED
  BY <1>1, <1>2, <1>3 DEF Excused

\* The oldest report leaves the pipe; if it was a release, the control is no
\* longer pressed, its release counts as missed, or it was taken for a copy.
LEMMA TailAccounted ==
  ASSUME NEW a, NEW u \in Seq(Reports), NEW f, NEW m, Accounted(a, u, f, m), u # <<>>,
         NEW b, b.active /\ ~b.gone => a.active /\ ~a.gone,
         b.active /\ b.gone => b.pressed \subseteq m, b.recent \subseteq a.recent \cup {u[1]},
         NEW m2, m \subseteq m2,
         \A c \in b.pressed :
           b.active => /\ c \in a.pressed \/ (c = u[1].control /\ u[1] \in Events /\ u[1].phase = "press")
                       /\ c \notin ReleasedBy(u[1]) \/ c \in m2 \/ u[1] \in a.recent
  PROVE  Accounted(b, Tail(u), f, m2)
<1> DEFINE t == Tail(u)
<1>1. /\ Len(u) \in Nat \ {0} /\ DOMAIN u = 1 .. Len(u) /\ 1 \in DOMAIN u
      /\ t \in Seq(Reports) /\ DOMAIN t = 1 .. Len(u) - 1
      /\ \A i \in DOMAIN t : t[i] = u[i + 1] /\ i + 1 \in DOMAIN u
      /\ \A j \in DOMAIN u : j # 1 => j - 1 \in DOMAIN t /\ t[j - 1] = u[j] /\ j - 1 > 0 /\ j - 1 \in Int
  <2>1. /\ Len(u) \in Nat \ {0} /\ DOMAIN u = 1 .. Len(u)
        /\ t \in Seq(Reports) /\ DOMAIN t = 1 .. Len(u) - 1
        /\ \A i \in DOMAIN t : t[i] = u[i + 1]
    BY TailElements
  <2> HIDE DEF t
  <2>2. ASSUME NEW j \in DOMAIN u, j # 1
        PROVE  j - 1 \in DOMAIN t /\ t[j - 1] = u[j] /\ j - 1 > 0 /\ j - 1 \in Int
    <3>1. j - 1 \in DOMAIN t /\ (j - 1) + 1 = j /\ j - 1 > 0 /\ j - 1 \in Int
      BY <2>1, <2>2
    <3> QED
      BY <2>1, <3>1
  <2> QED
    BY <2>1, <2>2
<1> HIDE DEF t
<1>2. ASSUME NEW i \in DOMAIN u, NEW c, Excused(a.recent, f, m, u, c, i)
      PROVE  Excused(b.recent, f, m2, t, c, i - 1)
  <2> DEFINE i2 == i - 1
  <2>1. i \in Nat /\ i2 \in Int /\ 1 =< i
    BY <1>1
  <2>2. ASSUME NEW j \in DOMAIN u, j > i, Fresh(a.recent, u, i, u[j])
        PROVE  \E l \in DOMAIN t : l > i2 /\ t[l] = u[j] /\ Fresh(b.recent, t, i2, u[j])
    <3>1. j # 1 /\ j - 1 > i - 1
      BY <1>1, <2>2
    <3>2. u[j] \notin b.recent
      BY <1>1, <2>1, <2>2 DEF Fresh
    <3>3. ASSUME NEW l \in DOMAIN t, l =< i2
          PROVE  t[l] # u[j]
      <4>1. l + 1 \in DOMAIN u /\ l + 1 =< i /\ t[l] = u[l + 1]
        BY <1>1, <3>3
      <4> QED
        BY <2>2, <4>1 DEF Fresh
    <3>4. Fresh(b.recent, t, i2, u[j])
      BY <3>2, <3>3 DEF Fresh
    <3> QED
      BY <1>1, <3>1, <3>4
  <2> HIDE DEF i2
  <2>3. \A j \in DOMAIN u : j > i /\ c \in ReleasedBy(u[j]) /\ Fresh(a.recent, u, i, u[j]) =>
          c \in m2 \/ \E l \in DOMAIN t : l > i2 /\ t[l] = u[j] /\ Fresh(b.recent, t, i2, u[j])
    BY <2>2
  <2>4. t \in Seq(Reports) /\ i \in Nat /\ m \subseteq m2
    BY <1>1, <2>1
  <2>5. Excused(b.recent, f, m2, t, c, i2)
    BY <1>2, <2>3, <2>4, ExcuseType, ZenonT(60)
  <2> QED
    BY <2>5 DEF i2
<1>3. ASSUME NEW c, Excused(a.recent, f, m, u, c, 0),
             c \notin ReleasedBy(u[1]) \/ c \in m2 \/ u[1] \in a.recent
      PROVE  Excused(b.recent, f, m2, t, c, 0)
  <2>1. ASSUME NEW j \in DOMAIN u, c \in ReleasedBy(u[j]), Fresh(a.recent, u, 0, u[j]), c \notin m2
        PROVE  \E l \in DOMAIN t : l > 0 /\ t[l] = u[j] /\ Fresh(b.recent, t, 0, u[j])
    <3>1. u[j] # u[1] /\ u[j] \notin a.recent
      BY <1>3, <2>1 DEF Fresh
    <3>2. j # 1 /\ u[j] \notin b.recent
      BY <3>1
    <3>3. \A l \in DOMAIN t : ~(l =< 0)
      BY <1>1
    <3>4. Fresh(b.recent, t, 0, u[j])
      BY <3>2, <3>3 DEF Fresh
    <3> QED
      BY <1>1, <3>2, <3>4
  <2>2. \A j \in DOMAIN u : j > 0 /\ c \in ReleasedBy(u[j]) /\ Fresh(a.recent, u, 0, u[j]) =>
          c \in m2 \/ \E l \in DOMAIN t : l > 0 /\ t[l] = u[j] /\ Fresh(b.recent, t, 0, u[j])
    BY <2>1
  <2>3. t \in Seq(Reports) /\ m \subseteq m2
    BY <1>1
  <2>4. CASE \E k \in Keys : f[k] = c
    BY <2>4 DEF Excused
  <2>5. CASE c \in m
    BY <2>3, <2>5 DEF Excused
  <2>6. ASSUME NEW j \in DOMAIN u, j > 0, c \in ReleasedBy(u[j]), Fresh(a.recent, u, 0, u[j])
        PROVE  Excused(b.recent, f, m2, t, c, 0)
    <3>1. CASE c \in m2
      BY <3>1 DEF Excused
    <3>2. ASSUME NEW l \in DOMAIN t, l > 0, t[l] = u[j], Fresh(b.recent, t, 0, u[j])
          PROVE  Excused(b.recent, f, m2, t, c, 0)
      <4>1. c \in ReleasedBy(t[l]) /\ Fresh(b.recent, t, 0, t[l])
        BY <2>6, <3>2
      <4> QED
        BY <3>2, <4>1 DEF Excused
    <3> QED
      BY <2>2, <2>6, <3>1, <3>2
  <2> QED
    BY <1>3, <2>4, <2>5, <2>6 DEF Excused
<1>4. ASSUME b.active, ~b.gone, NEW c \in b.pressed
      PROVE  Excused(b.recent, f, m2, t, c, 0)
  <2>1. CASE c \in a.pressed
    BY <1>3, <1>4, <2>1 DEF Accounted
  <2>2. CASE c = u[1].control /\ u[1] \in Events /\ u[1].phase = "press"
    <3>1. Excused(a.recent, f, m, u, c, 1)
      BY <1>1, <2>2 DEF Accounted
    <3>2. 1 - 1 = 0
      OBVIOUS
    <3> QED
      BY <1>1, <1>2, <3>1, <3>2
  <2> QED
    BY <1>4, <2>1, <2>2
<1>5. ASSUME NEW i \in DOMAIN t, t[i] \in Events, t[i].phase = "press"
      PROVE  Excused(b.recent, f, m2, t, t[i].control, i)
  <2>1. i + 1 \in DOMAIN u /\ u[i + 1] = t[i] /\ (i + 1) - 1 = i
    BY <1>1
  <2>2. Excused(a.recent, f, m, u, t[i].control, i + 1)
    BY <1>5, <2>1 DEF Accounted
  <2>3. Excused(b.recent, f, m2, t, t[i].control, (i + 1) - 1)
    BY <1>2, <2>1, <2>2
  <2> QED
    BY <2>1, <2>3
<1> QED
  BY <1>4, <1>5 DEF Accounted, t

LEMMA GarbledAccounted ==
  ASSUME NEW a, NEW u \in Seq(Reports), NEW f, NEW m, Accounted(a, u, f, m), u # <<>>
  PROVE  Accounted(a, <<[type |-> "MALFORMED"]>> \o Tail(u), f, m \cup ReleasedBy(Head(u)))
<1> DEFINE v  == <<[type |-> "MALFORMED"]>> \o Tail(u)
           m2 == m \cup ReleasedBy(Head(u))
<1>1. /\ Len(u) \in Nat \ {0} /\ DOMAIN u = 1 .. Len(u) /\ Head(u) = u[1]
      /\ Tail(u) \in Seq(Reports) /\ DOMAIN Tail(u) = 1 .. Len(u) - 1
      /\ \A i \in DOMAIN Tail(u) : Tail(u)[i] = u[i + 1]
  BY TailElements
<1>2. Len(Tail(u)) = Len(u) - 1
  BY <1>1, LenProperties
<1>3. [type |-> "MALFORMED"] \in Reports /\ [type |-> "MALFORMED"] \notin Events
  BY DEF Reports, Events
<1>4. /\ v \in Seq(Reports) /\ DOMAIN v = 1 .. Len(Tail(u)) + 1
      /\ v[1] = [type |-> "MALFORMED"]
      /\ \A i \in 2 .. Len(Tail(u)) + 1 : v[i] = Tail(u)[i - 1]
  BY <1>1, <1>3, PrefixedElements
<1> HIDE DEF v
<1>5. \A i \in DOMAIN v : i # 1 => v[i] = u[i]
  <2>1. ASSUME NEW i \in DOMAIN v, i # 1
        PROVE  v[i] = u[i]
    <3>1. i \in 2 .. Len(Tail(u)) + 1 /\ i - 1 \in DOMAIN Tail(u) /\ (i - 1) + 1 = i
      BY <1>1, <1>2, <1>4, <2>1
    <3> QED
      BY <1>1, <1>4, <3>1
  <2> QED
    BY <2>1
<1>6. DOMAIN v = DOMAIN u
  BY <1>1, <1>2, <1>4
<1>7. ASSUME NEW i \in Nat, NEW c, Excused(a.recent, f, m, u, c, i)
      PROVE  Excused(a.recent, f, m2, v, c, i)
  <2>1. ASSUME NEW j \in DOMAIN u, j > i, c \in ReleasedBy(u[j]), Fresh(a.recent, u, i, u[j]),
               c \notin m2
        PROVE  \E l \in DOMAIN v : l > i /\ v[l] = u[j] /\ Fresh(a.recent, v, i, u[j])
    <3>1. j # 1 /\ j \in DOMAIN v /\ v[j] = u[j]
      BY <1>1, <1>5, <1>6, <2>1
    <3>2. v[1] # u[j]
      BY <1>4, <2>1 DEF ReleasedBy
    <3>3. Fresh(a.recent, v, i, u[j])
      BY <1>5, <1>6, <2>1, <3>2 DEF Fresh
    <3> QED
      BY <2>1, <3>1, <3>3
  <2> QED
    BY <1>1, <1>4, <1>7, <2>1, ExcuseType
<1>8. ASSUME NEW i \in DOMAIN v, v[i] \in Events, v[i].phase = "press"
      PROVE  Excused(a.recent, f, m2, v, v[i].control, i)
  <2>1. i # 1 /\ i \in Nat /\ i \in DOMAIN u /\ v[i] = u[i]
    BY <1>1, <1>3, <1>4, <1>5, <1>6, <1>8
  <2> QED
    BY <1>7, <1>8, <2>1 DEF Accounted
<1>9. \A c : Excused(a.recent, f, m, u, c, 0) => Excused(a.recent, f, m2, v, c, 0)
  BY <1>7
<1> QED
  BY <1>8, <1>9 DEF Accounted, v

LEMMA QuietAccounted ==
  ASSUME NEW F, NEW a, Fit(a, F), NEW b, Fit(b, F), Quiet(a, b), NEW u, NEW f, NEW m,
         Accounted(a, u, f, m)
  PROVE  Accounted(b, Kept(b, u), f, m)
<1>1. DOMAIN <<>> = {}
  OBVIOUS
<1>2. CASE a.active /\ SameLink(a, b)
  <2>1. b.active => Board \in b.handles
    BY DEF Fit, Common, Opened
  <2>2. CASE b.gone
    BY <1>1, <1>2, <2>2 DEF Accounted, SameLink, Kept
  <2>3. CASE ~b.gone
    <3>1. Kept(b, u) = u
      BY <1>2, <2>1, <2>3 DEF Kept, SameLink
    <3> QED
      BY <1>2, <3>1 DEF Accounted, SameLink
  <2> QED
    BY <2>2, <2>3
<1>3. CASE ~b.active /\ Board \notin b.handles
  BY <1>1, <1>3 DEF Accounted, Kept
<1>4. CASE ~a.active
  <2>1. b.pressed = {} /\ b.recent = {}
    BY <1>4 DEF Quiet
  <2>2. \A c, i : Excused(a.recent, f, m, u, c, i) => Excused(b.recent, f, m, u, c, i)
    BY <2>1 DEF Excused, Fresh
  <2>3. Accounted(b, u, f, m) /\ Accounted(b, <<>>, f, m)
    BY <1>1, <2>1, <2>2 DEF Accounted
  <2> QED
    BY <2>3 DEF Kept
<1> QED
  BY <1>2, <1>3, <1>4 DEF Quiet

\* A missed release only matters for a control the host believes in.
LEMMA BelievedAccounted ==
  ASSUME NEW a, NEW u, NEW f, NEW m, Accounted(a, u, f, m)
  PROVE  Accounted(a, u, f, m \cap Believed(a, u))
<1>1. a.pressed \subseteq Believed(a, u)
  BY DEF Believed
<1>2. \A i \in DOMAIN u :
        u[i] \in Events /\ u[i].phase = "press" => u[i].control \in Believed(a, u)
  BY PressBelieved
<1> QED
  BY <1>1, <1>2 DEF Accounted, Excused

LEMMA ReceivedAccounted ==
  ASSUME NEW F, NEW a, Fit(a, F), a.active, ~a.gone, NEW u \in Seq(Reports), u # <<>>,
         Head(u) \in Events, NEW f, NEW m,
         Accounted(a, u, f, m), NEW b, b = ReceiveControl(a, Head(u))
  PROVE  Accounted(b, Tail(u), f, m)
<1>1. 1 \in DOMAIN u /\ u[1] = Head(u)
  BY TailElements
<1> DEFINE e == u[1]
<1>2. /\ b.active /\ ~b.gone /\ b.recent \subseteq a.recent \cup {e}
      /\ \/ e \in a.recent /\ b = a
         \/ /\ e.phase = "release" => e.control \notin a.pressed
            /\ b.pressed = a.pressed
         \/ /\ e.phase = "press"
            /\ b.pressed = a.pressed \cup {e.control}
         \/ /\ e.phase = "release"
            /\ b.pressed = a.pressed \ {e.control}
         \/ e.phase = "repeat" /\ b.pressed = a.pressed
  BY <1>1, ReceiveControlFits
<1>3. ReleasedBy(e) = IF e.phase = "release" THEN {e.control} ELSE {}
  BY <1>1 DEF ReleasedBy, Events
<1>4. ASSUME NEW c \in b.pressed
      PROVE  /\ c \in a.pressed \/ (c = e.control /\ e \in Events /\ e.phase = "press")
             /\ c \notin ReleasedBy(e) \/ e \in a.recent
  BY <1>1, <1>2, <1>3
<1> QED
  BY <1>2, <1>4, TailAccounted

-----------------------------------------------------------------------------
(***************************************************************************)
(* Steps of the host process.                                              *)
(***************************************************************************)
LEMMA HostStepKeeps ==
  ASSUME LinkInv, NEW a, Fit(a, Fed), NEW rest \in Seq(Reports), NEW stillDue \in BOOLEAN,
         HostStep(a, rest, stillDue), host' \in {"product", "doctor"},
         Recorded(a, Kept(a, rest), Left(a, late), journal \o a.emitted, clock),
         Accounted(a, Kept(a, rest), finger, missed)
  PROVE  LinkInv'
<1>1. /\ adapter' = [a EXCEPT !.out = <<>>, !.emitted = <<>>]
      /\ down' = IF plugged THEN down \o a.out ELSE <<>>
      /\ up' = Kept(a, rest) /\ late' = Left(a, late)
      /\ due' = (stillDue \/ (host = "product" /\ a.active # adapter.active))
      /\ journal' = journal \o a.emitted
      /\ missed' = missed \cap Believed(a, up')
      /\ UNCHANGED <<boardVars, status, asleep>>
  BY DEF HostStep, Kept, Left
<1>2. a \in Adapters /\ <<>> \in Seq(Packets) /\ <<>> \in Seq(Events) /\ <<>> \in Seq(Reports)
      /\ DOMAIN <<>> = {}
  BY DEF Fit, Common
<1>3. /\ adapter' \in Adapters /\ adapter'.out = <<>> /\ adapter'.emitted = <<>>
      /\ adapter'.poll = a.poll /\ adapter'.scan = a.scan /\ adapter'.active = a.active
      /\ adapter'.handles = a.handles /\ adapter'.gone = a.gone /\ adapter'.pending = a.pending
      /\ adapter'.done = a.done /\ adapter'.last = a.last /\ adapter'.displayed = a.displayed
      /\ adapter'.pressed = a.pressed /\ adapter'.recent = a.recent
  BY <1>1, <1>2 DEF Adapters
<1>4. Fit(adapter, Fed)' 
  BY <1>2, <1>3 DEF Fit, Common, Framed, Opened, Cleared
<1>5. down \in Seq(Packets) /\ a.out \in Seq(Packets) /\ a.emitted \in Seq(Events)
      /\ journal \in Seq(Events)
  BY <1>2 DEF LinkInv, TypeOK, Adapters
<1>6. TypeOK'
  <2>1. down' \in Seq(Packets) /\ journal' \in Seq(Events)
    BY <1>1, <1>2, <1>5, ConcatProperties
  <2>2. up' \in Seq(Reports) /\ late' \subseteq Reports
    BY <1>1, <1>2 DEF Kept, Left, LinkInv, TypeOK
  <2>3. missed' \subseteq ControlCodes
    BY <1>1 DEF LinkInv, TypeOK
  <2>4. due' \in BOOLEAN
    BY <1>1
  <2> QED
    BY <1>1, <1>3, <2>1, <2>2, <2>3, <2>4 DEF LinkInv, TypeOK, boardVars
<1>7. Linked'
  <2>1. ASSUME NEW i \in DOMAIN down', down'[i].type = "TASK_STATES"
        PROVE  down'[i].body \in Bodies(Fed)
    <3>1. CASE ~plugged
      BY <1>1, <1>2, <2>1, <3>1
    <3>2. CASE plugged
      <4>1. /\ Len(down) \in Nat /\ Len(a.out) \in Nat
            /\ DOMAIN down = 1 .. Len(down) /\ DOMAIN a.out = 1 .. Len(a.out)
        BY <1>5, LenProperties
      <4>2. /\ down' \in Seq(Packets) /\ Len(down') = Len(down) + Len(a.out)
            /\ \A k \in 1 .. Len(down) + Len(a.out) : down'[k] =
                 IF k <= Len(down) THEN down[k] ELSE a.out[k - Len(down)]
        BY <1>1, <1>5, <3>2, ConcatProperties
      <4>3. i \in 1 .. Len(down) + Len(a.out)
        BY <2>1, <4>2, LenProperties
      <4>4. CASE i <= Len(down)
        <5>1. i \in DOMAIN down /\ down'[i] = down[i]
          BY <4>1, <4>2, <4>3, <4>4
        <5> QED
          BY <2>1, <5>1 DEF LinkInv, Linked
      <4>5. CASE ~(i <= Len(down))
        <5>1. i - Len(down) \in DOMAIN a.out /\ down'[i] = a.out[i - Len(down)]
          BY <4>1, <4>2, <4>3, <4>5
        <5> QED
          BY <2>1, <5>1 DEF Fit, Common, Framed
      <4> QED
        BY <4>4, <4>5
    <3> QED
      BY <3>1, <3>2
  <2>2. up' # <<>> \/ late' # {} => Board \in adapter'.handles /\ ~adapter'.gone
    BY <1>1, <1>3 DEF Kept, Left
  <2>3. board' = board
    BY <1>1 DEF boardVars
  <2>4. board'.feedback => OnBoard(board)' \in Bodies(Fed)
    BY <2>3 DEF LinkInv, Linked, OnBoard
  <2> QED
    BY <1>3, <1>4, <2>1, <2>2, <2>4 DEF Linked
<1>8. Recorded(adapter, up, late, journal, clock)'
  <2>1. clock' = clock
    BY <1>1 DEF boardVars
  <2>2. Recorded(adapter', Kept(a, rest), Left(a, late), journal \o a.emitted, clock)
    BY <1>3 DEF Recorded, Numbered, Settled, Spent
  <2> QED
    BY <1>1, <2>1, <2>2
<1>9. Accounted(adapter, up, finger, missed)'
  <2>1. Accounted(a, up', finger, missed \cap Believed(a, up'))
    BY <1>1, BelievedAccounted
  <2>2. Accounted(adapter', up', finger, missed \cap Believed(a, up'))
    BY <1>3, <2>1 DEF Accounted
  <2>3. finger' = finger
    BY <1>1 DEF boardVars
  <2> QED
    BY <1>1, <2>2, <2>3
<1>10. HeldAreDown(board, finger)'
  <2>1. board' = board /\ finger' = finger
    BY <1>1 DEF boardVars
  <2> QED
    BY <2>1 DEF LinkInv, HeldAreDown
<1> QED
  BY <1>6, <1>7, <1>8, <1>9, <1>10 DEF LinkInv

\* An operation that delivers nothing, with the pipe read as far as rest.
LEMMA QuietStepKeeps ==
  ASSUME LinkInv, NEW a, Fit(a, Fed), Quiet(adapter, a), NEW rest \in Seq(Reports),
         Recorded(adapter, rest, late, journal, clock), Accounted(adapter, rest, finger, missed),
         NEW stillDue \in BOOLEAN, HostStep(a, rest, stillDue), host' \in {"product", "doctor"}
  PROVE  LinkInv'
<1>1. a.emitted = <<>>
  BY DEF LinkInv, Linked, Quiet
<1>2. journal \o a.emitted = journal
  BY <1>1, ConcatEmptySeq DEF LinkInv, TypeOK
<1>3. Recorded(a, Kept(a, rest), Left(a, late), journal, clock)
  BY QuietRecorded
<1>4. Accounted(a, Kept(a, rest), finger, missed)
  BY QuietAccounted DEF LinkInv, Linked
<1> QED
  BY <1>2, <1>3, <1>4, HostStepKeeps

\* One that leaves the pipe alone.
LEMMA QuietTimerKeeps ==
  ASSUME LinkInv, NEW a, Fit(a, Fed), Quiet(adapter, a),
         NEW stillDue \in BOOLEAN, HostStep(a, up, stillDue), host' \in {"product", "doctor"}
  PROVE  LinkInv'
BY QuietStepKeeps DEF LinkInv, TypeOK

\* The operations of a running adapter.
LEMMA Running ==
  ASSUME LinkInv, host # "down"
  PROVE  host \in {"product", "doctor"} /\ due \in BOOLEAN /\ Fit(adapter, Fed)
BY DEF LinkInv, TypeOK, Linked

LEMMA StartKeeps ==
  ASSUME LinkInv, NEW role \in {"product", "doctor"}, HostStarts(role)
  PROVE  LinkInv'
<1> DEFINE last == IF role = "product" THEN FeedbackFrame(status) ELSE None
           a == [NewAdapter EXCEPT !.last = last]
           b == Start(a, Listed, plugged)
<1>1. last \in Fed \cup {None}
  BY FedFrames DEF LinkInv, TypeOK
<1>2. Fit(a, Fed) /\ ~a.active /\ a.scan = NoScan /\ a.handles = {} /\ a.emitted = <<>>
  BY <1>1, FedFrames, NewAdapterFits
<1>3. HostStep(b, up, FALSE) /\ host' = role /\ adapter = NewAdapter
  BY DEF HostStarts, LinkInv, Linked
<1>4. ~adapter.active /\ adapter.emitted = <<>>
  BY <1>3 DEF NewAdapter
<1> HIDE DEF a
<1>5. Fit(b, Fed) /\ Quiet(a, b)
  BY <1>2, ListedListing, StartFits
<1> HIDE DEF b
<1>6. Quiet(adapter, b)
  BY <1>2, <1>4, <1>5 DEF Quiet
<1> QED
  BY <1>3, <1>5, <1>6, QuietTimerKeeps

LEMMA TimerKeeps ==
  ASSUME LinkInv, Awake, NEW a, Fit(a, Fed) /\ Quiet(adapter, a), Timer(a)
  PROVE  LinkInv'
<1>1. HostStep(a, up, due) /\ host' = host
  BY DEF Timer
<1> QED
  BY <1>1, Running, QuietTimerKeeps DEF Awake

LEMMA StopKeeps ==
  ASSUME LinkInv, StopAdapter
  PROVE  LinkInv'
<1> DEFINE a == Stop(adapter, plugged)
<1>1. HostStep(a, up, due) /\ host' = host /\ host # "down"
  BY DEF StopAdapter, Awake
<1>2. Fit(a, Fed) /\ Quiet(adapter, a)
  BY <1>1, Running, StopFits
<1> HIDE DEF a
<1> QED
  BY <1>1, <1>2, Running, QuietTimerKeeps

LEMMA PublishKeeps ==
  ASSUME LinkInv, Publish
  PROVE  LinkInv'
<1> DEFINE a == UpdateFeedback(adapter, FeedbackFrame(status))
<1>1. HostStep(a, up, FALSE) /\ host' = host /\ host # "down"
  BY DEF Publish, Awake
<1>2. FeedbackFrame(status) \in Fed
  BY FedFrames DEF LinkInv, TypeOK
<1>3. Fit(a, Fed) /\ Quiet(adapter, a)
  BY <1>1, <1>2, Running, UpdateFeedbackFits
<1> HIDE DEF a
<1> QED
  BY <1>1, <1>3, Running, QuietTimerKeeps

LEMMA HeartbeatKeeps ==
  ASSUME LinkInv, HeartbeatElapses
  PROVE  LinkInv'
<1>1. Awake /\ host # "down" /\ adapter.active /\ Timer(Heartbeat(adapter))
  BY DEF HeartbeatElapses, Awake
<1>2. Fit(Heartbeat(adapter), Fed) /\ Quiet(adapter, Heartbeat(adapter))
  BY <1>1, Running, HeartbeatFits
<1> QED
  BY <1>1, <1>2, TimerKeeps

LEMMA ErrorTimerKeeps ==
  ASSUME LinkInv, ErrorTimerElapses
  PROVE  LinkInv'
<1>1. Awake /\ host # "down" /\ adapter.displayed # None /\ Timer(ErrorShown(adapter))
  BY DEF ErrorTimerElapses, Awake
<1>2. Fit(ErrorShown(adapter), Fed) /\ Quiet(adapter, ErrorShown(adapter))
  BY <1>1, Running, ErrorShownFits
<1> QED
  BY <1>1, <1>2, TimerKeeps

LEMMA PollKeeps ==
  ASSUME LinkInv, PollElapses
  PROVE  LinkInv'
<1> DEFINE a == Scan(adapter, Listed, plugged)
<1>1. Awake /\ host # "down" /\ adapter.poll /\ Timer(a)
  BY DEF PollElapses, Awake
<1>2. ~adapter.active /\ adapter.scan = NoScan /\ Fit(adapter, Fed)
  BY <1>1 DEF LinkInv, Linked, Fit
<1>3. Fit(a, Fed) /\ Quiet(adapter, a)
  BY <1>2, ListedListing, ScanFits
<1> HIDE DEF a
<1> QED
  BY <1>1, <1>3, TimerKeeps

LEMMA StrangerKeeps ==
  ASSUME LinkInv, StrangerAnswers
  PROVE  LinkInv'
<1> DEFINE a == Answered(adapter, plugged)
<1>1. Awake /\ host # "down" /\ adapter.scan.probing \in Compatible /\ Timer(a)
  BY DEF StrangerAnswers, Awake
<1>2. adapter.scan.probing # None
  BY <1>1, CandidatesAssumption, NoneIsNoDevice DEF Devices
<1>3. Fit(a, Fed) /\ Quiet(adapter, a)
  BY <1>1, <1>2, Running, AnsweredFits
<1> HIDE DEF a
<1> QED
  BY <1>1, <1>3, TimerKeeps

LEMMA ProbeTimeoutKeeps ==
  ASSUME LinkInv, ProbeTimesOut
  PROVE  LinkInv'
<1> DEFINE a == Unanswered(adapter, plugged)
<1>1. host # "down" /\ adapter.scan.probing # None /\ HostStep(a, up, due) /\ host' = host
  BY DEF ProbeTimesOut, Awake
<1>2. Fit(a, Fed) /\ Quiet(adapter, a)
  BY <1>1, Running, UnansweredFits
<1> HIDE DEF a
<1> QED
  BY <1>1, <1>2, Running, QuietTimerKeeps

LEMMA PendingIsActive ==
  ASSUME LinkInv, adapter.pending # {} \/ adapter.done # {}
  PROVE  adapter.active
BY DEF LinkInv, Linked, Fit, Cleared

LEMMA AckTimeoutKeeps ==
  ASSUME LinkInv, AckTimesOut
  PROVE  LinkInv'
<1>1. PICK p \in adapter.pending :
        Awake /\ HostStep(RetryOrFail(adapter, p), up, due) /\ UNCHANGED host
  BY DEF AckTimesOut
<1> DEFINE a == RetryOrFail(adapter, p)
<1>2. host # "down" /\ host' = host /\ adapter.active
  BY <1>1, PendingIsActive DEF Awake
<1>3. Fit(a, Fed) /\ Quiet(adapter, a)
  BY <1>2, Running, RetryOrFailFits
<1>4. HostStep(a, up, due)
  BY <1>1
<1> HIDE DEF a
<1> QED
  BY <1>2, <1>3, <1>4, Running, QuietTimerKeeps

LEMMA RetryKeeps ==
  ASSUME LinkInv, RetryElapses
  PROVE  LinkInv'
<1>1. PICK p \in adapter.pending : Awake /\ p.wait = "retry" /\ Timer(TransmitPending(adapter, p))
  BY DEF RetryElapses
<1>2. adapter.active /\ host # "down"
  BY <1>1, PendingIsActive DEF Awake
<1>3. Waiting(p, Fed)
  BY <1>1 DEF LinkInv, Linked, Fit, Common, Framed, Adapters, Waiting
<1>4. Fit(TransmitPending(adapter, p), Fed) /\ Quiet(adapter, TransmitPending(adapter, p))
  BY <1>2, <1>3, Running, TransmitPendingFits
<1> QED
  BY <1>1, <1>4, TimerKeeps

LEMMA TombstoneKeeps ==
  ASSUME LinkInv, TombstoneExpires
  PROVE  LinkInv'
<1>1. PICK d \in adapter.done : Awake /\ Timer([adapter EXCEPT !.done = @ \ {d}])
  BY DEF TombstoneExpires
<1> DEFINE a == [adapter EXCEPT !.done = @ \ {d}]
<1>2. adapter.active /\ host # "down" /\ Timer(a)
  BY <1>1, PendingIsActive DEF Awake
<1>3. Fit(a, Fed) /\ Quiet(adapter, a)
  BY <1>2, Running, TombstoneFits
<1> HIDE DEF a
<1> QED
  BY <1>1, <1>2, <1>3, TimerKeeps

LEMMA HidErrorKeeps ==
  ASSUME LinkInv, HidError
  PROVE  LinkInv'
<1>1. Awake /\ host # "down" /\ adapter.active /\ Timer(Disconnect(adapter))
  BY DEF HidError, Awake
<1>2. Fit(Disconnect(adapter), Fed) /\ Quiet(adapter, Disconnect(adapter))
  BY <1>1, Running, DisconnectFits
<1> QED
  BY <1>1, <1>2, TimerKeeps

LEMMA ReceiveKeeps ==
  ASSUME LinkInv, HostReceives
  PROVE  LinkInv'
<1> DEFINE report == Head(up)
           rest   == Tail(up)
<1>1. /\ up # <<>> /\ host # "down" /\ host' = host
      /\ host' \in {"product", "doctor"} /\ due \in BOOLEAN
      /\ Fit(adapter, Fed) /\ up \in Seq(Reports) /\ journal \in Seq(Events) /\ clock \in Nat
      /\ Recorded(adapter, up, late, journal, clock) /\ Accounted(adapter, up, finger, missed)
      /\ Board \in adapter.handles /\ ~adapter.gone /\ adapter.emitted = <<>>
  BY DEF HostReceives, Awake, LinkInv, TypeOK, Linked
<1>2. rest \in Seq(Reports) /\ report \in Reports /\ up[1] = report
  BY <1>1, TailElements
<1>3. Recorded(adapter, rest, late, journal, clock)
  BY <1>1, TailRecorded
<1>4. ASSUME ~adapter.active \/ ReleasedBy(report) = {}
      PROVE  Accounted(adapter, rest, finger, missed)
  BY <1>1, <1>2, <1>4, TailAccounted DEF Accounted
<1>5. CASE adapter.active /\ HostStep(Receive(adapter, report), rest, due)
  <2>1. CASE report.type = "CONTROL_EVENT"
    <3> DEFINE b == ReceiveControl(adapter, report)
    <3>1. report \in Events
      BY <1>2, <2>1 DEF Reports
    <3>2. Fit(b, Fed) /\ b.handles = adapter.handles /\ b.gone = adapter.gone
      BY <1>1, <1>5, <3>1, ReceiveControlFits
    <3>3. Recorded(b, rest, late, journal \o b.emitted, clock)
      BY <1>1, <1>5, <3>1, ReceivedRecorded
    <3>4. Accounted(b, rest, finger, missed)
      BY <1>1, <1>5, <3>1, ReceivedAccounted
    <3>5. HostStep(b, rest, due)
      BY <1>5, <2>1 DEF Receive
    <3> HIDE DEF b, rest
    <3>6. Kept(b, rest) = rest /\ Left(b, late) = late
      BY <1>1, <3>2 DEF Kept, Left
    <3> QED
      BY <1>1, <1>2, <3>2, <3>3, <3>4, <3>5, <3>6, HostStepKeeps
  <2>2. CASE report.type # "CONTROL_EVENT"
    <3> DEFINE b == Receive(adapter, report)
    <3>1. Fit(b, Fed) /\ Quiet(adapter, b)
      BY <1>1, <1>2, <1>5, <2>2, ReceiveFits
    <3>2. Accounted(adapter, rest, finger, missed)
      BY <1>4, <2>2 DEF ReleasedBy
    <3>3. HostStep(b, rest, due)
      BY <1>5
    <3> HIDE DEF b, rest
    <3> QED
      BY <1>1, <1>2, <1>3, <3>1, <3>2, <3>3, QuietStepKeeps
  <2> QED
    BY <2>1, <2>2
<1>6. CASE adapter.scan.probing = Board /\ HostStep(Answered(adapter, plugged), rest, due)
  <2> DEFINE b == Answered(adapter, plugged)
  <2>1. adapter.scan.probing # None /\ ~adapter.active
    BY <1>1, <1>6, NoneIsNoDevice DEF Devices, Fit, NoScan
  <2>2. Fit(b, Fed) /\ Quiet(adapter, b)
    BY <1>1, <2>1, AnsweredFits
  <2>3. Accounted(adapter, rest, finger, missed)
    BY <1>4, <2>1
  <2>4. HostStep(b, rest, due)
    BY <1>6
  <2> HIDE DEF b, rest
  <2> QED
    BY <1>1, <1>2, <1>3, <2>2, <2>3, <2>4, QuietStepKeeps
<1>7. CASE ~adapter.active /\ HostStep(adapter, rest, due)
  <2>1. Quiet(adapter, adapter)
    BY <1>1, <1>7 DEF Quiet, Fit, Cleared
  <2>2. Accounted(adapter, rest, finger, missed)
    BY <1>4, <1>7
  <2> HIDE DEF rest
  <2> QED
    BY <1>1, <1>2, <1>3, <1>7, <2>1, <2>2, QuietStepKeeps
<1> QED
  BY <1>5, <1>6, <1>7 DEF HostReceives

\* A new adapter, whatever was in the pipes of an earlier one.
LEMMA NewAdapterKeeps ==
  ASSUME NEW u, NEW l, NEW a, NEW j, NEW n, Recorded(a, u, l, j, n), NEW f, NEW m
  PROVE  /\ Fit(NewAdapter, Fed) /\ NewAdapter \in Adapters
         /\ NewAdapter.out = <<>> /\ NewAdapter.emitted = <<>>
         /\ Recorded(NewAdapter, <<>>, {}, j, n) /\ Accounted(NewAdapter, <<>>, f, m)
<1>1. /\ ~NewAdapter.active /\ NewAdapter.recent = {} /\ NewAdapter.pressed = {}
      /\ NewAdapter.out = <<>> /\ NewAdapter.emitted = <<>> /\ DOMAIN <<>> = {}
  BY DEF NewAdapter
<1>2. Fit(NewAdapter, Fed)
  <2> DEFINE b == [NewAdapter EXCEPT !.last = None]
  <2>1. Fit(b, Fed)
    BY FedFrames, NewAdapterFits
  <2>2. /\ NewAdapter.last = None /\ b.last = None
        /\ \A x \in DOMAIN NewAdapter : x # "last" => b[x] = NewAdapter[x]
    BY DEF NewAdapter
  <2>3. b = NewAdapter
    BY <2>2 DEF NewAdapter
  <2> QED
    BY <2>1, <2>3
<1>3. Recorded(NewAdapter, <<>>, {}, j, n)
  BY <1>1 DEF Recorded, Numbered, Coming
<1>4. Accounted(NewAdapter, <<>>, f, m)
  BY <1>1 DEF Accounted
<1> QED
  BY <1>1, <1>2, <1>3, <1>4 DEF Fit, Common

LEMMA EndKeeps ==
  ASSUME LinkInv, HostEnds
  PROVE  LinkInv'
<1>1. /\ host' = "down" /\ adapter' = NewAdapter /\ due' = FALSE /\ up' = <<>>
      /\ late' = {} /\ missed' = {} /\ UNCHANGED <<boardVars, status, asleep, down, journal>>
  BY DEF HostEnds
<1>2. /\ Fit(adapter', Fed) /\ adapter' \in Adapters /\ adapter'.out = <<>> /\ adapter'.emitted = <<>>
      /\ Recorded(adapter', up', late', journal, clock) /\ Accounted(adapter', up', finger, missed')
  BY <1>1, NewAdapterKeeps DEF LinkInv
<1>3. <<>> \in Seq(Reports)
  OBVIOUS
<1>4. TypeOK'
  BY <1>1, <1>2, <1>3 DEF LinkInv, TypeOK, boardVars
<1>5. Linked'
  BY <1>1, <1>2 DEF LinkInv, Linked, boardVars, OnBoard
<1>6. Recorded(adapter, up, late, journal, clock)' /\ Accounted(adapter, up, finger, missed)'
  BY <1>1, <1>2 DEF boardVars
<1>7. HeldAreDown(board, finger)'
  BY <1>1 DEF LinkInv, HeldAreDown, boardVars
<1> QED
  BY <1>4, <1>5, <1>6, <1>7 DEF LinkInv

\* Steps that change nothing the invariant relates.
LEMMA AsideKeeps ==
  ASSUME LinkInv, UNCHANGED <<host, adapter, down, up, late, board, finger, clock, journal, missed>>,
         status' \in Statuses, due' \in BOOLEAN, asleep' \in BOOLEAN, plugged' \in BOOLEAN,
         keymap' \in [Keys -> Keycodes \cup {None}], layer' \in BOOLEAN
  PROVE  LinkInv'
<1>1. TypeOK'
  BY DEF LinkInv, TypeOK
<1>2. Linked'
  BY DEF LinkInv, Linked, OnBoard
<1>3. Recorded(adapter, up, late, journal, clock)' /\ Accounted(adapter, up, finger, missed)'
      /\ HeldAreDown(board, finger)'
  BY DEF LinkInv, HeldAreDown
<1> QED
  BY <1>1, <1>2, <1>3 DEF LinkInv

-----------------------------------------------------------------------------
(***************************************************************************)
(* Steps of the keyboard.                                                  *)
(***************************************************************************)
\* What the keyboard may send, with the fingers and the counter after it.
Sendable(sent, f, n, n2) ==
  \/ sent = <<>>
  \/ \E e \in Reports :
       /\ sent = <<e>>
       /\ e \in Events => /\ e.id = n2 /\ n < n2
                          /\ e.phase = "press" => \E k \in Keys : f[k] = e.control

\* A control the host believes in keeps an excuse when the finger under it moves.
Covered(sent, f, f2, m2, believed) ==
  \A k \in Keys :
    f[k] \in believed =>
      \/ \E l \in Keys : f2[l] = f[k]
      \/ f[k] \in m2
      \/ \E e \in Reports : sent = <<e>> /\ f[k] \in ReleasedBy(e)

\* What may come up the pipe: a press that has an excuse.
Bearable(sent, f, m) ==
  \/ sent = <<>>
  \/ \E e \in Reports :
       /\ sent = <<e>>
       /\ e \in Events /\ e.phase = "press" => e.control \in m \/ \E k \in Keys : f[k] = e.control

\* A release that is not a copy gives the control under a finger its excuse.
Replaced(a, u, sent, f, f2, m2) ==
  \A k \in Keys :
    f[k] \in Believed(a, u) =>
      \/ \E l \in Keys : f2[l] = f[k]
      \/ f[k] \in m2
      \/ \E e \in Reports :
           sent = <<e>> /\ f[k] \in ReleasedBy(e) /\ e \notin a.recent /\ \A i \in DOMAIN u : u[i] # e

LEMMA SentAccounted ==
  ASSUME NEW a, NEW u \in Seq(Reports), NEW f, NEW m, Accounted(a, u, f, m),
         NEW sent, NEW f2, NEW m2, Bearable(sent, f2, m2),
         m \subseteq m2, Replaced(a, u, sent, f, f2, m2)
  PROVE  Accounted(a, u \o sent, f2, m2)
<1> DEFINE v == u \o sent
<1>1. Len(u) \in Nat /\ DOMAIN u = 1 .. Len(u)
  BY LenProperties
<1>2. /\ v \in Seq(Reports) /\ DOMAIN u \subseteq DOMAIN v
      /\ \A i \in DOMAIN u : v[i] = u[i]
      /\ \A i \in DOMAIN v : i \in DOMAIN u \/ i = Len(u) + 1
      /\ \A e \in Reports : sent = <<e>> => Len(u) + 1 \in DOMAIN v /\ v[Len(u) + 1] = e
      /\ sent = <<>> => DOMAIN v = DOMAIN u
  <2>1. CASE sent = <<>>
    <3>1. v = u
      BY <2>1, ConcatEmptySeq
    <3>2. \A e \in Reports : sent # <<e>>
      BY <2>1
    <3> HIDE DEF v
    <3> QED
      BY <2>1, <3>1, <3>2
  <2>2. ASSUME NEW e \in Reports, sent = <<e>>
        PROVE  /\ v \in Seq(Reports) /\ DOMAIN v = 1 .. Len(u) + 1
               /\ \A i \in 1 .. Len(u) : v[i] = u[i]
               /\ v[Len(u) + 1] = e
    BY <2>2, SentElements
  <2>3. ASSUME NEW e \in Reports, sent = <<e>>
        PROVE  <1>2!:
    <3>1. \A x \in Reports : sent = <<x>> => x = e
      BY <2>3
    <3>2. sent # <<>>
      BY <2>3
    <3> HIDE DEF v
    <3> QED
      BY <1>1, <2>2, <2>3, <3>1, <3>2
  <2> HIDE DEF v
  <2> QED
    BY <2>1, <2>3 DEF Bearable
<1> HIDE DEF v
<1>3. ASSUME NEW i \in 0 .. Len(u), NEW e, e \notin a.recent,
             \A l \in DOMAIN u : l =< i => u[l] # e
      PROVE  Fresh(a.recent, v, i, e)
  <2>1. \A l \in DOMAIN v : l =< i => l \in DOMAIN u /\ v[l] = u[l]
    BY <1>1, <1>2
  <2> QED
    BY <1>3, <2>1 DEF Fresh
<1>4. ASSUME NEW c \in Believed(a, u), NEW i \in 0 .. Len(u), Excused(a.recent, f, m, u, c, i)
      PROVE  Excused(a.recent, f2, m2, v, c, i)
  <2>1. CASE c \in m
    BY <2>1 DEF Excused
  <2>2. ASSUME NEW k \in DOMAIN u, k > i, c \in ReleasedBy(u[k]), Fresh(a.recent, u, i, u[k])
        PROVE  Excused(a.recent, f2, m2, v, c, i)
    <3>1. Fresh(a.recent, v, i, v[k])
      BY <1>2, <1>3, <2>2 DEF Fresh
    <3> QED
      BY <1>2, <2>2, <3>1 DEF Excused
  <2>3. ASSUME NEW k \in Keys, f[k] = c
        PROVE  Excused(a.recent, f2, m2, v, c, i)
    <3>1. \/ \E l \in Keys : f2[l] = c
          \/ c \in m2
          \/ \E e \in Reports :
               sent = <<e>> /\ c \in ReleasedBy(e) /\ e \notin a.recent /\ \A x \in DOMAIN u : u[x] # e
      BY <2>3 DEF Replaced
    <3>2. ASSUME NEW e \in Reports, sent = <<e>>, c \in ReleasedBy(e), e \notin a.recent,
                 \A x \in DOMAIN u : u[x] # e
          PROVE  Excused(a.recent, f2, m2, v, c, i)
      <4>1. Len(u) + 1 \in DOMAIN v /\ v[Len(u) + 1] = e /\ Len(u) + 1 > i
        BY <1>1, <1>2, <3>2
      <4>2. Fresh(a.recent, v, i, e)
        BY <1>3, <3>2
      <4> QED
        BY <3>2, <4>1, <4>2 DEF Excused
    <3> QED
      BY <3>1, <3>2 DEF Excused
  <2> QED
    BY <1>4, <2>1, <2>2, <2>3 DEF Excused
<1>5. ASSUME a.active, ~a.gone, NEW c \in a.pressed
      PROVE  Excused(a.recent, f2, m2, v, c, 0)
  <2>1. c \in Believed(a, u) /\ Excused(a.recent, f, m, u, c, 0)
    BY <1>5 DEF Believed, Accounted
  <2> QED
    BY <1>1, <1>4, <2>1
<1>6. ASSUME NEW i \in DOMAIN v, v[i] \in Events, v[i].phase = "press"
      PROVE  Excused(a.recent, f2, m2, v, v[i].control, i)
  <2>1. CASE i \in DOMAIN u
    <3>1. v[i] = u[i] /\ i \in 0 .. Len(u)
      BY <1>1, <1>2, <2>1
    <3>2. v[i].control \in Believed(a, u) /\ Excused(a.recent, f, m, u, v[i].control, i)
      BY <1>6, <2>1, <3>1, PressBelieved DEF Accounted
    <3> QED
      BY <1>4, <3>1, <3>2
  <2>2. CASE i \notin DOMAIN u
    <3>1. sent # <<>> /\ i = Len(u) + 1
      BY <1>2, <2>2
    <3>2. PICK e \in Reports :
            /\ sent = <<e>>
            /\ e \in Events /\ e.phase = "press" =>
                 e.control \in m2 \/ \E k \in Keys : f2[k] = e.control
      BY <3>1 DEF Bearable
    <3>3. v[i] = e
      BY <1>2, <3>1, <3>2
    <3> QED
      BY <1>6, <3>2, <3>3 DEF Excused
  <2> QED
    BY <2>1, <2>2
<1>7. a.active /\ a.gone => a.pressed \subseteq m2
  BY DEF Accounted
<1> QED
  BY <1>5, <1>6, <1>7 DEF Accounted, v

LEMMA KeyboardKeeps ==
  ASSUME LinkInv, NEW sent, Sends(sent), UNCHANGED <<hostVars, plugged, keymap, layer, late, journal>>,
         down' \in Seq(Packets),
         \A i \in DOMAIN down' : down'[i].type = "TASK_STATES" => down'[i].body \in Bodies(Fed),
         board' \in Boards, board'.feedback => OnBoard(board') \in Bodies(Fed),
         finger' \in [Keys -> {Up, ControlNone} \cup ControlCodes], HeldAreDown(board', finger'),
         missed \subseteq missed', missed' \subseteq ControlCodes,
         clock' \in Nat, clock =< clock', Sendable(sent, finger', clock, clock'),
         Covered(sent, finger, finger', missed', Believed(adapter, up))
  PROVE  LinkInv'
<1>1. /\ adapter \in Adapters /\ Fit(adapter, Fed) /\ up \in Seq(Reports)
      /\ journal \in Seq(Events) /\ clock \in Nat
      /\ Recorded(adapter, up, late, journal, clock) /\ Accounted(adapter, up, finger, missed)
  BY DEF LinkInv, TypeOK, Linked
<1>2. /\ status' = status /\ due' = due /\ host' = host /\ adapter' = adapter
      /\ asleep' = asleep /\ plugged' = plugged /\ keymap' = keymap /\ layer' = layer
      /\ journal' = journal /\ late' = late
  BY DEF hostVars
<1>3. Recorded(adapter, up \o sent, late, journal, clock') /\ Recorded(adapter, up, late, journal, clock')
      /\ up \o sent \in Seq(Reports)
  <2>1. CASE sent = <<>>
    <3>1. up \o sent = up
      BY <1>1, <2>1, ConcatEmptySeq
    <3>2. PICK e \in Reports : e \notin Events
      <4>1. [type |-> "MALFORMED"] \in Reports /\ [type |-> "MALFORMED"] \notin Events
        BY DEF Reports, Events
      <4> QED
        BY <4>1
    <3>3. Recorded(adapter, up, late, journal, clock')
      BY <1>1, <3>2, SentRecorded
    <3> QED
      BY <1>1, <3>1, <3>3
  <2>2. ASSUME NEW e \in Reports, sent = <<e>>, e \in Events => e.id = clock' /\ clock < clock'
        PROVE  /\ Recorded(adapter, up \o <<e>>, late, journal, clock')
               /\ Recorded(adapter, up, late, journal, clock')
               /\ up \o <<e>> \in Seq(Reports)
    BY <1>1, <2>2, SentRecorded, SentElements
  <2> QED
    BY <2>1, <2>2 DEF Sendable
<1>4. Accounted(adapter, up \o sent, finger', missed')
  <2>1. ASSUME NEW e \in Reports, sent = <<e>>, e \in Events
        PROVE  e \notin adapter.recent /\ \A i \in DOMAIN up : up[i] # e
    <3>1. e.id > clock
      <4>1. \A x \in Reports : sent = <<x>> => x = e
        BY <2>1
      <4> QED
        BY <1>1, <2>1, <4>1 DEF Sendable
    <3>2. \A x \in Events : x \in adapter.recent \/ (\E i \in DOMAIN up : up[i] = x) => x.id =< clock
      BY <1>1 DEF Recorded, Numbered, Coming
    <3>3. ~(e.id =< clock)
      BY <1>1, <2>1, <3>1 DEF Events
    <3> QED
      BY <2>1, <3>2, <3>3
  <2>2. Replaced(adapter, up, sent, finger, finger', missed')
    <3>1. \A e \in Reports, c \in ControlCodes \cup {Up, ControlNone} :
            c \in ReleasedBy(e) => e \in Events
      BY DEF ReleasedBy, Reports
    <3>2. \A k \in Keys : finger[k] \in {Up, ControlNone} \cup ControlCodes
      BY DEF LinkInv, TypeOK
    <3> QED
      BY <2>1, <3>1, <3>2 DEF Covered, Replaced
  <2>3. Bearable(sent, finger', missed')
    BY DEF Sendable, Bearable
  <2> QED
    BY <1>1, <2>2, <2>3, SentAccounted
<1>5. CASE Board \in adapter.handles /\ ~adapter.gone
  <2>1. up' = up \o sent
    BY <1>5 DEF Sends
  <2>2. TypeOK'
    BY <1>2, <1>3, <2>1 DEF LinkInv, TypeOK
  <2>3. Linked'
    BY <1>2, <1>5, <2>1 DEF LinkInv, Linked, OnBoard
  <2> QED
    BY <1>2, <1>3, <1>4, <2>1, <2>2, <2>3 DEF LinkInv
<1>6. CASE ~(Board \in adapter.handles /\ ~adapter.gone)
  <2>1. up' = up /\ up = <<>> /\ late = {} /\ DOMAIN <<>> = {}
    BY <1>6 DEF Sends, LinkInv, Linked
  <2>2. TypeOK'
    BY <1>2, <2>1 DEF LinkInv, TypeOK
  <2>3. Linked'
    BY <1>2, <2>1 DEF LinkInv, Linked, OnBoard
  <2>4. adapter.active => adapter.gone
    BY <1>1, <1>6 DEF Fit, Common, Opened
  <2>5. Accounted(adapter, up, finger', missed')
    BY <1>1, <2>1, <2>4 DEF Accounted
  <2> QED
    BY <1>2, <1>3, <2>1, <2>2, <2>3, <2>5 DEF LinkInv
<1> QED
  BY <1>5, <1>6

\* One report of the host: the answer is no control report, the held table is
\* left alone, and what is installed is what a frame was encoded to.
LEMMA ViaCommandType ==
  ASSUME NEW b \in Boards, NEW p \in Packets,
         p.type = "TASK_STATES" => p.body \in Bodies(Fed),
         b.feedback => OnBoard(b) \in Bodies(Fed), NEW r, r = ViaCommand(b, p)
  PROVE  /\ r.board \in Boards /\ r.board.held = b.held
         /\ r.board.feedback => OnBoard(r.board) \in Bodies(Fed)
         /\ \E e \in Reports : r.sent = <<e>> /\ e \notin Events
<1>1. p.type \in {"HELLO", "TASK_STATES", "PING"} /\ p.seq \in Seqs /\ p.garbled \in BOOLEAN
      /\ p.body \in TaskStates \cup {None}
  BY DEF Packets
<1>2. Error(p) \in Reports /\ Error(p) \notin Events
  BY <1>1 DEF Error, Reports, Events
<1>3. p.type # "HELLO" => Ack(p) \in Reports /\ Ack(p) \notin Events
  BY <1>1 DEF Ack, Reports, Events
<1>4. LET e == [type |-> "HELLO_ACK", seq |-> p.seq] IN e \in Reports /\ e \notin Events
  BY <1>1 DEF Reports, Events
<1>5. InputSeen(b) \in Boards /\ InputSeen(b).held = b.held /\ OnBoard(InputSeen(b)) = OnBoard(b)
      /\ InputSeen(b).feedback = b.feedback
  BY DEF InputSeen, Boards, OnBoard
<1>6. ASSUME p.type = "TASK_STATES"
      PROVE  LET i == InstallTaskStates(b, p.body)
             IN i \in Boards /\ i.held = b.held /\ OnBoard(i) = p.body
  <2>1. p.body \in TaskStates /\ p.body.unread \subseteq 0 .. AgentCount - 1
    BY <1>6, BodyKept
  <2>2. p.body.unread \cap (0 .. AgentCount - 1) = p.body.unread
    BY <2>1
  <2> QED
    BY <2>1, <2>2 DEF InstallTaskStates, InputSeen, Boards, TaskStates, OnBoard
<1>7. CASE p.garbled
  <2>1. r = [board |-> b, sent |-> <<Error(p)>>]
    BY <1>7 DEF ViaCommand
  <2> QED
    BY <1>2, <2>1
<1>8. CASE p.type = "HELLO" /\ ~p.garbled
  <2>1. r = [board |-> InputSeen(b), sent |-> <<[type |-> "HELLO_ACK", seq |-> p.seq]>>]
    BY <1>8 DEF ViaCommand
  <2> QED
    BY <1>4, <1>5, <2>1
<1>9. CASE p.type = "TASK_STATES" /\ ~p.garbled
  <2>1. r = IF ValidTaskStates(p.body)
            THEN [board |-> InstallTaskStates(b, p.body), sent |-> <<Ack(p)>>]
            ELSE [board |-> b, sent |-> <<Error(p)>>]
    BY <1>9 DEF ViaCommand
  <2> QED
    BY <1>2, <1>3, <1>6, <1>9, <2>1
<1>10. CASE p.type = "PING" /\ ~p.garbled
  <2>1. r = [board |-> InputSeen(b), sent |-> <<Ack(p)>>]
    BY <1>10 DEF ViaCommand
  <2> QED
    BY <1>3, <1>5, <1>10, <2>1
<1> QED
  BY <1>1, <1>7, <1>8, <1>9, <1>10

LEMMA BoardReceivesKeeps ==
  ASSUME LinkInv, BoardReceives
  PROVE  LinkInv'
<1> DEFINE r == ViaCommand(board, Head(down))
<1>1. /\ down # <<>> /\ board' = r.board /\ Sends(r.sent) /\ down' = Tail(down)
      /\ UNCHANGED <<hostVars, plugged, keymap, finger, layer, clock, late, budget, journal, missed>>
  BY DEF BoardReceives
<1>2. /\ down \in Seq(Packets) /\ board \in Boards /\ clock \in Nat /\ missed \subseteq ControlCodes
      /\ finger \in [Keys -> {Up, ControlNone} \cup ControlCodes]
      /\ \A i \in DOMAIN down : down[i].type = "TASK_STATES" => down[i].body \in Bodies(Fed)
      /\ board.feedback => OnBoard(board) \in Bodies(Fed)
  BY DEF LinkInv, TypeOK, Linked
<1>3. /\ Head(down) \in Packets /\ 1 \in DOMAIN down /\ Head(down) = down[1]
      /\ Tail(down) \in Seq(Packets)
      /\ \A i \in DOMAIN Tail(down) : Tail(down)[i] = down[i + 1] /\ i + 1 \in DOMAIN down
  BY <1>1, <1>2, TailElements
<1>4. /\ r.board \in Boards /\ r.board.held = board.held
      /\ r.board.feedback => OnBoard(r.board) \in Bodies(Fed)
      /\ \E e \in Reports : r.sent = <<e>> /\ e \notin Events
  BY <1>2, <1>3, ViaCommandType
<1> HIDE DEF r
<1>5. Sendable(r.sent, finger', clock, clock')
  BY <1>4 DEF Sendable
<1>6. Covered(r.sent, finger, finger', missed', Believed(adapter, up))
  BY <1>1 DEF Covered
<1>7. HeldAreDown(board', finger')
  BY <1>1, <1>4 DEF LinkInv, HeldAreDown
<1>8. \A i \in DOMAIN down' : down'[i].type = "TASK_STATES" => down'[i].body \in Bodies(Fed)
  BY <1>1, <1>2, <1>3
<1> QED
  BY <1>1, <1>2, <1>3, <1>4, <1>5, <1>6, <1>7, <1>8, KeyboardKeeps

LEMMA TimeoutsKeep ==
  ASSUME LinkInv, InputTimesOut \/ FeedbackTimesOut
  PROVE  LinkInv'
<1>1. /\ board' = InputTimedOut(board) \/ board' = FeedbackTimedOut(board)
      /\ UNCHANGED <<hostVars, plugged, keymap, finger, layer, clock, down, up, late, journal, missed>>
  BY DEF InputTimesOut, FeedbackTimesOut
<1>2. /\ down \in Seq(Packets) /\ board \in Boards /\ clock \in Nat /\ missed \subseteq ControlCodes
      /\ finger \in [Keys -> {Up, ControlNone} \cup ControlCodes]
      /\ \A i \in DOMAIN down : down[i].type = "TASK_STATES" => down[i].body \in Bodies(Fed)
      /\ board.feedback => OnBoard(board) \in Bodies(Fed)
      /\ up \in Seq(Reports)
  BY DEF LinkInv, TypeOK, Linked
<1>3. /\ board' \in Boards /\ board'.held = board.held
      /\ board'.feedback => OnBoard(board') \in Bodies(Fed)
  <2>1. CASE board' = InputTimedOut(board)
    BY <1>2, <2>1 DEF InputTimedOut, Boards, OnBoard
  <2>2. CASE board' = FeedbackTimedOut(board)
    <3>1. [i \in DOMAIN board.states |-> 0] \in [0 .. AgentCount - 1 -> 0 .. 5]
      BY <1>2 DEF Boards
    <3> DEFINE dark == [i \in DOMAIN board.states |-> 0]
    <3>2. board' = [board EXCEPT !.feedback = FALSE, !.selected = SelectedNone,
                                 !.unread = {}, !.states = dark]
      BY <1>2, <2>2 DEF FeedbackTimedOut, Boards
    <3> HIDE DEF dark
    <3>3. SelectedNone \in 0 .. 255 /\ dark \in [0 .. AgentCount - 1 -> 0 .. 5]
      BY <3>1 DEF SelectedNone, dark
    <3> QED
      BY <1>2, <3>2, <3>3 DEF Boards
  <2> QED
    BY <1>1, <2>1, <2>2
<1>4. Sends(<<>>)
  BY <1>1, <1>2, ConcatEmptySeq DEF Sends
<1>5. Sendable(<<>>, finger', clock, clock')
  BY DEF Sendable
<1>6. Covered(<<>>, finger, finger', missed', Believed(adapter, up))
  BY <1>1 DEF Covered
<1>7. HeldAreDown(board', finger')
  BY <1>1, <1>3 DEF LinkInv, HeldAreDown
<1> QED
  BY <1>1, <1>2, <1>3, <1>4, <1>5, <1>6, <1>7, KeyboardKeeps

\* A key record, by what it does to the held table and what it sends.
LetGo(b, k, pressed, id, r) ==
  \E h \in HeldOf(b, k) :
    /\ ~pressed /\ r.board = [b EXCEPT !.held = @ \ {h}]
    /\ r.sent = ControlEvent(b, h.control, "release", id)

Unheard(b, k, pressed, r) == (pressed \/ HeldOf(b, k) = {}) /\ r.board = b /\ r.sent = <<>>

Again(b, k, pressed, id, r) ==
  /\ pressed /\ HeldOf(b, k) # {} /\ r.board = b
  /\ \E c \in ControlCodes : r.sent = ControlEvent(b, c, "repeat", id)

Struck(b, k, pressed, on, c, id, r) ==
  /\ pressed /\ on /\ HeldOf(b, k) = {} /\ c \in ControlCodes
  /\ r.board = Remember(b, k, c) /\ r.sent = ControlEvent(b, c, "press", id)

LetGoUnheld(b, k, pressed, id, r) ==
  /\ ~pressed /\ HeldOf(b, k) = {} /\ r.board = b
  /\ \E c \in ControlCodes : r.sent = ControlEvent(b, c, "release", id)

LEMMA RecordCases ==
  ASSUME NEW b \in Boards, NEW k \in Keys, NEW pressed \in BOOLEAN, NEW on \in BOOLEAN,
         NEW code \in Keycodes \cup {None}, NEW id \in Nat,
         NEW r, r = ProcessRecord(b, k, pressed, on, code, id)
  PROVE  \/ LetGo(b, k, pressed, id, r) \/ Unheard(b, k, pressed, r)
         \/ Again(b, k, pressed, id, r)
         \/ Struck(b, k, pressed, on, ControlForKeycode(code), id, r)
         \/ LetGoUnheld(b, k, pressed, id, r)
<1> DEFINE control == ControlForKeycode(code)
<1>1. control # ControlNone => control \in ControlCodes
  BY ControlType
<1> HIDE DEF control
<1>2. CASE ~pressed /\ HeldOf(b, k) # {}
  <2> DEFINE h == CHOOSE h \in HeldOf(b, k) : TRUE
  <2>1. h \in HeldOf(b, k)
    BY <1>2
  <2>2. r = ReleasedHeld(b, h, id)
    BY <1>2 DEF ProcessRecord
  <2> HIDE DEF h
  <2>3. r.board = [b EXCEPT !.held = @ \ {h}] /\ r.sent = ControlEvent(b, h.control, "release", id)
    BY <2>2 DEF ReleasedHeld
  <2> QED
    BY <1>2, <2>1, <2>3 DEF LetGo
<1>3. CASE (pressed \/ HeldOf(b, k) = {}) /\ (control = ControlNone \/ ~on)
  <2>1. r = [board |-> b, sent |-> <<>>]
    BY <1>3 DEF ProcessRecord, control
  <2> QED
    BY <1>3, <2>1 DEF Unheard
<1>4. CASE pressed /\ control # ControlNone /\ on
  <2>1. r = Pressed(b, k, control, id)
    BY <1>4 DEF ProcessRecord, control
  <2>2. CASE HeldOf(b, k) # {}
    <3>1. r.board = b /\ r.sent = ControlEvent(b, control, "repeat", id)
      BY <2>1, <2>2 DEF Pressed
    <3> QED
      BY <1>1, <1>4, <2>2, <3>1 DEF Again
  <2>3. CASE HeldOf(b, k) = {}
    <3>1. r.board = Remember(b, k, control) /\ r.sent = ControlEvent(b, control, "press", id)
      BY <2>1, <2>3 DEF Pressed
    <3> QED
      BY <1>1, <1>4, <2>3, <3>1 DEF Struck, control
  <2> QED
    BY <2>2, <2>3
<1>5. CASE ~pressed /\ HeldOf(b, k) = {} /\ control # ControlNone /\ on
  <2>1. r = [board |-> b, sent |-> ControlEvent(b, control, "release", id)]
    BY <1>5 DEF ProcessRecord, control
  <2>2. r.board = b /\ r.sent = ControlEvent(b, control, "release", id)
    BY <2>1
  <2>3. control \in ControlCodes
    BY <1>1, <1>5
  <2>4. LetGoUnheld(b, k, pressed, id, r)
    BY <1>5, <2>2, <2>3 DEF LetGoUnheld
  <2> QED
    BY <2>4
<1> QED
  BY <1>2, <1>3, <1>4, <1>5

LEMMA ControlEventType ==
  ASSUME NEW b \in Boards, NEW c \in ControlCodes,
         NEW phase \in {"press", "release", "repeat"}, NEW id \in Nat
  PROVE  \/ ControlEvent(b, c, phase, id) = <<>> /\ ~b.input
         \/ /\ b.input
            /\ \E e \in Events : /\ ControlEvent(b, c, phase, id) = <<e>>
                                 /\ e.control = c /\ e.phase = phase /\ e.id = id
                                 /\ e.type = "CONTROL_EVENT"
<1> DEFINE e == [type |-> "CONTROL_EVENT", control |-> c, phase |-> phase, id |-> id]
<1>1. e \in Events /\ e.control = c /\ e.phase = phase /\ e.id = id /\ e.type = "CONTROL_EVENT"
  BY DEF Events
<1>2. CASE b.input
  <2>1. ControlEvent(b, c, phase, id) = <<e>>
    BY <1>2 DEF ControlEvent
  <2> QED
    BY <1>1, <1>2, <2>1
<1>3. CASE ~b.input
  BY <1>3 DEF ControlEvent
<1> QED
  BY <1>2, <1>3

LEMMA KeyRecordKeeps ==
  ASSUME LinkInv, NEW k \in Keys, NEW pressed \in BOOLEAN, KeyRecord(k, pressed)
  PROVE  LinkInv'
<1> DEFINE code    == keymap[k]
           control == ControlForKeycode(code)
           r       == ProcessRecord(board, k, pressed, layer, code, clock + 1)
           moved   == IF ~pressed THEN Up ELSE IF HeldOf(board, k) # {} THEN finger[k]
                      ELSE IF layer THEN control ELSE ControlNone
           lost    == ({finger[k]} \ {finger'[k]}) \cap Believed(adapter, up)
<1>1. /\ board' = r.board /\ Sends(r.sent) /\ clock' = clock + Len(r.sent)
      /\ finger' = [finger EXCEPT ![k] = moved]
      /\ missed' = IF MayMiss(k) THEN missed \cup lost ELSE missed
      /\ UNCHANGED <<hostVars, plugged, keymap, layer, down, late, journal>>
  BY DEF KeyRecord, LinkInv, TypeOK
<1>2. /\ board \in Boards /\ clock \in Nat /\ missed \subseteq ControlCodes /\ layer \in BOOLEAN
      /\ down \in Seq(Packets) /\ up \in Seq(Reports) /\ adapter \in Adapters
      /\ finger \in [Keys -> {Up, ControlNone} \cup ControlCodes]
      /\ \A i \in DOMAIN down : down[i].type = "TASK_STATES" => down[i].body \in Bodies(Fed)
      /\ board.feedback => OnBoard(board) \in Bodies(Fed)
      /\ HeldAreDown(board, finger) /\ code \in Keycodes \cup {None}
  BY DEF LinkInv, TypeOK, Linked
<1>3. moved \in {Up, ControlNone} \cup ControlCodes
  BY <1>2, ControlType
<1>4. /\ finger' \in [Keys -> {Up, ControlNone} \cup ControlCodes] /\ finger'[k] = moved
      /\ \A l \in Keys : l # k => finger'[l] = finger[l]
  <2> HIDE DEF moved
  <2> QED
    BY <1>1, <1>2, <1>3
<1>5. missed \subseteq missed' /\ missed' \subseteq ControlCodes
  <2>1. lost \subseteq ControlCodes
    BY <1>2, BelievedType
  <2> QED
    BY <1>1, <1>2, <2>1
<1>6. ASSUME NEW h \in HeldOf(board, k)
      PROVE  h \in board.held /\ h.key = k /\ h.control = finger[k] /\ h.control \in ControlCodes
  BY <1>2 DEF HeldOf, HeldAreDown, Boards
<1>7. ASSUME MayMiss(k) \/ finger'[k] = finger[k]
      PROVE  Covered(r.sent, finger, finger', missed', Believed(adapter, up))
  BY <1>1, <1>4, <1>7 DEF Covered
<1>8. ASSUME NEW c \in ControlCodes, NEW phase \in {"press", "release", "repeat"},
             r.sent = ControlEvent(board, c, phase, clock + 1),
             phase = "press" => finger'[k] = c
      PROVE  /\ Sendable(r.sent, finger', clock, clock')
             /\ clock' \in Nat /\ clock =< clock'
             /\ board.input /\ phase = "release" =>
                  \E e \in Reports : r.sent = <<e>> /\ c \in ReleasedBy(e)
  <2> HIDE DEF r
  <2>1. clock + 1 \in Nat
    BY <1>2
  <2>2. CASE r.sent = <<>> /\ ~board.input
    <3>1. clock' = clock
      BY <1>1, <1>2, <2>2
    <3> QED
      BY <1>2, <2>2, <3>1 DEF Sendable
  <2>3. ASSUME NEW e \in Events, r.sent = <<e>>, e.control = c, e.phase = phase,
               e.id = clock + 1, e.type = "CONTROL_EVENT"
        PROVE  /\ Sendable(r.sent, finger', clock, clock')
               /\ clock' \in Nat /\ clock =< clock'
               /\ board.input /\ phase = "release" =>
                    \E x \in Reports : r.sent = <<x>> /\ c \in ReleasedBy(x)
    <3>1. Len(r.sent) = 1 /\ e \in Reports
      BY <2>3, SingleElements DEF Reports
    <3>2. clock' = clock + 1
      BY <1>1, <3>1
    <3>3. Sendable(r.sent, finger', clock, clock')
      BY <1>2, <1>8, <2>3, <3>1, <3>2 DEF Sendable
    <3>4. phase = "release" => c \in ReleasedBy(e)
      BY <2>3 DEF ReleasedBy
    <3> QED
      BY <1>2, <2>3, <3>1, <3>2, <3>3, <3>4
  <2> QED
    BY <1>2, <1>8, <2>1, <2>2, <2>3, ControlEventType
<1>9. ASSUME r.sent = <<>>
      PROVE  Sendable(r.sent, finger', clock, clock') /\ clock' \in Nat /\ clock =< clock'
  <2> HIDE DEF r
  <2>1. clock' = clock
    BY <1>1, <1>2, <1>9
  <2> QED
    BY <1>2, <1>9, <2>1 DEF Sendable
<1>10. ASSUME HeldOf(board, k) = {} \/ finger'[k] = finger[k]
       PROVE  HeldAreDown(board, finger')
  BY <1>2, <1>4, <1>10 DEF HeldAreDown, HeldOf, Boards
<1>11. ASSUME board' \in Boards, board'.feedback = board.feedback,
              OnBoard(board') = OnBoard(board), HeldAreDown(board', finger'),
              Sendable(r.sent, finger', clock, clock'), clock' \in Nat, clock =< clock',
              Covered(r.sent, finger, finger', missed', Believed(adapter, up))
       PROVE  LinkInv'
  <2> HIDE DEF r
  <2>1. down' = down
    BY <1>1
  <2> QED
    BY <1>1, <1>2, <1>4, <1>5, <1>11, <2>1, KeyboardKeeps
<1>12. ASSUME NEW h \in HeldOf(board, k), ~pressed, r.board = [board EXCEPT !.held = @ \ {h}],
              r.sent = ControlEvent(board, h.control, "release", clock + 1)
       PROVE  LinkInv'
  <2>1. /\ board' \in Boards /\ board'.feedback = board.feedback
        /\ OnBoard(board') = OnBoard(board) /\ board'.held = board.held \ {h}
    <3> HIDE DEF r
    <3> QED
      BY <1>1, <1>2, <1>12 DEF Boards, OnBoard
  <2>2. HeldAreDown(board', finger')
    <3>1. ASSUME NEW g \in board'.held
          PROVE  finger'[g.key] = g.control
      <4>1. g \in board.held /\ g # h /\ g.key \in Keys /\ finger[g.key] = g.control
        BY <1>2, <2>1 DEF Boards, HeldAreDown
      <4>2. g.key # k
        BY <1>2, <1>6, <4>1 DEF Boards
      <4> QED
        BY <1>4, <4>1, <4>2
    <3> QED
      BY <3>1 DEF HeldAreDown
  <2>3. /\ Sendable(r.sent, finger', clock, clock') /\ clock' \in Nat /\ clock =< clock'
        /\ board.input => \E e \in Reports : r.sent = <<e>> /\ h.control \in ReleasedBy(e)
    BY <1>6, <1>8, <1>12
  <2>4. Covered(r.sent, finger, finger', missed', Believed(adapter, up))
    <3>1. CASE board.input
      BY <1>4, <1>6, <2>3, <3>1 DEF Covered
    <3>2. CASE ~board.input
      BY <1>7, <3>2 DEF MayMiss
    <3> QED
      BY <3>1, <3>2
  <2> QED
    BY <1>11, <2>1, <2>2, <2>3, <2>4
<1>13. CASE (pressed \/ HeldOf(board, k) = {}) /\ r.board = board /\ r.sent = <<>>
  <2>1. HeldOf(board, k) = {} \/ finger'[k] = finger[k]
    BY <1>4, <1>13
  <2>2. Covered(r.sent, finger, finger', missed', Believed(adapter, up))
    BY <1>7, <2>1 DEF MayMiss
  <2>3. board' = board
    BY <1>1, <1>13
  <2>4. HeldAreDown(board', finger')
    BY <1>10, <2>1, <2>3
  <2> HIDE DEF r
  <2> QED
    BY <1>2, <1>9, <1>11, <1>13, <2>2, <2>3, <2>4
<1>14. ASSUME pressed, HeldOf(board, k) # {}, r.board = board, NEW c \in ControlCodes,
              r.sent = ControlEvent(board, c, "repeat", clock + 1)
       PROVE  LinkInv'
  <2>1. finger'[k] = finger[k]
    BY <1>4, <1>14
  <2>2. Covered(r.sent, finger, finger', missed', Believed(adapter, up))
    BY <1>7, <2>1
  <2>3. board' = board
    BY <1>1, <1>14
  <2>4. HeldAreDown(board', finger')
    BY <1>10, <2>1, <2>3
  <2>5. Sendable(r.sent, finger', clock, clock') /\ clock' \in Nat /\ clock =< clock'
    BY <1>8, <1>14
  <2> HIDE DEF r
  <2> QED
    BY <1>2, <1>11, <2>2, <2>3, <2>4, <2>5
<1>15. ASSUME pressed, layer, HeldOf(board, k) = {}, control \in ControlCodes,
              r.board = Remember(board, k, control),
              r.sent = ControlEvent(board, control, "press", clock + 1)
       PROVE  LinkInv'
  <2>1. finger'[k] = control
    BY <1>4, <1>15
  <2>2. Covered(r.sent, finger, finger', missed', Believed(adapter, up))
    BY <1>7, <1>15 DEF MayMiss
  <2>3. Sendable(r.sent, finger', clock, clock') /\ clock' \in Nat /\ clock =< clock'
    BY <1>8, <1>15, <2>1
  <2>4. HeldAreDown(board, finger')
    BY <1>10, <1>15
  <2>5. board' = Remember(board, k, control)
    BY <1>1, <1>15
  <2> HIDE DEF r, control
  <2>6. /\ board' \in Boards /\ board'.feedback = board.feedback
        /\ OnBoard(board') = OnBoard(board)
        /\ board'.held \subseteq board.held \cup {[key |-> k, control |-> control]}
    <3>1. [key |-> k, control |-> control] \in [key : Keys, control : ControlCodes]
      BY <1>15
    <3> DEFINE it == [key |-> k, control |-> control]
    <3>2. board' = board \/ board' = [board EXCEPT !.held = @ \cup {it}]
      BY <2>5 DEF Remember
    <3>3. it \in [key : Keys, control : ControlCodes]
      BY <3>1
    <3> HIDE DEF it
    <3>4. /\ board' \in Boards /\ board'.feedback = board.feedback
          /\ OnBoard(board') = OnBoard(board) /\ board'.held \subseteq board.held \cup {it}
      BY <1>2, <3>2, <3>3 DEF Boards, OnBoard
    <3> QED
      BY <3>4 DEF it
  <2>7. HeldAreDown(board', finger')
    BY <2>1, <2>4, <2>6 DEF HeldAreDown
  <2> QED
    BY <1>11, <2>2, <2>3, <2>6, <2>7
<1>16. ASSUME ~pressed, HeldOf(board, k) = {}, r.board = board, NEW c \in ControlCodes,
              r.sent = ControlEvent(board, c, "release", clock + 1)
       PROVE  LinkInv'
  <2>1. Covered(r.sent, finger, finger', missed', Believed(adapter, up))
    BY <1>7, <1>16 DEF MayMiss
  <2>2. board' = board
    BY <1>1, <1>16
  <2>3. HeldAreDown(board', finger')
    BY <1>10, <1>16, <2>2
  <2>4. Sendable(r.sent, finger', clock, clock') /\ clock' \in Nat /\ clock =< clock'
    BY <1>8, <1>16
  <2> HIDE DEF r
  <2> QED
    BY <1>2, <1>11, <2>1, <2>2, <2>3, <2>4
<1>17. \/ LetGo(board, k, pressed, clock + 1, r) \/ Unheard(board, k, pressed, r)
       \/ Again(board, k, pressed, clock + 1, r)
       \/ Struck(board, k, pressed, layer, control, clock + 1, r)
       \/ LetGoUnheld(board, k, pressed, clock + 1, r)
  <2>1. clock + 1 \in Nat
    BY <1>2
  <2> QED
    BY <1>2, <2>1, RecordCases
<1> HIDE DEF r, control
<1> QED
  BY <1>12, <1>13, <1>14, <1>15, <1>16, <1>17
     DEF LetGo, Unheard, Again, Struck, LetGoUnheld

-----------------------------------------------------------------------------
(***************************************************************************)
(* Steps of the environment.                                               *)
(***************************************************************************)
\* The pipe to the host changes, and what was missed with it.
LEMMA PipeKeeps ==
  ASSUME LinkInv, UNCHANGED <<status, due, host, adapter, boardVars, journal>>,
         down' \in Seq(Packets),
         \A i \in DOMAIN down' : down'[i].type = "TASK_STATES" => down'[i].body \in Bodies(Fed),
         up' \in Seq(Reports), late' \subseteq Reports,
         up' # <<>> \/ late' # {} => up # <<>> \/ late # {}, asleep' \in BOOLEAN,
         missed' \subseteq ControlCodes, Recorded(adapter, up', late', journal, clock),
         Accounted(adapter, up', finger, missed')
  PROVE  LinkInv'
<1>1. TypeOK'
  BY DEF LinkInv, TypeOK, boardVars
<1>2. Linked'
  BY DEF LinkInv, Linked, OnBoard, boardVars
<1> QED
  BY <1>1, <1>2 DEF LinkInv, HeldAreDown, boardVars

LEMMA ReleasedByType ==
  ASSUME NEW report \in Reports
  PROVE  ReleasedBy(report) \subseteq ControlCodes
BY DEF ReleasedBy, Reports, Events

LEMMA LoseUpKeeps ==
  ASSUME LinkInv, LoseUp
  PROVE  LinkInv'
<1>1. /\ up # <<>> /\ up' = Tail(up) /\ UNCHANGED <<asleep, down, late>>
      /\ missed' = missed \cup ReleasedBy(Head(up)) /\ Environment
  BY DEF LoseUp
<1>2. /\ up \in Seq(Reports) /\ down \in Seq(Packets) /\ missed \subseteq ControlCodes
      /\ asleep \in BOOLEAN /\ late \subseteq Reports
      /\ \A i \in DOMAIN down : down[i].type = "TASK_STATES" => down[i].body \in Bodies(Fed)
      /\ Recorded(adapter, up, late, journal, clock) /\ Accounted(adapter, up, finger, missed)
  BY DEF LinkInv, TypeOK, Linked
<1>3. Tail(up) \in Seq(Reports) /\ Head(up) \in Reports /\ Head(up) = up[1]
  BY <1>1, <1>2, TailElements
<1>4. Recorded(adapter, up', late', journal, clock)
  BY <1>1, <1>2, TailRecorded
<1>5. Accounted(adapter, up', finger, missed')
  BY <1>1, <1>2, <1>3, TailAccounted DEF Accounted
<1> QED
  BY <1>1, <1>2, <1>3, <1>4, <1>5, ReleasedByType, PipeKeeps DEF Environment

LEMMA GarbleUpKeeps ==
  ASSUME LinkInv, GarbleUp
  PROVE  LinkInv'
<1>1. /\ up # <<>> /\ up' = <<[type |-> "MALFORMED"]>> \o Tail(up) /\ UNCHANGED <<asleep, down, late>>
      /\ missed' = missed \cup ReleasedBy(Head(up)) /\ Environment
  BY DEF GarbleUp
<1>2. /\ up \in Seq(Reports) /\ down \in Seq(Packets) /\ missed \subseteq ControlCodes
      /\ asleep \in BOOLEAN /\ late \subseteq Reports
      /\ \A i \in DOMAIN down : down[i].type = "TASK_STATES" => down[i].body \in Bodies(Fed)
      /\ Recorded(adapter, up, late, journal, clock) /\ Accounted(adapter, up, finger, missed)
  BY DEF LinkInv, TypeOK, Linked
<1>3. Tail(up) \in Seq(Reports) /\ Head(up) \in Reports
  BY <1>1, <1>2, TailElements
<1>4. up' \in Seq(Reports)
  <2>1. [type |-> "MALFORMED"] \in Reports
    BY DEF Reports
  <2> QED
    BY <1>1, <1>3, <2>1, PrefixedElements
<1>5. Recorded(adapter, up', late', journal, clock)
  BY <1>1, <1>2, GarbledRecorded
<1>6. Accounted(adapter, up', finger, missed')
  BY <1>1, <1>2, GarbledAccounted
<1> QED
  BY <1>1, <1>2, <1>3, <1>4, <1>5, <1>6, ReleasedByType, PipeKeeps DEF Environment

LEMMA RepeatUpKeeps ==
  ASSUME LinkInv, RepeatUp
  PROVE  LinkInv'
<1>1. /\ up # <<>> /\ late' = late \cup {Head(up)} /\ UNCHANGED <<asleep, down, up, missed>>
      /\ Environment
  BY DEF RepeatUp
<1>2. /\ up \in Seq(Reports) /\ down \in Seq(Packets) /\ missed \subseteq ControlCodes
      /\ asleep \in BOOLEAN /\ late \subseteq Reports
      /\ \A i \in DOMAIN down : down[i].type = "TASK_STATES" => down[i].body \in Bodies(Fed)
      /\ Recorded(adapter, up, late, journal, clock) /\ Accounted(adapter, up, finger, missed)
  BY DEF LinkInv, TypeOK, Linked
<1>3. 1 \in DOMAIN up /\ Head(up) = up[1] /\ Head(up) \in Reports
  BY <1>1, <1>2, TailElements
<1>4. \A e \in Events : Coming(up, late', e) => Coming(up, late, e)
  BY <1>1, <1>3 DEF Coming
<1>5. Recorded(adapter, up, late', journal, clock)
  BY <1>2, <1>4, FewerRecorded
<1> QED
  BY <1>1, <1>2, <1>3, <1>5, PipeKeeps DEF Environment

\* A copy that comes late; the press of a control that nobody holds counts as
\* one whose release was missed.
LEMMA CopyArrivesKeeps ==
  ASSUME LinkInv, CopyArrives
  PROVE  LinkInv'
<1>1. PICK report \in late :
        /\ late' = late \ {report} /\ up' = up \o <<report>>
        /\ missed' = missed \cup (PressedBy(report) \ Range(finger))
        /\ UNCHANGED <<asleep, down>> /\ Environment
  BY DEF CopyArrives
<1>2. /\ up \in Seq(Reports) /\ down \in Seq(Packets) /\ missed \subseteq ControlCodes
      /\ asleep \in BOOLEAN /\ late \subseteq Reports
      /\ finger \in [Keys -> {Up, ControlNone} \cup ControlCodes]
      /\ \A i \in DOMAIN down : down[i].type = "TASK_STATES" => down[i].body \in Bodies(Fed)
      /\ Recorded(adapter, up, late, journal, clock) /\ Accounted(adapter, up, finger, missed)
  BY DEF LinkInv, TypeOK, Linked
<1>3. /\ report \in Reports /\ up \o <<report>> \in Seq(Reports)
      /\ DOMAIN (up \o <<report>>) = 1 .. Len(up) + 1 /\ DOMAIN up = 1 .. Len(up) /\ Len(up) \in Nat
      /\ \A i \in 1 .. Len(up) : (up \o <<report>>)[i] = up[i]
      /\ (up \o <<report>>)[Len(up) + 1] = report
  BY <1>2, SentElements
<1>4. PressedBy(report) \subseteq ControlCodes
  BY <1>3 DEF PressedBy, Reports, Events
<1>5. Recorded(adapter, up', late', journal, clock)
  <2>1. \A i \in DOMAIN up' : (i \in DOMAIN up /\ up'[i] = up[i]) \/ up'[i] = report
    BY <1>1, <1>3
  <2>2. \A e \in Events : Coming(up', late', e) => Coming(up, late, e)
    BY <1>1, <2>1 DEF Coming
  <2> QED
    BY <1>2, <2>2, FewerRecorded
<1>6. Accounted(adapter, up', finger, missed')
  <2>1. \A k \in Keys : finger[k] \in Range(finger)
    BY <1>2 DEF Range
  <2>2. \A c \in Range(finger) : \E k \in Keys : finger[k] = c
    BY <1>2 DEF Range
  <2>3. ASSUME report \in Events, report.phase = "press"
        PROVE  report.control \in missed' \/ \E k \in Keys : finger[k] = report.control
    <3>1. report.control \in PressedBy(report)
      BY <2>3 DEF PressedBy, Events
    <3> QED
      BY <1>1, <2>2, <3>1
  <2>4. Bearable(<<report>>, finger, missed')
    BY <1>3, <2>3 DEF Bearable
  <2>5. Replaced(adapter, up, <<report>>, finger, finger, missed')
    BY DEF Replaced
  <2> QED
    BY <1>1, <1>2, <2>4, <2>5, SentAccounted
<1> QED
  BY <1>1, <1>2, <1>3, <1>4, <1>5, <1>6, PipeKeeps DEF Environment

LEMMA DownKeeps ==
  ASSUME LinkInv, LoseDown \/ GarbleDown
  PROVE  LinkInv'
<1>1. /\ down # <<>>
      /\ \/ down' = Tail(down)
         \/ down' = <<[Head(down) EXCEPT !.garbled = TRUE]>> \o Tail(down)
      /\ UNCHANGED <<asleep, up, late, missed>> /\ Environment
  BY DEF LoseDown, GarbleDown
<1>2. /\ up \in Seq(Reports) /\ down \in Seq(Packets) /\ missed \subseteq ControlCodes
      /\ asleep \in BOOLEAN /\ late \subseteq Reports
      /\ \A i \in DOMAIN down : down[i].type = "TASK_STATES" => down[i].body \in Bodies(Fed)
      /\ Recorded(adapter, up, late, journal, clock) /\ Accounted(adapter, up, finger, missed)
  BY DEF LinkInv, TypeOK, Linked
<1>3. /\ Len(down) \in Nat \ {0} /\ DOMAIN down = 1 .. Len(down) /\ Head(down) = down[1]
      /\ Head(down) \in Packets
      /\ Tail(down) \in Seq(Packets) /\ DOMAIN Tail(down) = 1 .. Len(down) - 1
      /\ \A i \in DOMAIN Tail(down) : Tail(down)[i] = down[i + 1]
  BY <1>1, <1>2, TailElements
<1>4. \A i \in DOMAIN Tail(down) :
        Tail(down)[i].type = "TASK_STATES" => Tail(down)[i].body \in Bodies(Fed)
  BY <1>2, <1>3
<1>5. CASE down' = Tail(down)
  BY <1>1, <1>2, <1>3, <1>4, <1>5, PipeKeeps DEF Environment
<1>6. CASE down' = <<[Head(down) EXCEPT !.garbled = TRUE]>> \o Tail(down)
  <2> DEFINE p == [Head(down) EXCEPT !.garbled = TRUE]
  <2>1. p \in Packets /\ p.type = Head(down).type /\ p.body = Head(down).body
    BY <1>3 DEF Packets
  <2> HIDE DEF p
  <2>2. Len(Tail(down)) = Len(down) - 1
    BY <1>3, LenProperties
  <2>3. /\ down' \in Seq(Packets) /\ DOMAIN down' = 1 .. Len(Tail(down)) + 1
        /\ down'[1] = p
        /\ \A i \in 2 .. Len(Tail(down)) + 1 : down'[i] = Tail(down)[i - 1]
    BY <1>3, <1>6, <2>1, PrefixedElements DEF p
  <2>4. ASSUME NEW i \in DOMAIN down', down'[i].type = "TASK_STATES"
        PROVE  down'[i].body \in Bodies(Fed)
    <3>1. CASE i = 1
      BY <1>2, <1>3, <2>1, <2>3, <2>4, <3>1
    <3>2. CASE i # 1
      <4>1. i \in 2 .. Len(Tail(down)) + 1 /\ i - 1 \in DOMAIN Tail(down)
        BY <1>3, <2>2, <2>3, <3>2
      <4> QED
        BY <1>4, <2>3, <2>4, <4>1
    <3> QED
      BY <3>1, <3>2
  <2> QED
    BY <1>1, <1>2, <2>3, <2>4, PipeKeeps DEF Environment
<1> QED
  BY <1>1, <1>5, <1>6

LEMMA UnplugKeeps ==
  ASSUME LinkInv, Unplug
  PROVE  LinkInv'
<1>1. /\ plugged' = FALSE /\ down' = <<>> /\ up' = <<>> /\ late' = {}
      /\ board' = BootedBoard /\ finger' = [k \in Keys |-> Up]
      /\ adapter' = [adapter EXCEPT !.gone = Board \in adapter.handles]
      /\ missed' = adapter.pressed
      /\ UNCHANGED <<status, due, host, asleep, keymap, layer, clock, journal>>
  BY DEF Unplug
<1>2. /\ adapter \in Adapters /\ Fit(adapter, Fed) /\ adapter.out = <<>> /\ adapter.emitted = <<>>
      /\ Recorded(adapter, up, late, journal, clock)
      /\ host = "down" => adapter = NewAdapter
  BY DEF LinkInv, TypeOK, Linked
<1>3. /\ adapter' \in Adapters /\ adapter'.gone = (Board \in adapter.handles)
      /\ adapter'.out = <<>> /\ adapter'.emitted = <<>>
      /\ adapter'.poll = adapter.poll /\ adapter'.scan = adapter.scan
      /\ adapter'.active = adapter.active /\ adapter'.handles = adapter.handles
      /\ adapter'.pending = adapter.pending /\ adapter'.done = adapter.done
      /\ adapter'.last = adapter.last /\ adapter'.displayed = adapter.displayed
      /\ adapter'.pressed = adapter.pressed /\ adapter'.recent = adapter.recent
  <2> DEFINE unplugged == Board \in adapter.handles
  <2>1. unplugged \in BOOLEAN /\ adapter' = [adapter EXCEPT !.gone = unplugged]
    BY <1>1
  <2> HIDE DEF unplugged
  <2>2. /\ adapter' \in Adapters /\ adapter'.gone = unplugged
        /\ adapter'.out = adapter.out /\ adapter'.emitted = adapter.emitted
        /\ adapter'.poll = adapter.poll /\ adapter'.scan = adapter.scan
        /\ adapter'.active = adapter.active /\ adapter'.handles = adapter.handles
        /\ adapter'.pending = adapter.pending /\ adapter'.done = adapter.done
        /\ adapter'.last = adapter.last /\ adapter'.displayed = adapter.displayed
        /\ adapter'.pressed = adapter.pressed /\ adapter'.recent = adapter.recent
    BY <1>2, <2>1 DEF Adapters
  <2> QED
    BY <1>2, <2>2 DEF unplugged
<1>4. Fit(adapter', Fed)
  BY <1>2, <1>3 DEF Fit, Common, Framed, Opened, Cleared
<1>5. <<>> \in Seq(Packets) /\ <<>> \in Seq(Reports) /\ DOMAIN <<>> = {}
  OBVIOUS
<1>6. BootedBoard \in Boards /\ BootedBoard.held = {} /\ ~BootedBoard.feedback
  BY DEF BootedBoard, Boards, SelectedNone
<1>7. TypeOK'
  BY <1>1, <1>3, <1>5, <1>6 DEF LinkInv, TypeOK, Adapters
<1>8. host = "down" => adapter' = NewAdapter
  <2>1. ASSUME host = "down"
        PROVE  [adapter EXCEPT !.gone = Board \in adapter.handles] = adapter
    <3>1. adapter.handles = {} /\ ~adapter.gone
      BY <1>2, <2>1 DEF NewAdapter
    <3>2. (Board \in adapter.handles) = adapter.gone
      BY <1>2, <3>1 DEF Adapters
    <3> QED
      BY <1>2, <3>2 DEF Adapters
  <2> QED
    BY <1>1, <1>2, <2>1
<1>9. Linked'
  BY <1>1, <1>3, <1>4, <1>5, <1>6, <1>8 DEF Linked
<1>10. Recorded(adapter', <<>>, {}, journal, clock)
  <2>1. Recorded(adapter, <<>>, {}, journal, clock)
    BY <1>2, EmptyRecorded
  <2> QED
    BY <1>3, <2>1 DEF Recorded, Numbered, Settled, Spent
<1>11. Accounted(adapter', <<>>, finger', missed')
  <2>1. adapter'.active => adapter'.gone
    BY <1>3, <1>4 DEF Fit, Common, Opened
  <2> QED
    BY <1>1, <1>3, <1>5, <2>1 DEF Accounted
<1>12. HeldAreDown(board', finger')
  BY <1>1, <1>6 DEF HeldAreDown
<1> QED
  BY <1>1, <1>7, <1>9, <1>10, <1>11, <1>12 DEF LinkInv

-----------------------------------------------------------------------------
LEMMA InitHolds ==
  ASSUME Init
  PROVE  LinkInv
<1>1. /\ Fit(NewAdapter, Fed) /\ NewAdapter \in Adapters
      /\ NewAdapter.out = <<>> /\ NewAdapter.emitted = <<>>
      /\ ~NewAdapter.active /\ NewAdapter.recent = {} /\ NewAdapter.pressed = {}
  <2>1. /\ ~NewAdapter.active /\ NewAdapter.recent = {} /\ NewAdapter.pressed = {}
        /\ DOMAIN <<>> = {}
    BY DEF NewAdapter
  <2>2. Recorded(NewAdapter, <<>>, {}, <<>>, 0)
    BY <2>1 DEF Recorded, Numbered, Coming
  <2> QED
    BY <2>1, <2>2, NewAdapterKeeps
<1>2. <<>> \in Seq(Packets) /\ <<>> \in Seq(Reports) /\ <<>> \in Seq(Events) /\ DOMAIN <<>> = {}
  OBVIOUS
<1>3. BootedBoard \in Boards /\ BootedBoard.held = {} /\ ~BootedBoard.feedback
  BY DEF BootedBoard, Boards, SelectedNone
<1>4. TypeOK
  BY <1>1, <1>2, <1>3, StatusesAssumption, KeymapAssumption DEF Init, TypeOK
<1>5. Linked
  BY <1>1, <1>2, <1>3 DEF Init, Linked
<1>6. Recorded(adapter, up, late, journal, clock)
  BY <1>1, <1>2 DEF Init, Recorded, Numbered, Coming
<1>7. Accounted(adapter, up, finger, missed) /\ HeldAreDown(board, finger)
  BY <1>1, <1>2, <1>3 DEF Init, Accounted, HeldAreDown
<1> QED
  BY <1>4, <1>5, <1>6, <1>7 DEF LinkInv

\* Status changes, layers, the keymap, sleep, and the cable going back in.
LEMMA AsideStepsKeep ==
  ASSUME LinkInv,
         \/ StatusChanges \/ SwitchLayer \/ \E k \in Keys : ViaRemaps(k)
         \/ Plug \/ Sleep \/ Wake \/ UNCHANGED vars
  PROVE  LinkInv'
<1>1. TypeOK
  BY DEF LinkInv
<1>2. CASE StatusChanges
  <2>1. due' \in BOOLEAN /\ status' \in Statuses
    BY <1>2 DEF StatusChanges
  <2> QED
    BY <1>1, <1>2, <2>1, AsideKeeps DEF StatusChanges, boardVars, TypeOK
<1>3. CASE SwitchLayer
  BY <1>1, <1>3, AsideKeeps DEF SwitchLayer, hostVars, TypeOK
<1>4. CASE \E k \in Keys : ViaRemaps(k)
  <2>1. PICK k \in Keys, code \in Keycodes : keymap' = [keymap EXCEPT ![k] = code]
    BY <1>4 DEF ViaRemaps
  <2>2. keymap' \in [Keys -> Keycodes \cup {None}]
    BY <1>1, <2>1 DEF TypeOK
  <2> QED
    BY <1>1, <1>4, <2>2, AsideKeeps DEF ViaRemaps, hostVars, TypeOK
<1>5. CASE Plug
  BY <1>1, <1>5, AsideKeeps DEF Plug, hostVars, TypeOK
<1>6. CASE Sleep
  BY <1>1, <1>6, AsideKeeps DEF Sleep, Environment, boardVars, TypeOK
<1>7. CASE Wake
  BY <1>1, <1>7, AsideKeeps DEF Wake, Environment, boardVars, TypeOK
<1>8. CASE UNCHANGED vars
  BY <1>1, <1>8, AsideKeeps DEF vars, hostVars, boardVars, TypeOK
<1> QED
  BY <1>2, <1>3, <1>4, <1>5, <1>6, <1>7, <1>8

LEMMA NextHolds ==
  ASSUME LinkInv, [Next]_vars
  PROVE  LinkInv'
<1>1. CASE Host
  <2>1. CASE \E role \in {"product", "doctor"} : HostStarts(role)
    BY <2>1, StartKeeps
  <2>2. CASE HostEnds \/ StopAdapter \/ StatusChanges \/ Publish
    BY <2>2, EndKeeps, StopKeeps, AsideStepsKeep, PublishKeeps
  <2>3. CASE HeartbeatElapses \/ ErrorTimerElapses \/ PollElapses \/ HostReceives \/ StrangerAnswers
    BY <2>3, HeartbeatKeeps, ErrorTimerKeeps, PollKeeps, ReceiveKeeps, StrangerKeeps
  <2>4. CASE ProbeTimesOut \/ AckTimesOut \/ RetryElapses \/ TombstoneExpires \/ HidError
    BY <2>4, ProbeTimeoutKeeps, AckTimeoutKeeps, RetryKeeps, TombstoneKeeps, HidErrorKeeps
  <2> QED
    BY <1>1, <2>1, <2>2, <2>3, <2>4 DEF Host
<1>2. CASE Keyboard
  <2>1. CASE BoardReceives
    BY <2>1, BoardReceivesKeeps
  <2>2. CASE InputTimesOut \/ FeedbackTimesOut
    BY <2>2, TimeoutsKeep
  <2>3. CASE SwitchLayer
    BY <2>3, AsideStepsKeep
  <2>4. ASSUME NEW k \in Keys, KeyDown(k) \/ KeyAgain(k) \/ KeyUp(k) \/ ViaRemaps(k)
        PROVE  LinkInv'
    <3>1. CASE KeyDown(k) \/ KeyAgain(k)
      BY <3>1, KeyRecordKeeps DEF KeyDown, KeyAgain
    <3>2. CASE KeyUp(k)
      BY <3>2, KeyRecordKeeps DEF KeyUp
    <3>3. CASE ViaRemaps(k)
      BY <3>3, AsideStepsKeep
    <3> QED
      BY <2>4, <3>1, <3>2, <3>3
  <2> QED
    BY <1>2, <2>1, <2>2, <2>3, <2>4 DEF Keyboard
<1>3. CASE Faults
  <2>1. CASE Unplug \/ Plug
    BY <2>1, UnplugKeeps, AsideStepsKeep
  <2>2. CASE LoseDown \/ GarbleDown
    BY <2>2, DownKeeps
  <2>3. CASE LoseUp \/ GarbleUp \/ RepeatUp \/ CopyArrives
    BY <2>3, LoseUpKeeps, GarbleUpKeeps, RepeatUpKeeps, CopyArrivesKeeps
  <2>4. CASE Sleep \/ Wake
    BY <2>4, AsideStepsKeep
  <2> QED
    BY <1>3, <2>1, <2>2, <2>3, <2>4 DEF Faults
<1>4. CASE UNCHANGED vars
  BY <1>4, AsideStepsKeep
<1> QED
  BY <1>1, <1>2, <1>3, <1>4 DEF Next

\* Whatever the keyboard, the host and the environment do in whatever order,
\* the link keeps its invariant.
THEOREM LinkKeepsInvariant == Spec => []LinkInv
<1>1. Init => LinkInv
  BY InitHolds
<1>2. LinkInv /\ [Next]_vars => LinkInv'
  BY NextHolds
<1> QED
  BY <1>1, <1>2, PTL DEF Spec

\* Every field of the adapter and the keyboard, and every report in a pipe,
\* keeps its type, for any number of agents, keys and sequence numbers.
THEOREM LinkTyped == Spec => []TypeOK
<1>1. LinkInv => TypeOK
  BY DEF LinkInv
<1> QED
  BY <1>1, LinkKeepsInvariant, PTL

\* The host acts on a report again only when its control has changed sides
\* since, however reports are lost or damaged, however late copies of them come
\* and however connections follow each other (receive of the adapter).
THEOREM ReplaysDropped == Spec => []ReplaysDroppedUntilAnEdge
<1>1. LinkInv => ReplaysDroppedUntilAnEdge
  BY DEF LinkInv, Recorded, Turned, ReplaysDroppedUntilAnEdge
<1> QED
  BY <1>1, LinkKeepsInvariant, PTL

\* A control the host takes for pressed is under a finger, or its release is on
\* its way or was missed for a reason the model names: neither a layer switch
\* nor a VIA remap between press and release leaves it stuck, whatever the
\* keymap and the size of the held table.
THEOREM StuckExplained == Spec => []StuckOnlyByMissedRelease
<1>1. ASSUME LinkInv
      PROVE  StuckOnlyByMissedRelease
  <2>1. ASSUME adapter.active, NEW c \in adapter.pressed
        PROVE  \/ \E k \in Keys : finger[k] = c
               \/ \E r \in Range(up) : c \in ReleasedBy(r)
               \/ c \in missed
    <3>1. CASE adapter.gone
      BY <1>1, <2>1, <3>1 DEF LinkInv, Accounted
    <3>2. CASE ~adapter.gone
      <4>1. Excused(adapter.recent, finger, missed, up, c, 0)
        BY <1>1, <2>1, <3>2 DEF LinkInv, Accounted
      <4> QED
        BY <4>1 DEF Excused, Range
    <3> QED
      BY <3>1, <3>2
  <2> QED
    BY <2>1 DEF StuckOnlyByMissedRelease
<1>2. LinkInv => StuckOnlyByMissedRelease
  BY <1>1
<1> QED
  BY <1>2, LinkKeepsInvariant, PTL

\* The overlay of the keyboard shows a frame the host composed, for any set of
\* statuses the registry can be in.
THEOREM OverlayComposed == Spec => []OverlayIsAFrame
<1>1. ASSUME LinkInv, board.feedback
      PROVE  \E s \in Statuses : \E frame \in {FeedbackFrame(s), ErrorFrame(FeedbackFrame(s))} :
               OnBoard(board) = EncodeTaskStates(frame)
  <2>1. PICK f \in Shown(Fed) : OnBoard(board) = EncodeTaskStates(f)
    BY <1>1 DEF LinkInv, Linked, Bodies
  <2>2. \E s \in Statuses : f = FeedbackFrame(s) \/ f = ErrorFrame(FeedbackFrame(s))
    BY DEF Shown, Fed
  <2> QED
    BY <2>1, <2>2
<1>2. LinkInv => OverlayIsAFrame
  BY <1>1 DEF OverlayIsAFrame, OnBoard
<1> QED
  BY <1>2, LinkKeepsInvariant, PTL

\* A HID handle is open only for the active keyboard, the candidate being
\* probed, or one that answered in the scan still running.
THEOREM HandlesExplained == Spec => []HandlesAccounted
<1>1. LinkInv => HandlesAccounted
  BY DEF LinkInv, Linked, Fit, Common, Opened, HandlesAccounted
<1> QED
  BY <1>1, LinkKeepsInvariant, PTL

-----------------------------------------------------------------------------
(***************************************************************************)
(* Sequences.                                                              *)
(***************************************************************************)
LEMMA LengthUpTo ==
  ASSUME NEW S, NEW p \in Seq(S), NEW n \in Nat, Len(p) =< n
  PROVE  Len(p) \in 0 .. n
<1>1. Len(p) \in Nat
  BY LenProperties, Zenon
<1>2. \A x \in Nat : x =< n => x \in 0 .. n
  OBVIOUS
<1> QED
  BY <1>1, <1>2, Zenon

LEMMA Slice ==
  ASSUME NEW S, NEW r, NEW k \in Nat, NEW n \in Nat, \A i \in 1 .. n : r[k + i] \in S
  PROVE  /\ SubSeq(r, k + 1, k + n) \in Seq(S) /\ Len(SubSeq(r, k + 1, k + n)) = n
         /\ \A i \in 1 .. n : SubSeq(r, k + 1, k + n)[i] = r[k + i]
<1>1. \A i \in k + 1 .. k + n : r[i] \in S
  <2>1. \A i \in k + 1 .. k + n : i - k \in 1 .. n /\ k + (i - k) = i
    OBVIOUS
  <2> QED
    BY <2>1, Zenon
<1> DEFINE first == k + 1
           last == k + n
<1>2. first \in Int /\ last \in Int
  OBVIOUS
<1>3. /\ (IF first =< last THEN last - first + 1 ELSE 0) = n
      /\ \A i \in 1 .. n : i \in 1 .. last - first + 1 /\ first + i - 1 = k + i
  OBVIOUS
<1> HIDE DEF first, last
<1>4. /\ SubSeq(r, first, last) \in Seq(S)
      /\ Len(SubSeq(r, first, last)) = IF first =< last THEN last - first + 1 ELSE 0
      /\ \A i \in 1 .. last - first + 1 : SubSeq(r, first, last)[i] = r[first + i - 1]
  <2>1. \A i \in first .. last : r[i] \in S
    BY <1>1 DEF first, last
  <2> QED
    BY <1>2, <2>1, SubSeqProperties
<1>5. /\ SubSeq(r, first, last) \in Seq(S) /\ Len(SubSeq(r, first, last)) = n
      /\ \A i \in 1 .. n : SubSeq(r, first, last)[i] = r[k + i]
  BY <1>3, <1>4, Zenon
<1> QED
  BY <1>5, Zenon DEF first, last

Filled(r, k, n, S) == \A i \in 1 .. n : r[k + i] \in S

Cut(p, r, k, n, S) == p \in Seq(S) /\ Len(p) = n /\ \A i \in 1 .. n : p[i] = r[k + i]

LEMMA CutOut ==
  ASSUME NEW S, NEW r, NEW k \in Nat, NEW n \in Nat, Filled(r, k, n, S)
  PROVE  Cut(SubSeq(r, k + 1, k + n), r, k, n, S)
BY Slice DEF Filled, Cut

LEMMA FunctionIsSequence ==
  ASSUME NEW S, NEW n \in Nat, NEW r \in [1 .. n -> S]
  PROVE  r \in Seq(S) /\ Len(r) = n
<1>1. r = [i \in 1 .. n |-> r[i]]
  OBVIOUS
<1>2. [i \in 1 .. n |-> r[i]] \in Seq(S) /\ Len([i \in 1 .. n |-> r[i]]) = n
  OBVIOUS
<1> QED
  BY <1>1, <1>2, Zenon

LEMMA SequenceIsFunction ==
  ASSUME NEW S, NEW r \in Seq(S), NEW n, Len(r) = n
  PROVE  r \in [1 .. n -> S] /\ DOMAIN r = 1 .. n
BY LenProperties, Zenon

\* Three sequences end to end.
LEMMA ThreeParts ==
  ASSUME NEW S, NEW u \in Seq(S), NEW v \in Seq(S), NEW w \in Seq(S),
         NEW k, NEW m, NEW n, k = Len(u), m = Len(v), n = Len(w)
  PROVE  /\ u \o v \o w \in Seq(S) /\ Len(u \o v \o w) = k + m + n
         /\ \A i \in 1 .. k : (u \o v \o w)[i] = u[i]
         /\ \A i \in 1 .. m : (u \o v \o w)[k + i] = v[i]
         /\ \A i \in 1 .. n : (u \o v \o w)[k + m + i] = w[i]
<1> DEFINE t == u \o v
           r == t \o w
<1>1. k \in Nat /\ m \in Nat /\ n \in Nat
  BY LenProperties
<1>2. /\ t \in Seq(S) /\ Len(t) = Len(u) + Len(v)
      /\ \A i \in 1 .. Len(u) + Len(v) : t[i] = IF i =< Len(u) THEN u[i] ELSE v[i - Len(u)]
  BY ConcatProperties
<1>3. /\ t \in Seq(S) /\ Len(t) = k + m
      /\ \A i \in 1 .. k + m : t[i] = IF i =< k THEN u[i] ELSE v[i - k]
  BY <1>2, Zenon
<1> HIDE DEF t
<1>4. /\ r \in Seq(S) /\ Len(r) = Len(t) + Len(w)
      /\ \A i \in 1 .. Len(t) + Len(w) : r[i] = IF i =< Len(t) THEN t[i] ELSE w[i - Len(t)]
  BY <1>3, ConcatProperties
<1>5. /\ r \in Seq(S) /\ Len(r) = k + m + n
      /\ \A i \in 1 .. k + m + n : r[i] = IF i =< k + m THEN t[i] ELSE w[i - (k + m)]
  BY <1>3, <1>4, Zenon
<1> HIDE DEF r
<1>6. \A i \in 1 .. k : r[i] = u[i]
  <2>1. \A i \in 1 .. k : i \in 1 .. k + m + n /\ i =< k + m /\ i \in 1 .. k + m /\ i =< k
    BY <1>1
  <2> QED
    BY <1>3, <1>5, <2>1, Zenon
<1>7. \A i \in 1 .. m : r[k + i] = v[i]
  <2>1. \A i \in 1 .. m : /\ k + i \in 1 .. k + m + n /\ k + i =< k + m /\ k + i \in 1 .. k + m
                          /\ ~(k + i =< k) /\ (k + i) - k = i
    BY <1>1
  <2>2. \A i \in 1 .. m : r[k + i] = t[k + i]
    BY <1>5, <2>1, Zenon
  <2>3. \A i \in 1 .. m : t[k + i] = v[i]
    BY <1>3, <2>1, Zenon
  <2> QED
    BY <2>2, <2>3, Zenon
<1>8. \A i \in 1 .. n : r[k + m + i] = w[i]
  <2>1. \A i \in 1 .. n : /\ k + m + i \in 1 .. k + m + n /\ ~(k + m + i =< k + m)
                          /\ (k + m + i) - (k + m) = i
    BY <1>1
  <2> QED
    BY <1>5, <2>1, Zenon
<1> QED
  BY <1>5, <1>6, <1>7, <1>8, Zenon DEF r, t

EndsToEnd(t, S, u, v, w) ==
  /\ t \in Seq(S) /\ Len(t) = Len(u) + Len(v) + Len(w)
  /\ \A i \in 1 .. Len(u) : t[i] = u[i]
  /\ \A i \in 1 .. Len(v) : t[Len(u) + i] = v[i]
  /\ \A i \in 1 .. Len(w) : t[Len(u) + Len(v) + i] = w[i]

LEMMA EndToEnd ==
  ASSUME NEW S, NEW u \in Seq(S), NEW v \in Seq(S), NEW w \in Seq(S)
  PROVE  EndsToEnd(u \o v \o w, S, u, v, w)
BY ThreeParts DEF EndsToEnd

\* A sequence that spans three, one after the other, is the three end to end.
Spans(x, at, part) == \A i \in 1 .. Len(part) : x[at + i] = part[i]

LEMMA Assembled ==
  ASSUME NEW S, NEW u \in Seq(S), NEW v \in Seq(S), NEW w \in Seq(S), NEW x \in Seq(S),
         NEW a, NEW b, a = Len(u), b = Len(u) + Len(v), Len(x) = Len(u) + Len(v) + Len(w),
         Spans(x, 0, u), Spans(x, a, v), Spans(x, b, w)
  PROVE  u \o v \o w = x
<1> DEFINE k == Len(u)
           m == Len(v)
           n == Len(w)
           r == u \o v \o w
<1>1. k \in Nat /\ m \in Nat /\ n \in Nat
  BY LenProperties
<1>2. /\ \A i \in 1 .. k : x[0 + i] = u[i]
      /\ \A i \in 1 .. m : x[k + i] = v[i]
      /\ \A i \in 1 .. n : x[k + m + i] = w[i]
  BY Zenon DEF Spans
<1>3. /\ r \in Seq(S) /\ Len(r) = k + m + n
      /\ \A i \in 1 .. k : r[i] = u[i]
      /\ \A i \in 1 .. m : r[k + i] = v[i]
      /\ \A i \in 1 .. n : r[k + m + i] = w[i]
  BY ThreeParts
<1>4. Len(x) = k + m + n
  OBVIOUS
<1> HIDE DEF k, m, n, r
<1>5. ASSUME NEW i \in 1 .. k + m + n
      PROVE  r[i] = x[i]
  <2>1. CASE i \in 1 .. k
    <3>1. 0 + i = i
      BY <2>1, <1>1
    <3> QED
      BY <1>2, <1>3, <2>1, <3>1, Zenon
  <2>2. CASE i - k \in 1 .. m
    <3>1. k + (i - k) = i
      BY <1>1
    <3> QED
      BY <1>2, <1>3, <2>2, <3>1, Zenon
  <2>3. CASE i - (k + m) \in 1 .. n
    <3>1. k + m + (i - (k + m)) = i
      BY <1>1
    <3> QED
      BY <1>2, <1>3, <2>3, <3>1, Zenon
  <2>4. i \in 1 .. k \/ i - k \in 1 .. m \/ i - (k + m) \in 1 .. n
    BY <1>1
  <2> QED
    BY <2>1, <2>2, <2>3, <2>4
<1>6. r = x
  BY <1>3, <1>4, <1>5, SeqEqual
<1> QED
  BY <1>6 DEF r

-----------------------------------------------------------------------------
(***************************************************************************)
(* The packet.                                                             *)
(***************************************************************************)
\* The report says this, whatever fills it up.
Carries(r, type, seq, flags, payload) ==
  /\ r \in RawReports
  /\ r[1] = 224 /\ r[2] = 79 /\ r[3] = 67 /\ r[4] = Major
  /\ r[5] = type /\ r[6] = seq /\ r[7] = Len(payload) /\ r[8] = flags
  /\ \A i \in 1 .. Len(payload) : r[HeaderSize + i] = payload[i]

LEMMA ReportIsSequence ==
  ASSUME NEW r \in RawReports
  PROVE  r \in Seq(Byte) /\ Len(r) = 32 /\ \A i \in 1 .. 32 : r[i] \in Byte
<1>1. r \in [1 .. 32 -> Byte]
  BY DEF RawReports, ReportSize
<1> QED
  BY <1>1, FunctionIsSequence

LEMMA PacketCarries ==
  ASSUME NEW type \in Byte, NEW seq \in Byte, NEW flags \in Byte,
         NEW payload \in Seq(Byte), Len(payload) =< 24
  PROVE  Carries(EncodeQmkPacket(type, seq, flags, payload), type, seq, flags, payload)
<1> DEFINE n == Len(payload)
           head == <<Major, type, seq, n, flags>>
           rest == [i \in 1 .. 24 - n |-> 0]
           front == Magic \o head
           body == front \o payload
           r == body \o rest
<1>1. n \in 0 .. 24
  BY LengthUpTo
<1>2. EncodeQmkPacket(type, seq, flags, payload) = r
  BY <1>1 DEF EncodeQmkPacket, MaxPayload, ReportSize, HeaderSize
<1>3. Magic \in Seq(Byte) /\ Len(Magic) = 3 /\ Magic[1] = 224 /\ Magic[2] = 79 /\ Magic[3] = 67
  BY DEF Magic, Byte
<1>4. /\ head \in Seq(Byte) /\ Len(head) = 5
      /\ head[1] = Major /\ head[2] = type /\ head[3] = seq /\ head[4] = n /\ head[5] = flags
  <2> HIDE DEF n
  <2> QED
    BY <1>1 DEF Byte, Major
<1>5. rest \in Seq(Byte) /\ Len(rest) = 24 - n
  <2> HIDE DEF n
  <2> QED
    BY <1>1 DEF Byte
<1> HIDE DEF rest, head, n
<1>6. /\ front \in Seq(Byte) /\ Len(front) = 8
      /\ \A i \in 1 .. 8 : front[i] = IF i =< 3 THEN Magic[i] ELSE head[i - 3]
  <2>1. /\ Magic \o head \in Seq(Byte) /\ Len(Magic \o head) = Len(Magic) + Len(head)
        /\ \A i \in 1 .. Len(Magic) + Len(head) :
             (Magic \o head)[i] = IF i =< Len(Magic) THEN Magic[i] ELSE head[i - Len(Magic)]
    <3>1. Magic \in Seq(Byte) /\ head \in Seq(Byte)
      BY <1>3, <1>4
    <3> QED
      BY <3>1, ConcatProperties
  <2>2. Len(Magic) + Len(head) = 8
    BY <1>3, <1>4
  <2>3. Len(Magic) = 3
    BY <1>3
  <2> QED
    BY <2>1, <2>2, <2>3, Zenon
<1> HIDE DEF front
<1>7. /\ body \in Seq(Byte) /\ Len(body) = 8 + n
      /\ \A i \in 1 .. 8 + n : body[i] = IF i =< 8 THEN front[i] ELSE payload[i - 8]
  <2>1. /\ front \o payload \in Seq(Byte) /\ Len(front \o payload) = Len(front) + Len(payload)
        /\ \A i \in 1 .. Len(front) + Len(payload) :
             (front \o payload)[i] = IF i =< Len(front) THEN front[i] ELSE payload[i - Len(front)]
    BY <1>6, ConcatProperties
  <2>2. Len(front) + Len(payload) = 8 + n
    BY <1>6, Zenon DEF n
  <2> QED
    BY <1>6, <2>1, <2>2, Zenon
<1> HIDE DEF body
<1>8. /\ r \in Seq(Byte) /\ Len(r) = 32
      /\ \A i \in 1 .. 32 : r[i] = IF i =< 8 + n THEN body[i] ELSE rest[i - (8 + n)]
  <2>1. /\ body \o rest \in Seq(Byte) /\ Len(body \o rest) = Len(body) + Len(rest)
        /\ \A i \in 1 .. Len(body) + Len(rest) :
             (body \o rest)[i] = IF i =< Len(body) THEN body[i] ELSE rest[i - Len(body)]
    <3>1. body \in Seq(Byte) /\ rest \in Seq(Byte)
      BY <1>5, <1>7
    <3> QED
      BY <3>1, ConcatProperties
  <2>2. (8 + n) + (24 - n) = 32
    BY <1>1
  <2>3. Len(body) + Len(rest) = 32
    BY <1>5, <1>7, <2>2, Zenon
  <2> QED
    BY <1>7, <2>1, <2>3, Zenon
<1> HIDE DEF r
<1>9. r \in RawReports
  BY <1>8, SequenceIsFunction DEF RawReports, ReportSize
<1>10. \A i \in 1 .. 8 : r[i] = front[i]
  <2>1. \A i \in 1 .. 8 : i \in 1 .. 32 /\ i \in 1 .. 8 + n /\ i =< 8 + n /\ i =< 8
    BY <1>1
  <2> QED
    BY <1>7, <1>8, <2>1, Zenon
<1>11. \A i \in 1 .. n : r[8 + i] = payload[i]
  <2> SUFFICES ASSUME NEW i \in 1 .. n
               PROVE  r[8 + i] = payload[i]
    OBVIOUS
  <2>1. 8 + i \in 1 .. 8 + n /\ 8 + i \in 1 .. 32 /\ ~(8 + i =< 8) /\ (8 + i) - 8 = i /\ 8 + i =< 8 + n
    BY <1>1
  <2> QED
    BY <1>7, <1>8, <2>1, Zenon
<1>12. /\ r[1] = 224 /\ r[2] = 79 /\ r[3] = 67 /\ r[4] = Major
       /\ r[5] = type /\ r[6] = seq /\ r[7] = n /\ r[8] = flags
  BY <1>3, <1>4, <1>6, <1>10
<1> QED
  BY <1>2, <1>9, <1>11, <1>12, Zenon DEF Carries, HeaderSize, n

LEMMA Namespace ==
  ASSUME NEW r \in RawReports
  PROVE  IsOpenControlReport(r) <=> (r[1] = 224 /\ r[2] = 79 /\ r[3] = 67)
<1> DEFINE s == SubSeq(r, 1, 3)
<1>1. s \in Seq(Byte) /\ Len(s) = 3 /\ \A i \in 1 .. 3 : s[i] = r[i]
  <2>1. \A i \in 1 .. 3 : 0 + i = i /\ i \in 1 .. 32
    OBVIOUS
  <2>2. \A i \in 1 .. 3 : r[0 + i] \in Byte /\ r[0 + i] = r[i]
    BY <2>1, ReportIsSequence, Zenon
  <2>3. 0 + 1 = 1 /\ 0 + 3 = 3 /\ 0 \in Nat /\ 3 \in Nat
    OBVIOUS
  <2>4. /\ SubSeq(r, 0 + 1, 0 + 3) \in Seq(Byte) /\ Len(SubSeq(r, 0 + 1, 0 + 3)) = 3
        /\ \A i \in 1 .. 3 : SubSeq(r, 0 + 1, 0 + 3)[i] = r[0 + i]
    <3>1. Filled(r, 0, 3, Byte)
      BY <2>2 DEF Filled
    <3>2. Cut(SubSeq(r, 0 + 1, 0 + 3), r, 0, 3, Byte)
      BY <2>3, <3>1, CutOut
    <3> QED
      BY <3>2 DEF Cut
  <2> QED
    BY <2>2, <2>3, <2>4, Zenon
<1>2. Magic \in Seq(Byte) /\ Len(Magic) = 3 /\ Magic[1] = 224 /\ Magic[2] = 79 /\ Magic[3] = 67
  BY DEF Magic, Byte
<1> HIDE DEF s
<1>3. (\A i \in 1 .. 3 : s[i] = Magic[i]) => s = Magic
  BY <1>1, <1>2, SeqEqual
<1>4. IsOpenControlReport(r) <=> s = Magic
  BY DEF IsOpenControlReport, s
<1> QED
  BY <1>1, <1>2, <1>3, <1>4

\* What the decoder makes of a report of the namespace whose length fits.
LEMMA DecodedPacket ==
  ASSUME NEW r \in RawReports, IsOpenControlReport(r), r[7] =< 24
  PROVE  LET p == SubSeq(r, 9, 8 + r[7]) IN
         /\ DecodeQmkPacket(r) # None
         /\ DecodeQmkPacket(r) = [major |-> r[4], type |-> r[5], seq |-> r[6], flags |-> r[8],
                                  payload |-> p]
         /\ p \in Seq(Byte) /\ Len(p) = r[7]
         /\ \A i \in 1 .. r[7] : p[i] = r[8 + i]
<1>1. Len(r) = 32 /\ r[4] \in Byte /\ r[5] \in Byte /\ r[6] \in Byte /\ r[8] \in Byte
  BY ReportIsSequence
<1> DEFINE n == r[7]
           p == SubSeq(r, 9, 8 + n)
<1>2. n \in 0 .. 24
  <2>1. n \in Byte
    BY ReportIsSequence
  <2> QED
    BY <2>1 DEF Byte
<1>3. p \in Seq(Byte) /\ Len(p) = n /\ \A i \in 1 .. n : p[i] = r[8 + i]
  <2> HIDE DEF n
  <2>1. \A i \in 1 .. n : 8 + i \in 1 .. 32
    BY <1>2
  <2>2. \A i \in 1 .. n : r[8 + i] \in Byte
    BY <2>1, ReportIsSequence, Zenon
  <2>3. 8 + 1 = 9 /\ 8 \in Nat /\ n \in Nat
    BY <1>2
  <2> DEFINE k == 8
  <2>4. k \in Nat /\ n \in Nat /\ \A i \in 1 .. n : r[k + i] \in Byte
    BY <2>2, <2>3
  <2> HIDE DEF k
  <2>5. /\ SubSeq(r, k + 1, k + n) \in Seq(Byte) /\ Len(SubSeq(r, k + 1, k + n)) = n
        /\ \A i \in 1 .. n : SubSeq(r, k + 1, k + n)[i] = r[k + i]
    <3>1. k \in Nat /\ n \in Nat /\ Filled(r, k, n, Byte)
      BY <2>4 DEF Filled
    <3>2. Cut(SubSeq(r, k + 1, k + n), r, k, n, Byte)
      BY <3>1, CutOut, Zenon
    <3> QED
      BY <3>2 DEF Cut
  <2> QED
    BY <2>3, <2>5, Zenon DEF k
<1>4. DecodeQmkPacket(r) = [major |-> r[4], type |-> r[5], seq |-> r[6], flags |-> r[8], payload |-> p]
  <2>1. ~(n > 24) /\ 8 + 1 = 9 /\ MaxPayload = 24 /\ HeaderSize = 8
    BY <1>2 DEF MaxPayload, ReportSize, HeaderSize
  <2> QED
    BY <1>1, <2>1, Zenon DEF DecodeQmkPacket, ReportSize
<1> HIDE DEF p
<1>5. DecodeQmkPacket(r) \in [major : Byte, type : Byte, seq : Byte, flags : Byte, payload : Seq(Byte)]
  BY <1>1, <1>3, <1>4
<1>6. DecodeQmkPacket(r) # None
  BY <1>5, NoneIsNoReport DEF Decoded
<1> QED
  BY <1>3, <1>4, <1>6, Zenon DEF p

LEMMA UndecodedPacket ==
  ASSUME NEW r \in RawReports, r[7] > 24
  PROVE  DecodeQmkPacket(r) = None
BY DEF DecodeQmkPacket, MaxPayload, ReportSize, HeaderSize

\* Decoding undoes encoding.
LEMMA RoundTrip ==
  ASSUME NEW r, NEW type, NEW seq, NEW flags, NEW payload \in Seq(Byte), Len(payload) =< 24,
         Carries(r, type, seq, flags, payload)
  PROVE  /\ IsOpenControlReport(r) /\ DecodeQmkPacket(r) # None
         /\ DecodeQmkPacket(r) = [major |-> Major, type |-> type, seq |-> seq, flags |-> flags,
                                  payload |-> payload]
<1>1. IsOpenControlReport(r) /\ r \in RawReports /\ r[7] = Len(payload)
  BY Namespace DEF Carries
<1> DEFINE p == SubSeq(r, 9, 8 + r[7])
<1>2. /\ DecodeQmkPacket(r) # None
      /\ DecodeQmkPacket(r) = [major |-> r[4], type |-> r[5], seq |-> r[6], flags |-> r[8],
                               payload |-> p]
      /\ p \in Seq(Byte) /\ Len(p) = r[7] /\ \A i \in 1 .. r[7] : p[i] = r[8 + i]
  BY <1>1, DecodedPacket
<1> HIDE DEF p
<1>3. p = payload
  <2>1. \A i \in 1 .. Len(p) : p[i] = payload[i]
    BY <1>1, <1>2 DEF Carries, HeaderSize
  <2> QED
    BY <1>1, <1>2, <2>1, SeqEqual
<1> QED
  BY <1>1, <1>2, <1>3 DEF Carries

\* What either end reads of a report.
PayloadOf(r) == SubSeq(r, HeaderSize + 1, HeaderSize + r[7])

Reads(packet, type, seq, flags, payload) ==
  /\ packet # None /\ packet.major = Major /\ packet.type = type /\ packet.seq = seq
  /\ packet.flags = flags /\ packet.payload = payload

\* A packet that is written is a report of the namespace and reads as it was written.
LEMMA Written ==
  ASSUME NEW type \in Byte, NEW seq \in Byte, NEW flags \in Byte,
         NEW payload \in Seq(Byte), Len(payload) =< 24,
         NEW r, r = EncodeQmkPacket(type, seq, flags, payload)
  PROVE  /\ r \in RawReports /\ r # None /\ IsOpenControlReport(r)
         /\ Carries(r, type, seq, flags, payload) /\ PayloadOf(r) = payload
         /\ Reads(DecodeQmkPacket(r), type, seq, flags, payload)
<1>1. Carries(r, type, seq, flags, payload)
  BY PacketCarries
<1>2. r \in RawReports
  BY <1>1 DEF Carries
<1>3. r # None
  BY <1>2, NoneIsNoReport
<1>4. /\ IsOpenControlReport(r) /\ DecodeQmkPacket(r) # None
      /\ DecodeQmkPacket(r) = [major |-> Major, type |-> type, seq |-> seq, flags |-> flags,
                               payload |-> payload]
  BY <1>1, RoundTrip
<1>5. Reads(DecodeQmkPacket(r), type, seq, flags, payload)
  BY <1>4 DEF Reads
<1>6. DecodeQmkPacket(r).payload = PayloadOf(r)
  <2>1. r[7] =< 24
    BY <1>1 DEF Carries
  <2> QED
    BY <1>2, <1>4, <2>1, DecodedPacket DEF PayloadOf, HeaderSize
<1>7. PayloadOf(r) = payload
  BY <1>5, <1>6 DEF Reads
<1> QED
  BY <1>1, <1>2, <1>3, <1>4, <1>5, <1>7

-----------------------------------------------------------------------------
(***************************************************************************)
(* The fields: halves of a number, masks, codes and names.                 *)
(***************************************************************************)
LEMMA Halves ==
  ASSUME NEW n \in Word
  PROVE  /\ LE16(n) = <<n % 256, n \div 256>>
         /\ n % 256 \in Byte /\ n \div 256 \in Byte /\ (n % 256) + 256 * (n \div 256) = n
BY DEF LE16, Byte, Word

LEMMA BinaryDigits ==
  ASSUME NEW a \in 0 .. 1, NEW b \in 0 .. 1, NEW c \in 0 .. 1, NEW d \in 0 .. 1,
         NEW e \in 0 .. 1, NEW f \in 0 .. 1, NEW g \in 0 .. 1, NEW h \in 0 .. 1,
         NEW m, m = a + 2 * b + 4 * c + 8 * d + 16 * e + 32 * f + 64 * g + 128 * h
  PROVE  /\ m \in 0 .. 255
         /\ (m \div 2 ^ 0) % 2 = a /\ (m \div 2 ^ 1) % 2 = b
         /\ (m \div 2 ^ 2) % 2 = c /\ (m \div 2 ^ 3) % 2 = d
         /\ (m \div 2 ^ 4) % 2 = e /\ (m \div 2 ^ 5) % 2 = f
         /\ (m \div 2 ^ 6) % 2 = g /\ (m \div 2 ^ 7) % 2 = h
<1>1. m \in 0 .. 255
  OBVIOUS
<1>2. (m \div 1) % 2 = a /\ (m \div 2) % 2 = b /\ (m \div 4) % 2 = c /\ (m \div 8) % 2 = d
  OBVIOUS
<1>3. (m \div 16) % 2 = e /\ (m \div 32) % 2 = f /\ (m \div 64) % 2 = g /\ (m \div 128) % 2 = h
  OBVIOUS
<1>4. /\ 2 ^ 0 = 1 /\ 2 ^ 1 = 2 /\ 2 ^ 2 = 4 /\ 2 ^ 3 = 8
      /\ 2 ^ 4 = 16 /\ 2 ^ 5 = 32 /\ 2 ^ 6 = 64 /\ 2 ^ 7 = 128
  OBVIOUS
<1> QED
  BY <1>1, <1>2, <1>3, <1>4, Zenon

LEMMA MaskHasItsBits ==
  ASSUME NEW S \in SUBSET (0 .. 7)
  PROVE  MaskOf(S) \in Byte /\ BitsOf(MaskOf(S)) = S
<1> DEFINE one(i) == IF i \in S THEN 1 ELSE 0
           m == MaskOf(S)
<1>1. /\ 2 ^ 0 = 1 /\ 2 ^ 1 = 2 /\ 2 ^ 2 = 4 /\ 2 ^ 3 = 8
      /\ 2 ^ 4 = 16 /\ 2 ^ 5 = 32 /\ 2 ^ 6 = 64 /\ 2 ^ 7 = 128
  OBVIOUS
<1>2. m = one(0) + 2 * one(1) + 4 * one(2) + 8 * one(3) + 16 * one(4) + 32 * one(5)
            + 64 * one(6) + 128 * one(7)
  BY <1>1 DEF MaskOf
<1>3. \A i \in 0 .. 7 : one(i) \in 0 .. 1 /\ (one(i) = 1 <=> i \in S)
  OBVIOUS
<1> HIDE DEF one, m
<1>4. /\ m \in 0 .. 255
      /\ (m \div 2 ^ 0) % 2 = one(0) /\ (m \div 2 ^ 1) % 2 = one(1)
      /\ (m \div 2 ^ 2) % 2 = one(2) /\ (m \div 2 ^ 3) % 2 = one(3)
      /\ (m \div 2 ^ 4) % 2 = one(4) /\ (m \div 2 ^ 5) % 2 = one(5)
      /\ (m \div 2 ^ 6) % 2 = one(6) /\ (m \div 2 ^ 7) % 2 = one(7)
  <2>1. /\ one(0) \in 0 .. 1 /\ one(1) \in 0 .. 1 /\ one(2) \in 0 .. 1 /\ one(3) \in 0 .. 1
        /\ one(4) \in 0 .. 1 /\ one(5) \in 0 .. 1 /\ one(6) \in 0 .. 1 /\ one(7) \in 0 .. 1
    BY <1>3
  <2> QED
    BY <1>2, <2>1, BinaryDigits
<1>5. ASSUME NEW i \in 0 .. 7
      PROVE  Bit(m, i) <=> i \in S
  <2>1. \/ i = 0 \/ i = 1 \/ i = 2 \/ i = 3 \/ i = 4 \/ i = 5 \/ i = 6 \/ i = 7
    OBVIOUS
  <2>2. (m \div 2 ^ i) % 2 = one(i)
    BY <1>4, <2>1, Zenon
  <2> QED
    BY <1>3, <2>2, Zenon DEF Bit
<1>6. BitsOf(m) = S
  BY <1>5, Zenon DEF BitsOf
<1> QED
  BY <1>4, <1>6 DEF Byte, m

LEMMA CodesDiffer ==
  ASSUME NEW m \in 1 .. 19, NEW n \in 1 .. 19, CodeOfId(m) = CodeOfId(n)
  PROVE  m = n
BY DEF CodeOfId

LEMMA NamesOfControls ==
  /\ DOMAIN CONTROL_IDS = 1 .. 19
  /\ \A n \in 1 .. 19 : CONTROL_IDS[n] \in Range(CONTROL_IDS) /\ CONTROL_IDS[n] # None
<1>1. DOMAIN CONTROL_IDS = 1 .. 19
  BY DEF CONTROL_IDS
<1>2. \A n \in 1 .. 19 : CONTROL_IDS[n] \in Range(CONTROL_IDS)
  BY <1>1, Zenon DEF Range
<1> QED
  BY <1>1, <1>2, NoneIsNoReport, Zenon

\* The n-th keycode is the control of the n-th name.
LEMMA KeycodeNamesControl ==
  ASSUME NEW code \in FunctionKeys, ControlForKeycode(code) # ControlNone
  PROVE  /\ ControlForKeycode(code) \in Byte
         /\ DecodeControlId(ControlForKeycode(code)) = CONTROL_IDS[KeycodeNumber(code)]
         /\ CONTROL_IDS[KeycodeNumber(code)] # None
<1> DEFINE n == KeycodeNumber(code)
           control == ControlForKeycode(code)
<1>1. code.f \in 13 .. 24 /\ code.shift \in BOOLEAN /\ code # None
  BY NoneIsNoReport DEF FunctionKeys
<1>2. n \in 1 .. 19 /\ CodeOfId(n) = control /\ control \in Byte
  BY <1>1 DEF ControlForKeycode, ControlNone, KeycodeNumber, CodeOfId, Byte
<1> HIDE DEF n, control
<1>3. (CHOOSE m \in DOMAIN CONTROL_IDS : CodeOfId(m) = control) = n
  BY <1>2, CodesDiffer, NamesOfControls
<1>4. DecodeControlId(control) = CONTROL_IDS[n]
  BY <1>2, <1>3, NamesOfControls DEF DecodeControlId
<1> QED
  BY <1>2, <1>4, NamesOfControls, NoneIsNoReport DEF n, control

LEMMA PhaseReadBack ==
  ASSUME NEW phase \in DOMAIN PhaseCode
  PROVE  PhaseCode[phase] \in Byte /\ DecodePhase(PhaseCode[phase]) = phase /\ phase # None
<1>1. phase \in {"press", "release", "repeat"}
  BY DEF PhaseCode
<1>2. DOMAIN PhaseCode = {"press", "release", "repeat"}
  BY DEF PhaseCode
<1>3. PhaseCode["press"] = 1 /\ PhaseCode["release"] = 2 /\ PhaseCode["repeat"] = 3
  BY DEF PhaseCode
<1>4. phase # None
  BY NoneIsNoReport
<1>5. (CHOOSE name \in DOMAIN PhaseCode : PhaseCode[name] = PhaseCode[phase]) = phase
  BY <1>1, <1>2, <1>3
<1> QED
  BY <1>1, <1>2, <1>3, <1>4, <1>5 DEF DecodePhase, DecodeTable, Byte

LEMMA StateReadBack ==
  ASSUME NEW code \in Byte
  PROVE  /\ DecodeTaskState(code) = None <=> code > 5
         /\ code =< 5 => /\ DecodeTaskState(code) \in FeedbackStates
                         /\ StateCode[DecodeTaskState(code)] = code
<1>1. DOMAIN StateCode = {"off", "idle", "executing", "waiting", "complete", "error"}
  BY DEF StateCode
<1>2. /\ StateCode["off"] = 0 /\ StateCode["idle"] = 1 /\ StateCode["executing"] = 2
      /\ StateCode["waiting"] = 3 /\ StateCode["complete"] = 4 /\ StateCode["error"] = 5
  BY DEF StateCode
<1>3. code \in 0 .. 255
  BY DEF Byte
<1>4. CASE code > 5
  <2>1. ~\E name \in DOMAIN StateCode : StateCode[name] = code
    BY <1>1, <1>2, <1>3, <1>4
  <2> QED
    BY <1>3, <1>4, <2>1 DEF DecodeTaskState, DecodeTable
<1>5. CASE code =< 5
  <2>1. \E name \in DOMAIN StateCode : StateCode[name] = code
    BY <1>1, <1>2, <1>3, <1>5
  <2>2. /\ DecodeTaskState(code) \in DOMAIN StateCode
        /\ StateCode[DecodeTaskState(code)] = code
    BY <2>1, Zenon DEF DecodeTaskState, DecodeTable
  <2>3. DecodeTaskState(code) # None
    BY <2>2, NoneIsNoReport, Zenon DEF FeedbackStates
  <2> QED
    BY <1>3, <1>5, <2>2, <2>3 DEF FeedbackStates
<1> QED
  BY <1>3, <1>4, <1>5

-----------------------------------------------------------------------------
(***************************************************************************)
(* What the host hears of what the keyboard says.                          *)
(***************************************************************************)
LEMMA AnswersDiffer ==
  /\ MessageType.CONTROL_EVENT # MessageType.ACK /\ MessageType.CONTROL_EVENT # MessageType.ERROR
  /\ MessageType.ACK # MessageType.ERROR
BY DEF MessageType

LEMMA AcknowledgementHeard ==
  ASSUME NEW seq \in Byte, NEW type \in Byte,
         NEW r, r = EncodeAcknowledgement(seq, type)
  PROVE  /\ r \in RawReports /\ IsOpenControlReport(r)
         /\ HostHears(DecodeQmkPacket(r)) =
              [kind |-> "ACK", of |-> [type |-> type, seq |-> seq]]
<1> DEFINE payload == <<type, seq>>
           packet == DecodeQmkPacket(r)
<1>1. payload \in Seq(Byte) /\ Len(payload) = 2 /\ Len(payload) =< 24
  OBVIOUS
<1>10. payload[1] = type /\ payload[2] = seq
  OBVIOUS
<1>2. MessageType.ACK \in Byte /\ RESPONSE \in Byte
  BY DEF MessageType, RESPONSE, Byte
<1>3. r = EncodeQmkPacket(MessageType.ACK, seq, RESPONSE, payload)
  BY DEF EncodeAcknowledgement
<1> HIDE DEF payload
<1>4. /\ r \in RawReports /\ IsOpenControlReport(r)
      /\ Reads(packet, MessageType.ACK, seq, RESPONSE, payload)
  BY <1>1, <1>2, <1>3, Written
<1> HIDE DEF packet
<1>6. /\ packet # None /\ packet.major = Major /\ packet.type = MessageType.ACK
      /\ packet.seq = seq /\ packet.payload = payload
  BY <1>4 DEF Reads
<1>7. DecodeAcknowledgement(packet) = [type |-> type, seq |-> seq]
  BY <1>1, <1>6, <1>10 DEF DecodeAcknowledgement, Holds
<1>8. DecodeAcknowledgement(packet) # None
  <2>1. DecodeAcknowledgement(packet) \in [type : Byte, seq : Byte]
    BY <1>7
  <2> QED
    BY <2>1, NoneIsNoReport DEF Decoded
<1>9. HostHears(packet) = [kind |-> "ACK", of |-> [type |-> type, seq |-> seq]]
  BY <1>6, <1>7, <1>8, AnswersDiffer DEF HostHears
<1> QED
  BY <1>4, <1>9 DEF packet

LEMMA ErrorHeard ==
  ASSUME NEW seq \in Byte, NEW code \in Byte, NEW type \in Byte, NEW detail \in Byte,
         NEW r, r = EncodeDeviceError(seq, code, type, detail)
  PROVE  /\ r \in RawReports /\ IsOpenControlReport(r)
         /\ HostHears(DecodeQmkPacket(r)) =
              [kind |-> "ERROR", of |-> [type |-> type, seq |-> seq]]
<1> DEFINE payload == <<code, type, detail>>
           packet == DecodeQmkPacket(r)
<1>1. payload \in Seq(Byte) /\ Len(payload) = 3 /\ Len(payload) =< 24
  OBVIOUS
<1>10. payload[1] = code /\ payload[2] = type /\ payload[3] = detail
  OBVIOUS
<1>2. MessageType.ERROR \in Byte /\ RESPONSE \in Byte
  BY DEF MessageType, RESPONSE, Byte
<1>3. r = EncodeQmkPacket(MessageType.ERROR, seq, RESPONSE, payload)
  BY DEF EncodeDeviceError
<1> HIDE DEF payload
<1>4. /\ r \in RawReports /\ IsOpenControlReport(r)
      /\ Reads(packet, MessageType.ERROR, seq, RESPONSE, payload)
  BY <1>1, <1>2, <1>3, Written
<1> HIDE DEF packet
<1>6. /\ packet # None /\ packet.major = Major /\ packet.type = MessageType.ERROR
      /\ packet.seq = seq /\ packet.payload = payload
  BY <1>4 DEF Reads
<1>7. DecodeDeviceError(packet) = [code |-> code, type |-> type, detail |-> detail]
  BY <1>1, <1>6, <1>10 DEF DecodeDeviceError, Holds
<1>8. DecodeDeviceError(packet) # None
  <2>1. DecodeDeviceError(packet) \in [code : Byte, type : Byte, detail : Byte]
    BY <1>7
  <2> QED
    BY <2>1, NoneIsNoReport DEF Decoded
<1>9. HostHears(packet) = [kind |-> "ERROR", of |-> [type |-> type, seq |-> seq]]
  BY <1>6, <1>7, <1>8, AnswersDiffer DEF HostHears
<1> QED
  BY <1>4, <1>9 DEF packet

LEMMA ControlHeard ==
  ASSUME NEW seq \in Byte, NEW code \in FunctionKeys, ControlForKeycode(code) # ControlNone,
         NEW phase \in DOMAIN PhaseCode, NEW origin \in Places, NEW active \in Byte,
         NEW r, r = EncodeControlEvent(seq, ControlForKeycode(code), phase, origin, active)
  PROVE  /\ r \in RawReports /\ IsOpenControlReport(r)
         /\ HostHears(DecodeQmkPacket(r)) =
              [kind  |-> "control",
               event |-> [control |-> CONTROL_IDS[KeycodeNumber(code)], phase |-> phase,
                          origin |-> origin, layer |-> active]]
<1> DEFINE control == ControlForKeycode(code)
           first == origin.time[1]
           second == origin.time[2]
           payload == <<control, PhaseCode[phase], origin.row, origin.column, origin.event, active,
                        first % 256, first \div 256, second % 256, second \div 256>>
           packet == DecodeQmkPacket(r)
<1>1. /\ control \in Byte /\ DecodeControlId(control) = CONTROL_IDS[KeycodeNumber(code)]
      /\ DecodeControlId(control) # None
  BY KeycodeNamesControl
<1>2. PhaseCode[phase] \in Byte /\ DecodePhase(PhaseCode[phase]) = phase /\ phase # None
  BY PhaseReadBack
<1>3. /\ origin.row \in Byte /\ origin.column \in Byte /\ origin.event \in Byte
      /\ first \in Word /\ second \in Word /\ origin.time \in [1 .. 2 -> Word]
  BY DEF Places
<1> HIDE DEF control
<1>4. /\ LE16(first) = <<first % 256, first \div 256>> /\ LE16(second) = <<second % 256, second \div 256>>
      /\ first % 256 \in Byte /\ first \div 256 \in Byte /\ second % 256 \in Byte /\ second \div 256 \in Byte
      /\ (first % 256) + 256 * (first \div 256) = first /\ (second % 256) + 256 * (second \div 256) = second
  BY <1>3, Halves
<1>5. MessageType.CONTROL_EVENT \in Byte /\ ASYNC \in Byte
  BY DEF MessageType, ASYNC, Byte
<1>6. r = EncodeQmkPacket(MessageType.CONTROL_EVENT, seq, ASYNC, payload)
  <2> DEFINE place == <<control, PhaseCode[phase], origin.row, origin.column, origin.event, active>>
  <2>1. EncodeControlEvent(seq, control, phase, origin, active) =
          EncodeQmkPacket(MessageType.CONTROL_EVENT, seq, ASYNC,
                          place \o LE16(first) \o LE16(second))
    BY DEF EncodeControlEvent
  <2>2. place \o LE16(first) \o LE16(second) = payload
    <3> DEFINE u == place
               v == <<first % 256, first \div 256>>
               w == <<second % 256, second \div 256>>
               t == u \o v \o w
    <3>1. /\ u \in Seq(Byte) /\ v \in Seq(Byte) /\ w \in Seq(Byte)
          /\ Len(u) = 6 /\ Len(v) = 2 /\ Len(w) = 2
      <4> HIDE DEF first, second
      <4> QED
        BY <1>1, <1>2, <1>3, <1>4
    <3>2. payload \in Seq(Byte) /\ Len(payload) = 10
      <4> HIDE DEF first, second
      <4> QED
        BY <1>1, <1>2, <1>3, <1>4
    <3>3. Spans(payload, 0, u) /\ Spans(payload, 6, v) /\ Spans(payload, 8, w)
      <4> HIDE DEF first, second
      <4>1. /\ \A i \in 1 .. 6 : payload[0 + i] = u[i]
            /\ \A i \in 1 .. 2 : payload[6 + i] = v[i] /\ payload[8 + i] = w[i]
        OBVIOUS
      <4> HIDE DEF u, v, w, payload
      <4> QED
        BY <3>1, <4>1, Zenon DEF Spans
    <3> HIDE DEF u, v, w, payload
    <3>4. Len(u) + Len(v) = 8 /\ Len(payload) = Len(u) + Len(v) + Len(w)
      BY <3>1, <3>2
    <3>7. t = payload
      BY <3>1, <3>2, <3>3, <3>4, Assembled
    <3> QED
      BY <1>4, <3>7, Zenon DEF t, u, v, w
  <2> QED
    BY <2>1, <2>2 DEF control
<1>7. payload \in Seq(Byte) /\ Len(payload) = 10 /\ Len(payload) =< 24
  <2> HIDE DEF first, second
  <2> QED
    BY <1>1, <1>2, <1>3, <1>4
<1>8. /\ payload[1] = control /\ payload[2] = PhaseCode[phase] /\ payload[3] = origin.row
      /\ payload[4] = origin.column /\ payload[5] = origin.event /\ payload[6] = active
      /\ payload[7] = first % 256 /\ payload[8] = first \div 256
      /\ payload[9] = second % 256 /\ payload[10] = second \div 256
  OBVIOUS
<1> HIDE DEF payload, first, second
<1>9. /\ r \in RawReports /\ IsOpenControlReport(r)
      /\ Reads(packet, MessageType.CONTROL_EVENT, seq, ASYNC, payload)
  BY <1>5, <1>6, <1>7, Written
<1> HIDE DEF packet
<1>16. /\ packet # None /\ packet.major = Major /\ packet.type = MessageType.CONTROL_EVENT
       /\ packet.payload = payload
  BY <1>9 DEF Reads
<1>10. /\ FromLE16(SubSeq(payload, 7, 8)) = first
       /\ FromLE16(SubSeq(payload, 9, 10)) = second
  <2>1. /\ SubSeq(payload, 7, 8)[1] = payload[7] /\ SubSeq(payload, 7, 8)[2] = payload[8]
        /\ SubSeq(payload, 9, 10)[1] = payload[9] /\ SubSeq(payload, 9, 10)[2] = payload[10]
    <3>1. \A i \in 1 .. 10 : payload[i] \in Byte
      BY <1>7, ElementOfSeq
    <3>2. \A i \in 7 .. 8 : payload[i] \in Byte
      BY <3>1
    <3>3. \A i \in 9 .. 10 : payload[i] \in Byte
      BY <3>1
    <3>4. \A i \in 1 .. 8 - 7 + 1 : SubSeq(payload, 7, 8)[i] = payload[7 + i - 1]
      BY <3>2, SubSeqProperties
    <3>5. \A i \in 1 .. 10 - 9 + 1 : SubSeq(payload, 9, 10)[i] = payload[9 + i - 1]
      BY <3>3, SubSeqProperties
    <3> QED
      BY <3>4, <3>5
  <2> QED
    BY <1>4, <1>8, <2>1 DEF FromLE16
<1>11. <<first, second>> = origin.time
  BY <1>3, FunctionIsSequence DEF first, second
<1>12. DecodeControlEvent(packet) =
         [control |-> CONTROL_IDS[KeycodeNumber(code)], phase |-> phase, origin |-> origin,
          layer |-> active]
  <2>1. [row |-> origin.row, column |-> origin.column, event |-> origin.event,
         time |-> origin.time] = origin
    BY DEF Places
  <2>2. Holds(packet, MessageType.CONTROL_EVENT, 10) /\ packet.payload = payload
    BY <1>7, <1>16 DEF Holds
  <2> QED
    BY <1>1, <1>2, <1>8, <1>10, <1>11, <2>1, <2>2 DEF DecodeControlEvent
<1>13. DecodeControlEvent(packet) # None
  <2>1. CONTROL_IDS[KeycodeNumber(code)] \in Range(CONTROL_IDS)
    <3>1. KeycodeNumber(code) \in 1 .. 19
      BY DEF FunctionKeys, KeycodeNumber, ControlForKeycode, ControlNone
    <3> QED
      BY <3>1, NamesOfControls
  <2>2. DecodeControlEvent(packet) \in
          [control : Range(CONTROL_IDS), phase : DOMAIN PhaseCode, origin : Places, layer : Byte]
    BY <1>12, <2>1
  <2> QED
    BY <2>2, NoneIsNoReport DEF Decoded
<1>14. HostHears(packet) =
         [kind |-> "control", event |-> DecodeControlEvent(packet)]
  BY <1>16, <1>13, AnswersDiffer DEF HostHears
<1> QED
  BY <1>9, <1>12, <1>14 DEF packet

LEMMA OfTwo ==
  ASSUME NEW a \in Int, NEW b \in Int
  PROVE  /\ Max({a, b}) \in {a, b} /\ Max({a, b}) >= a /\ Max({a, b}) >= b
         /\ Min({a, b}) \in {a, b} /\ Min({a, b}) =< a /\ Min({a, b}) =< b
<1>1. \E x \in {a, b} : \A y \in {a, b} : x >= y
  OBVIOUS
<1>2. \E x \in {a, b} : \A y \in {a, b} : x =< y
  OBVIOUS
<1>3. Max({a, b}) \in {a, b} /\ \A y \in {a, b} : Max({a, b}) >= y
  BY <1>1, Zenon DEF Max
<1>4. Min({a, b}) \in {a, b} /\ \A y \in {a, b} : Min({a, b}) =< y
  BY <1>2, Zenon DEF Min
<1> QED
  BY <1>3, <1>4, Zenon

LEMMA BuildFields ==
  ASSUME NEW s \in Builds
  PROVE  /\ s.timeout \in Int /\ s.timeout >= 1000 /\ s.timeout =< 255000
         /\ s.wanted \in Int /\ s.patience \in Int /\ s.layer \in Byte
         /\ s.rgb \in BOOLEAN /\ s.encoder \in BOOLEAN
BY SMT DEF Builds

\* The cadence of a connection fits the timeout the keyboard was built with.
LEMMA Cadence ==
  ASSUME NEW s \in Builds
  PROVE  LET seconds == s.timeout \div 1000
             pulse   == HeartbeatFor(s, seconds) IN
         /\ seconds \in 1 .. 255 /\ ~(pulse >= seconds * 1000)
         /\ pulse + MaximumRetries * AcknowledgementTimeout(s, pulse) < s.timeout
<1> DEFINE seconds == s.timeout \div 1000
           half == (seconds * 1000) \div 2
           least == MinimumHeartbeat
           floor == 25
           asked == Min({s.wanted, half})
           pulse == HeartbeatFor(s, seconds)
           share == pulse \div 3
           shared == Max({floor, share})
           patience == AcknowledgementTimeout(s, pulse)
<1>1. seconds \in 1 .. 255 /\ seconds * 1000 =< s.timeout
  BY BuildFields, SMT
<1>2. pulse = Max({least, asked})
  BY DEF HeartbeatFor
<1>3. patience = Min({s.patience, shared})
  BY DEF AcknowledgementTimeout, MaximumRetries
<1>4. least = 100 /\ floor = 25
  BY DEF MinimumHeartbeat
<1> HIDE DEF seconds, pulse, patience, least, floor
<1>5. half \in Int /\ half = 500 * seconds /\ half >= 500
  BY <1>1, SMT
<1>6. asked = Min({s.wanted, half}) /\ share = pulse \div 3 /\ shared = Max({floor, share})
  OBVIOUS
<1>7. /\ least \in Int /\ floor \in Int /\ s.wanted \in Int /\ s.patience \in Int
      /\ least =< half /\ 3 * floor =< least /\ floor >= 0
  BY <1>4, <1>5, BuildFields
<1> HIDE DEF half, asked, share, shared
<1>8. pulse \in Int /\ pulse >= least /\ pulse =< half
  <2> half \in Int
    BY <1>5
  <2>1. asked \in {s.wanted, half} /\ asked =< half
    BY <1>6, <1>7, OfTwo, Zenon
  <2>2. asked \in Int
    BY <1>5, <1>7, <2>1
  <2>3. pulse \in {least, asked} /\ pulse >= least
    BY <1>2, <1>7, <2>2, OfTwo, Zenon
  <2> QED
    BY <1>5, <1>7, <2>1, <2>2, <2>3
<1>10. patience \in Int /\ 3 * patience =< pulse
  <2>1. share \in Int /\ share >= floor /\ 3 * share =< pulse
    BY <1>6, <1>7, <1>8
  <2>2. shared \in {floor, share} /\ shared >= share
    BY <1>6, <1>7, <2>1, OfTwo, Zenon
  <2>3. shared = share /\ shared \in Int
    BY <1>7, <2>1, <2>2
  <2>4. patience \in {s.patience, shared} /\ patience =< shared
    BY <1>3, <1>7, <2>3, OfTwo, Zenon
  <2> QED
    BY <1>7, <1>8, <2>1, <2>3, <2>4
<1>9. ~(pulse >= seconds * 1000) /\ pulse + 2 * patience < s.timeout
  BY <1>1, <1>5, <1>8, <1>10, BuildFields, SMT
<1> QED
  BY <1>1, <1>9, SMT DEF MaximumRetries, seconds, pulse, patience

\* What the keyboard was built with, from the bits of its handshake.
LEMMA CapabilitiesReadBack ==
  ASSUME NEW s \in Builds
  PROVE  LET bits == BitsOf(Capabilities(s) % 256) IN
         /\ Capabilities(s) \in Word
         /\ 0 \in bits /\ 4 \in bits /\ (1 \in bits <=> s.rgb) /\ (3 \in bits <=> s.encoder)
<1> DEFINE a == IF s.rgb THEN 1 ELSE 0
           b == IF s.encoder THEN 1 ELSE 0
           m == Capabilities(s)
           bits == BitsOf(m)
<1>1. Capabilities(s) = 49 + (IF s.rgb THEN 2 ELSE 0) + (IF s.encoder THEN 8 ELSE 0)
  BY DEF Capabilities, Capability
<1>2. m = 1 + 2 * a + 4 * 0 + 8 * b + 16 * 1 + 32 * 1 + 64 * 0 + 128 * 0
  BY <1>1
<1>3. a \in 0 .. 1 /\ b \in 0 .. 1 /\ (a = 1 <=> s.rgb) /\ (b = 1 <=> s.encoder)
  OBVIOUS
<1> DEFINE zero == 0
           one == 1
<1>4. /\ m \in 0 .. 255 /\ (m \div 2 ^ 0) % 2 = 1 /\ (m \div 2 ^ 1) % 2 = a
      /\ (m \div 2 ^ 3) % 2 = b /\ (m \div 2 ^ 4) % 2 = 1
  <2>1. /\ zero \in 0 .. 1 /\ one \in 0 .. 1 /\ one = 1
        /\ m = one + 2 * a + 4 * zero + 8 * b + 16 * one + 32 * one + 64 * zero + 128 * zero
    BY <1>2
  <2> HIDE DEF a, b, m, zero, one
  <2> QED
    BY <1>3, <2>1, BinaryDigits
<1> HIDE DEF a, b, m
<1>5. m % 256 = m /\ m \in Word
  BY <1>4, SMT DEF Word
<1>6. 0 \in 0 .. 7 /\ 1 \in 0 .. 7 /\ 3 \in 0 .. 7 /\ 4 \in 0 .. 7
  OBVIOUS
<1>7. 0 \in bits /\ 4 \in bits /\ (1 \in bits <=> a = 1) /\ (3 \in bits <=> b = 1)
  BY <1>4, <1>6, Zenon DEF BitsOf, Bit
<1> QED
  BY <1>3, <1>5, <1>7 DEF m

\* What the probe is told: the connection is the keyboard's, and kept alive in time.
Told(connection, s) ==
  /\ connection.kind = "connection"
  /\ connection.pressRelease /\ connection.usb /\ connection.slots = AgentCount
  /\ connection.rgb = s.rgb /\ connection.encoder = s.encoder
  /\ connection.heartbeat + MaximumRetries * connection.patience < s.timeout

LEMMA HandshakeHeard ==
  ASSUME NEW s \in Builds, NEW seq \in Byte, NEW r, r = EncodeHelloAck(seq, s)
  PROVE  /\ r \in RawReports /\ IsOpenControlReport(r)
         /\ Told(ProbeHears(s, seq, DecodeQmkPacket(r)), s)
<1> DEFINE cap == Capabilities(s)
           low == cap % 256
           high == cap \div 256
           seconds == s.timeout \div 1000
           u == <<0>>
           v == <<low, high>>
           w == <<AgentCount, ControlCount, ReportSize, s.layer, seconds>>
           payload == <<0, low, high, AgentCount, ControlCount, ReportSize, s.layer, seconds>>
           packet == DecodeQmkPacket(r)
<1>1. /\ cap \in Word /\ 0 \in BitsOf(low) /\ 4 \in BitsOf(low)
      /\ (1 \in BitsOf(low) <=> s.rgb) /\ (3 \in BitsOf(low) <=> s.encoder)
  BY CapabilitiesReadBack
<1> HIDE DEF cap
<1>2. LE16(cap) = <<low, high>> /\ low \in Byte /\ high \in Byte /\ low + 256 * high = cap
  BY <1>1, Halves
<1> HIDE DEF low, high
<1>3. seconds \in Byte /\ seconds # 0 /\ s.layer \in Byte
  <2>1. seconds \in 1 .. 255
    BY Cadence
  <2> QED
    BY <2>1, BuildFields, SMT DEF Byte
<1> HIDE DEF seconds
<1>4. AgentCount \in Byte /\ ControlCount = 19 /\ ReportSize = 32
  BY AgentCountAssumption DEF Byte, ControlCount, ReportSize
<1>5. /\ u \in Seq(Byte) /\ v \in Seq(Byte) /\ w \in Seq(Byte) /\ payload \in Seq(Byte)
      /\ Len(u) = 1 /\ Len(v) = 2 /\ Len(w) = 5 /\ Len(payload) = 8
  BY <1>2, <1>3, <1>4 DEF Byte
<1>6. /\ payload[2] = low /\ payload[3] = high /\ payload[4] = AgentCount
      /\ payload[5] = 19 /\ payload[6] = 32 /\ payload[7] = s.layer /\ payload[8] = seconds
  BY <1>4
<1>7. Spans(payload, 0, u) /\ Spans(payload, 1, v) /\ Spans(payload, 3, w)
  <2>1. /\ \A i \in 1 .. 1 : payload[0 + i] = u[i]
        /\ \A i \in 1 .. 2 : payload[1 + i] = v[i]
        /\ \A i \in 1 .. 5 : payload[3 + i] = w[i]
    OBVIOUS
  <2> HIDE DEF u, v, w, payload
  <2> QED
    BY <1>5, <2>1, Zenon DEF Spans
<1>8. r = EncodeQmkPacket(MessageType.HELLO_ACK, seq, RESPONSE, u \o v \o w)
  BY <1>2 DEF EncodeHelloAck, cap, seconds
<1> HIDE DEF u, v, w, payload
<1>9. u \o v \o w = payload
  <2>1. Len(u) + Len(v) = 3 /\ Len(payload) = Len(u) + Len(v) + Len(w)
    BY <1>5
  <2> QED
    BY <1>5, <1>7, <2>1, Assembled
<1>10. MessageType.HELLO_ACK \in Byte /\ RESPONSE \in Byte /\ Len(payload) =< 24
  BY <1>5 DEF MessageType, RESPONSE, Byte
<1>11. r = EncodeQmkPacket(MessageType.HELLO_ACK, seq, RESPONSE, payload)
  BY <1>8, <1>9
<1>12. /\ r \in RawReports /\ IsOpenControlReport(r)
       /\ Reads(packet, MessageType.HELLO_ACK, seq, RESPONSE, payload)
  <2>1. payload \in Seq(Byte)
    BY <1>5
  <2> QED
    BY <1>10, <1>11, <2>1, Written
<1> HIDE DEF packet
<1>13. /\ packet # None /\ packet.major = Major /\ packet.type = MessageType.HELLO_ACK
       /\ packet.seq = seq /\ packet.flags = RESPONSE /\ packet.payload = payload
  BY <1>12 DEF Reads
<1>14. 0 \in BitsOf(RESPONSE)
  BY DEF BitsOf, Bit, RESPONSE
<1> DEFINE ack == [capabilities |-> cap, agents |-> AgentCount, controls |-> 19, size |-> 32,
                   layer |-> s.layer, heartbeat |-> seconds]
<1>15. FromLE16(SubSeq(payload, 2, 3)) = cap
  <2>1. \A i \in 1 .. 8 : payload[i] \in Byte
    BY <1>5, ElementOfSeq
  <2>2. \A i \in 2 .. 3 : payload[i] \in Byte
    BY <2>1
  <2>3. \A i \in 1 .. 3 - 2 + 1 : SubSeq(payload, 2, 3)[i] = payload[2 + i - 1]
    BY <2>2, SubSeqProperties
  <2>4. SubSeq(payload, 2, 3)[1] = payload[2] /\ SubSeq(payload, 2, 3)[2] = payload[3]
    BY <2>3
  <2> QED
    BY <1>2, <1>6, <2>4 DEF FromLE16
<1>16. DecodeHelloAck(packet) = ack
  BY <1>5, <1>6, <1>13, <1>15 DEF DecodeHelloAck, Holds
<1>17. ack \in [capabilities : Word, agents : Byte, controls : Byte, size : Byte, layer : Byte,
                 heartbeat : Byte]
  BY <1>1, <1>3, <1>4 DEF Byte
<1>18. ack # None
  BY <1>17, NoneIsNoReport DEF Decoded
<1>19. ValidHelloAck(ack) /\ ack.heartbeat = seconds /\ ack.capabilities = cap
       /\ ack.agents = AgentCount
  BY <1>3, <1>4 DEF ValidHelloAck
<1> HIDE DEF ack
<1> DEFINE pulse == HeartbeatFor(s, seconds)
           patience == AcknowledgementTimeout(s, pulse)
<1>20. /\ ~(pulse >= seconds * 1000)
       /\ pulse + MaximumRetries * patience < s.timeout
  BY Cadence DEF seconds
<1>21. ProbeHears(s, seq, packet) = Connection(s, ack)
  BY <1>13, <1>14, <1>16, <1>18, <1>19, <1>20, Zenon DEF ProbeHears
<1>22. Connection(s, ack) =
         [kind |-> "connection", heartbeat |-> pulse, patience |-> patience,
          pressRelease |-> 0 \in BitsOf(low), rgb |-> 1 \in BitsOf(low),
          encoder |-> 3 \in BitsOf(low), usb |-> 4 \in BitsOf(low), slots |-> AgentCount]
  BY <1>19, Zenon DEF Connection, low
<1>23. s.rgb \in BOOLEAN /\ s.encoder \in BOOLEAN
  BY BuildFields
<1>24. s.rgb = (1 \in BitsOf(low)) /\ s.encoder = (3 \in BitsOf(low))
  <2> DEFINE p == 1 \in BitsOf(low)
             q == 3 \in BitsOf(low)
  <2>1. (p <=> s.rgb) /\ (q <=> s.encoder) /\ p \in BOOLEAN /\ q \in BOOLEAN
    BY <1>1
  <2> HIDE DEF p, q
  <2>2. s.rgb = p /\ s.encoder = q
    BY <1>23, <2>1
  <2> QED
    BY <2>2 DEF p, q
<1> HIDE DEF pulse, patience
<1>25. Told(Connection(s, ack), s)
  <2> DEFINE connection == Connection(s, ack)
             press == 0 \in BitsOf(low)
             usb == 4 \in BitsOf(low)
             rgb == 1 \in BitsOf(low)
             encoder == 3 \in BitsOf(low)
  <2>1. press /\ usb /\ rgb = s.rgb /\ encoder = s.encoder
    BY <1>1, <1>24
  <2>2. connection = [kind |-> "connection", heartbeat |-> pulse, patience |-> patience,
                      pressRelease |-> press, rgb |-> rgb, encoder |-> encoder, usb |-> usb,
                      slots |-> AgentCount]
    BY <1>22
  <2> HIDE DEF connection, press, usb, rgb, encoder
  <2>3. /\ connection.kind = "connection" /\ connection.slots = AgentCount
        /\ connection.heartbeat = pulse /\ connection.patience = patience
        /\ connection.pressRelease = press /\ connection.usb = usb
        /\ connection.rgb = rgb /\ connection.encoder = encoder
    BY <2>2
  <2> QED
    BY <1>20, <2>1, <2>3, Zenon DEF Told, connection
<1> QED
  BY <1>12, <1>21, <1>25 DEF packet

-----------------------------------------------------------------------------
(***************************************************************************)
(* A frame on its way to the keyboard.                                     *)
(***************************************************************************)
Slots == [slot : Int, state : FeedbackStates, unread : BOOLEAN]

\* The slots of a list, repetitions and all.
SlotsOf(slots) == {s.slot : s \in Range(slots)}

LEMMA ListedTwice ==
  ASSUME NEW slots \in Seq(Slots)
  PROVE  Cardinality(SlotsOf(slots)) = Len(slots)
           <=> \A i, j \in DOMAIN slots : slots[i].slot = slots[j].slot => i = j
<1> DEFINE n == Len(slots)
           f == [i \in 1 .. n |-> slots[i].slot]
<1>1. n \in Nat /\ DOMAIN slots = 1 .. n
  BY LenProperties
<1> HIDE DEF n
<1>2. SlotsOf(slots) = {f[i] : i \in 1 .. n}
  <2>1. Range(slots) = {slots[i] : i \in 1 .. n}
    BY <1>1, Zenon DEF Range
  <2> QED
    BY <2>1 DEF SlotsOf
<1>3. f \in Surjection(1 .. n, SlotsOf(slots))
  BY <1>2 DEF Surjection
<1>4. IsFiniteSet(1 .. n) /\ Cardinality(1 .. n) = n
  <2>1. IsFiniteSet(1 .. n) /\ Cardinality(1 .. n) = IF 1 > n THEN 0 ELSE n - 1 + 1
    BY <1>1, FS_Interval
  <2> QED
    BY <1>1, <2>1
<1>5. Cardinality(SlotsOf(slots)) = Cardinality(1 .. n) <=> f \in Injection(1 .. n, SlotsOf(slots))
  BY <1>3, <1>4, FS_Surjection, Zenon
<1>6. f \in Injection(1 .. n, SlotsOf(slots)) <=> \A i, j \in 1 .. n : f[i] = f[j] => i = j
  <2>1. f \in [1 .. n -> SlotsOf(slots)]
    BY <1>3, Zenon DEF Surjection
  <2> QED
    BY <2>1, Zenon DEF Injection, IsInjective
<1> QED
  BY <1>1, <1>4, <1>5, <1>6, Zenon DEF n

\* What a list of slots becomes, when it is not refused.
Normalized(slots) ==
  [a \in Agents |->
     IF \E i \in DOMAIN slots : slots[i].slot = a
     THEN slots[CHOOSE i \in DOMAIN slots : slots[i].slot = a]
     ELSE [slot |-> a, state |-> "off", unread |-> FALSE]]

AgentSlots == [slot : Agents, state : FeedbackStates, unread : BOOLEAN]

LEMMA NormalizedSlots ==
  ASSUME NEW slots \in Seq(Slots)
  PROVE  Normalized(slots) \in [Agents -> AgentSlots] /\ Normalized(slots) # None
<1>1. ASSUME NEW a \in Agents
      PROVE  Normalized(slots)[a] \in AgentSlots
  <2>1. CASE \E i \in DOMAIN slots : slots[i].slot = a
    <3> DEFINE i == CHOOSE k \in DOMAIN slots : slots[k].slot = a
    <3>1. i \in DOMAIN slots /\ slots[i].slot = a
      BY <2>1, Zenon
    <3> HIDE DEF i
    <3>2. slots[i] \in Slots
      BY <3>1, LenProperties, ElementOfSeq
    <3>3. Normalized(slots)[a] = slots[i]
      BY <2>1, Zenon DEF Normalized, i
    <3> QED
      BY <3>1, <3>2, <3>3 DEF Slots, AgentSlots
  <2>2. CASE ~\E i \in DOMAIN slots : slots[i].slot = a
    <3>1. Normalized(slots)[a] = [slot |-> a, state |-> "off", unread |-> FALSE]
      BY <2>2, Zenon DEF Normalized
    <3>2. "off" \in FeedbackStates
      BY DEF FeedbackStates, StateCode
    <3> QED
      BY <3>1, <3>2 DEF AgentSlots
  <2> QED
    BY <2>1, <2>2
<1>2. Normalized(slots) \in [Agents -> AgentSlots]
  BY <1>1 DEF Normalized
<1> QED
  BY <1>2, NoneIsNoReport DEF AgentSlots

\* A list is refused exactly when it names a slot twice or one that is not there.
LEMMA Refusal ==
  ASSUME NEW slots \in Seq(Slots)
  PROVE  /\ NormalizeFeedback(slots) = None
              <=> \/ ~\A s \in Range(slots) : s.slot \in Agents
                  \/ Cardinality(SlotsOf(slots)) # Len(slots)
         /\ NormalizeFeedback(slots) # None =>
              /\ NormalizeFeedback(slots) = Normalized(slots)
              /\ \A i, j \in DOMAIN slots : slots[i].slot = slots[j].slot => i = j
<1> DEFINE absent == \E i \in DOMAIN slots : slots[i].slot \notin Agents
           twice == \E i, j \in DOMAIN slots : i # j /\ slots[i].slot = slots[j].slot
<1>1. NormalizeFeedback(slots) = IF absent \/ twice THEN None ELSE Normalized(slots)
  BY Zenon DEF NormalizeFeedback, Normalized
<1>2. absent <=> ~\A s \in Range(slots) : s.slot \in Agents
  BY Zenon DEF Range
<1>3. twice <=> Cardinality(SlotsOf(slots)) # Len(slots)
  BY ListedTwice, Zenon
<1>4. ~twice => \A i, j \in DOMAIN slots : slots[i].slot = slots[j].slot => i = j
  BY Zenon
<1> HIDE DEF absent, twice
<1> QED
  BY <1>1, <1>2, <1>3, <1>4, NormalizedSlots, Zenon

\* The normalised list is the frame the slots stand for.
LEMMA NormalizedIsFrame ==
  ASSUME NEW frame, frame.slots \in Seq(Slots), NEW a \in Agents,
         \A i, j \in DOMAIN frame.slots : frame.slots[i].slot = frame.slots[j].slot => i = j
  PROVE  /\ FrameOf(frame).states[a] = Normalized(frame.slots)[a].state
         /\ a \in FrameOf(frame).unread <=> Normalized(frame.slots)[a].unread
<1> DEFINE slots == frame.slots
           of(b) == {s \in Range(slots) : s.slot = b}
           states == [b \in Agents |-> IF of(b) = {} THEN "off"
                                       ELSE (CHOOSE s \in of(b) : TRUE).state]
           unread == {b \in Agents : \E s \in of(b) : s.unread}
<1>1. FrameOf(frame).states = states /\ FrameOf(frame).unread = unread
  BY DEF FrameOf
<1> HIDE DEF slots
<1>2. CASE \E i \in DOMAIN slots : slots[i].slot = a
  <2> DEFINE i == CHOOSE k \in DOMAIN slots : slots[k].slot = a
  <2>1. i \in DOMAIN slots /\ slots[i].slot = a
    BY <1>2, Zenon
  <2>2. Normalized(slots)[a] = slots[i]
    BY <1>2, Zenon DEF Normalized
  <2> HIDE DEF i
  <2>3. of(a) = {slots[i]}
    <3>1. \A s \in of(a) : s = slots[i]
      BY <2>1, Zenon DEF Range, slots
    <3>2. slots[i] \in of(a)
      BY <2>1, Zenon DEF Range
    <3> QED
      BY <3>1, <3>2, Zenon
  <2> HIDE DEF of
  <2>4. states[a] = slots[i].state
    <3>1. of(a) # {} /\ (CHOOSE s \in of(a) : TRUE) = slots[i]
      BY <2>3
    <3> QED
      BY <3>1, Zenon
  <2>5. a \in unread <=> slots[i].unread
    BY <2>3, Zenon
  <2> QED
    BY <1>1, <2>2, <2>4, <2>5, Zenon DEF slots
<1>3. CASE ~\E i \in DOMAIN slots : slots[i].slot = a
  <2>1. of(a) = {}
    BY <1>3, Zenon DEF Range
  <2>2. Normalized(slots)[a] = [slot |-> a, state |-> "off", unread |-> FALSE]
    BY <1>3, Zenon DEF Normalized
  <2> HIDE DEF of
  <2>3. states[a] = "off" /\ a \notin unread
    BY <2>1, Zenon
  <2>4. Normalized(slots)[a].state = "off" /\ ~Normalized(slots)[a].unread
    BY <2>2
  <2> QED
    BY <1>1, <2>3, <2>4, Zenon DEF slots
<1> QED
  BY <1>2, <1>3

\* What the keyboard installs of a frame, and the payload that says it.
Vector(frame) == EncodeTaskStates(FrameOf(frame))

LEMMA VectorOfFrame ==
  ASSUME NEW frame, frame.selected \in Agents \cup {None}, frame.slots \in Seq(Slots),
         \A i, j \in DOMAIN frame.slots : frame.slots[i].slot = frame.slots[j].slot => i = j,
         NEW known, known = Normalized(frame.slots)
  PROVE  /\ Vector(frame).selected = IF frame.selected = None THEN SelectedNone ELSE frame.selected - 1
         /\ Vector(frame).codes = [i \in 0 .. AgentCount - 1 |-> StateCode[known[i + 1].state]]
         /\ Vector(frame).unread = {a - 1 : a \in {s \in Agents : known[s].unread}}
         /\ Vector(frame) = [selected |-> Vector(frame).selected, codes |-> Vector(frame).codes,
                             unread |-> Vector(frame).unread]
<1> DEFINE states == FrameOf(frame).states
           unread == FrameOf(frame).unread
<1>1. /\ Vector(frame).selected = IF frame.selected = None THEN SelectedNone ELSE frame.selected - 1
      /\ Vector(frame).codes = [i \in 0 .. AgentCount - 1 |-> StateCode[states[i + 1]]]
      /\ Vector(frame).unread = {a - 1 : a \in unread}
      /\ Vector(frame) = [selected |-> Vector(frame).selected, codes |-> Vector(frame).codes,
                          unread |-> Vector(frame).unread]
  <2>1. FrameOf(frame).selected = frame.selected
    BY DEF FrameOf
  <2> HIDE DEF states, unread
  <2>2. EncodeTaskStates(FrameOf(frame)) =
          [selected |-> IF frame.selected = None THEN SelectedNone ELSE frame.selected - 1,
           codes    |-> [i \in 0 .. AgentCount - 1 |-> StateCode[states[i + 1]]],
           unread   |-> {a - 1 : a \in unread}]
    BY <2>1, Zenon DEF EncodeTaskStates, states, unread
  <2> QED
    BY <2>2 DEF Vector
<1>2. \A a \in Agents : states[a] = known[a].state /\ (a \in unread <=> known[a].unread)
  BY NormalizedIsFrame, Zenon
<1>3. unread \subseteq Agents
  BY DEF FrameOf
<1> HIDE DEF states, unread
<1>4. unread = {s \in Agents : known[s].unread}
  BY <1>2, <1>3, Zenon
<1>5. \A i \in 0 .. AgentCount - 1 : i + 1 \in Agents
  BY AgentCountAssumption DEF Agents
<1>6. [i \in 0 .. AgentCount - 1 |-> StateCode[states[i + 1]]] =
      [i \in 0 .. AgentCount - 1 |-> StateCode[known[i + 1].state]]
  BY <1>2, <1>5, Zenon
<1> QED
  BY <1>1, <1>4, <1>6, Zenon

\* The payload is read as what it was made from.
Installs(p, b, seq, selected, codes, bits) ==
  ReadTaskStates(b, seq, p) =
    Answer(InstallTaskStates(b, [selected |-> selected,
                                 codes    |-> [i \in 0 .. AgentCount - 1 |-> codes[i + 1]],
                                 unread   |-> bits]),
           EncodeAcknowledgement(seq, MessageType.TASK_STATES))

LEMMA PayloadRead ==
  ASSUME NEW selected \in Byte, selected = SelectedNone \/ selected < AgentCount,
         NEW codes \in [Agents -> 0 .. 5], NEW bits \in SUBSET (0 .. 7),
         NEW p, p = <<selected>> \o codes \o <<MaskOf(bits)>>, NEW b, NEW seq
  PROVE  /\ p \in Seq(Byte) /\ Len(p) = AgentCount + 2
         /\ Installs(p, b, seq, selected, codes, bits)
<1> DEFINE mask == MaskOf(bits)
           u == <<selected>>
           w == <<mask>>
<1>1. mask \in Byte /\ BitsOf(mask) = bits
  BY MaskHasItsBits
<1> HIDE DEF mask
<1>2. u \in Seq(Byte) /\ Len(u) = 1 /\ u[1] = selected /\ w \in Seq(Byte) /\ Len(w) = 1 /\ w[1] = mask
  BY <1>1
<1>3. codes \in Seq(Byte) /\ Len(codes) = AgentCount
  <2>1. codes \in [1 .. AgentCount -> Byte] /\ AgentCount \in Nat
    BY AgentCountAssumption DEF Agents, Byte
  <2> QED
    BY <2>1, FunctionIsSequence
<1>4. p = u \o codes \o w
  BY DEF mask
<1> HIDE DEF u, w
<1> DEFINE one == 1
<1>5. /\ p \in Seq(Byte) /\ Len(p) = one + AgentCount + one
      /\ \A i \in 1 .. one : p[i] = u[i]
      /\ \A i \in 1 .. AgentCount : p[one + i] = codes[i]
      /\ \A i \in 1 .. one : p[one + AgentCount + i] = w[i]
  <2>1. one = Len(u) /\ AgentCount = Len(codes) /\ one = Len(w) /\ u \in Seq(Byte) /\ w \in Seq(Byte)
    BY <1>2, <1>3
  <2> HIDE DEF one
  <2>2. EndsToEnd(u \o codes \o w, Byte, u, codes, w)
    <3>1. codes \in Seq(Byte)
      BY <1>3
    <3> QED
      BY <2>1, <3>1, EndToEnd
  <2>3. EndsToEnd(p, Byte, u, codes, w)
    BY <1>4, <2>2
  <2> QED
    BY <2>1, <2>3, Zenon DEF EndsToEnd
<1>6. Len(p) = AgentCount + 2 /\ p[1] = selected /\ p[AgentCount + 2] = mask
  <2>1. 1 \in 1 .. one /\ one + AgentCount + 1 = AgentCount + 2 /\ one + AgentCount + one = AgentCount + 2
    BY AgentCountAssumption
  <2> QED
    BY <1>2, <1>5, <2>1, Zenon
<1>7. \A i \in 0 .. AgentCount - 1 : p[i + 2] = codes[i + 1] /\ ~(p[i + 2] > 5)
  <2> SUFFICES ASSUME NEW i \in 0 .. AgentCount - 1
               PROVE  p[i + 2] = codes[i + 1] /\ ~(p[i + 2] > 5)
    OBVIOUS
  <2>1. i + 1 \in 1 .. AgentCount /\ one + (i + 1) = i + 2
    BY AgentCountAssumption
  <2>2. p[i + 2] = codes[i + 1]
    BY <1>5, <2>1, Zenon
  <2>3. codes[i + 1] \in 0 .. 5
    BY <2>1, Zenon DEF Agents
  <2>4. \A x \in 0 .. 5 : ~(x > 5)
    OBVIOUS
  <2> QED
    BY <2>2, <2>3, <2>4, Zenon
<1>8. {i \in 0 .. AgentCount - 1 : p[i + 2] > 5} = {}
  BY <1>7, Zenon
<1>9. ~(p[1] # SelectedNone /\ p[1] >= AgentCount)
  BY <1>6, AgentCountAssumption DEF Byte
<1>10. [i \in 0 .. AgentCount - 1 |-> p[i + 2]] = [i \in 0 .. AgentCount - 1 |-> codes[i + 1]]
  BY <1>7, Zenon
<1>11. ReadTaskStates(b, seq, p) =
         Answer(InstallTaskStates(b, [selected |-> p[1],
                                      codes    |-> [i \in 0 .. AgentCount - 1 |-> p[i + 2]],
                                      unread   |-> BitsOf(p[AgentCount + 2])]),
                EncodeAcknowledgement(seq, MessageType.TASK_STATES))
  BY <1>6, <1>8, <1>9, Zenon DEF ReadTaskStates
<1> QED
  BY <1>1, <1>5, <1>6, <1>10, <1>11, Zenon DEF Installs

LEMMA FrameOnTheWire ==
  ASSUME NEW frame, frame.selected \in Agents \cup {None}, frame.slots \in Seq(Slots),
         NormalizeFeedback(frame.slots) # None, NEW seq \in Byte,
         NEW r, r = EncodeTaskStatesReport(seq, frame), NEW b
  PROVE  /\ r \in RawReports /\ r # None /\ IsOpenControlReport(r)
         /\ Carries(r, MessageType.TASK_STATES, seq, 0, PayloadOf(r)) /\ Len(PayloadOf(r)) =< 24
         /\ ReadTaskStates(b, seq, PayloadOf(r)) =
              Answer(InstallTaskStates(b, Vector(frame)),
                     EncodeAcknowledgement(seq, MessageType.TASK_STATES))
<1> DEFINE known == Normalized(frame.slots)
           selected == IF frame.selected = None THEN SelectedNone ELSE frame.selected - 1
           codes == [a \in Agents |-> StateCode[known[a].state]]
           bits == {a - 1 : a \in {s \in Agents : known[s].unread}}
           p == <<selected>> \o codes \o <<MaskOf(bits)>>
<1>1. /\ NormalizeFeedback(frame.slots) = known
      /\ \A i, j \in DOMAIN frame.slots : frame.slots[i].slot = frame.slots[j].slot => i = j
  BY Refusal
<1>2. known \in [Agents -> AgentSlots] /\ known # None
  BY NormalizedSlots
<1>3. /\ Vector(frame).selected = selected
      /\ Vector(frame).codes = [i \in 0 .. AgentCount - 1 |-> StateCode[known[i + 1].state]]
      /\ Vector(frame).unread = bits
      /\ Vector(frame) = [selected |-> Vector(frame).selected, codes |-> Vector(frame).codes,
                          unread |-> Vector(frame).unread]
  BY <1>1, VectorOfFrame
<1> HIDE DEF known
<1>4. r = EncodeQmkPacket(MessageType.TASK_STATES, seq, 0, p)
  BY <1>1, <1>2, Zenon DEF EncodeTaskStatesReport
<1>5. selected \in Byte /\ (selected = SelectedNone \/ selected < AgentCount)
  <2>1. CASE frame.selected = None
    BY <2>1 DEF SelectedNone, Byte
  <2>2. CASE frame.selected # None
    <3>1. frame.selected \in 1 .. AgentCount /\ selected = frame.selected - 1
      BY <2>2 DEF Agents
    <3>2. \A x \in 1 .. AgentCount : x - 1 \in Byte /\ x - 1 < AgentCount
      BY AgentCountAssumption DEF Byte
    <3> QED
      BY <3>1, <3>2, Zenon
  <2> QED
    BY <2>1, <2>2
<1>6. codes \in [Agents -> 0 .. 5]
  <2>1. \A state \in FeedbackStates : StateCode[state] \in 0 .. 5
    BY DEF FeedbackStates, StateCode
  <2>2. \A a \in Agents : known[a].state \in FeedbackStates
    BY <1>2 DEF AgentSlots
  <2> QED
    BY <2>1, <2>2
<1>7. bits \in SUBSET (0 .. 7)
  BY AgentCountAssumption DEF Agents
<1>8. [i \in 0 .. AgentCount - 1 |-> codes[i + 1]] =
      [i \in 0 .. AgentCount - 1 |-> StateCode[known[i + 1].state]]
  <2>1. \A i \in 0 .. AgentCount - 1 : i + 1 \in Agents
    BY AgentCountAssumption DEF Agents
  <2> QED
    BY <2>1, Zenon
<1>9. p = <<selected>> \o codes \o <<MaskOf(bits)>>
  OBVIOUS
<1> HIDE DEF selected, codes, bits, p
<1>10. /\ p \in Seq(Byte) /\ Len(p) = AgentCount + 2
       /\ Installs(p, b, seq, selected, codes, bits)
  BY <1>5, <1>6, <1>7, <1>9, PayloadRead
<1>11. Len(p) =< 24 /\ MessageType.TASK_STATES \in Byte /\ 0 \in Byte /\ p \in Seq(Byte)
  BY <1>10, AgentCountAssumption DEF MessageType, Byte
<1>12. /\ r \in RawReports /\ r # None /\ IsOpenControlReport(r)
       /\ Carries(r, MessageType.TASK_STATES, seq, 0, p) /\ PayloadOf(r) = p
  BY <1>4, <1>11, Written
<1> QED
  BY <1>3, <1>8, <1>10, <1>11, <1>12, Zenon DEF Installs

-----------------------------------------------------------------------------
(***************************************************************************)
(* What the keyboard makes of a report, whatever its bytes.                *)
(***************************************************************************)
LEMMA MessageTypesDiffer ==
  /\ MessageType.HELLO # MessageType.TASK_STATES /\ MessageType.HELLO # MessageType.PING
  /\ MessageType.HELLO # MessageType.ACK /\ MessageType.TASK_STATES # MessageType.PING
  /\ MessageType.TASK_STATES # MessageType.ACK /\ MessageType.PING # MessageType.ACK
  /\ MessageType.HELLO \in Byte /\ MessageType.TASK_STATES \in Byte /\ MessageType.PING \in Byte
BY DEF MessageType, Byte

LEMMA ErrorCodes ==
  /\ ErrorCode.version \in Byte /\ ErrorCode.unknown \in Byte
  /\ ErrorCode.malformed \in Byte /\ ErrorCode.state \in Byte
BY DEF ErrorCode, Byte

\* A report that is answered by its type.
LEMMA ReadByType ==
  ASSUME NEW s, NEW b, NEW q, IsOpenControlReport(q), ~(q[7] > 24), q[4] = Major
  PROVE  /\ q[5] = MessageType.HELLO =>
              ReadReport(s, b, q) = Answer(InputSeen(b), EncodeHelloAck(q[6], s))
         /\ q[5] = MessageType.TASK_STATES =>
              ReadReport(s, b, q) = ReadTaskStates(b, q[6], PayloadOf(q))
         /\ q[5] = MessageType.PING =>
              ReadReport(s, b, q) = Answer(InputSeen(b), EncodeAcknowledgement(q[6], q[5]))
         /\ q[5] = MessageType.ACK => ReadReport(s, b, q) = Answer(InputSeen(b), None)
         /\ q[5] \notin {MessageType.HELLO, MessageType.TASK_STATES, MessageType.PING, MessageType.ACK}
              => ReadReport(s, b, q) = Answer(b, EncodeDeviceError(q[6], ErrorCode.unknown, q[5], 0))
<1> DEFINE answer ==
      CASE q[5] = MessageType.HELLO       -> Answer(InputSeen(b), EncodeHelloAck(q[6], s))
        [] q[5] = MessageType.TASK_STATES -> ReadTaskStates(b, q[6], PayloadOf(q))
        [] q[5] = MessageType.PING        -> Answer(InputSeen(b), EncodeAcknowledgement(q[6], q[5]))
        [] q[5] = MessageType.ACK         -> Answer(InputSeen(b), None)
        [] OTHER -> Answer(b, EncodeDeviceError(q[6], ErrorCode.unknown, q[5], 0))
<1>1. ReadReport(s, b, q) = answer
  <2>1. MaxPayload = 24
    BY DEF MaxPayload, ReportSize, HeaderSize
  <2> QED
    BY <2>1, Zenon DEF ReadReport, PayloadOf
<1>2. CASE q[5] = MessageType.HELLO
  BY <1>1, <1>2, MessageTypesDiffer
<1>3. CASE q[5] = MessageType.TASK_STATES
  BY <1>1, <1>3, MessageTypesDiffer
<1>4. CASE q[5] = MessageType.PING
  BY <1>1, <1>4, MessageTypesDiffer
<1>5. CASE q[5] = MessageType.ACK
  BY <1>1, <1>5, MessageTypesDiffer
<1>6. CASE q[5] \notin {MessageType.HELLO, MessageType.TASK_STATES, MessageType.PING, MessageType.ACK}
  BY <1>1, <1>6
<1> QED
  BY <1>2, <1>3, <1>4, <1>5, <1>6, Zenon

\* A report that is refused before its type is looked at.
LEMMA ReadRefused ==
  ASSUME NEW s, NEW b, NEW q
  PROVE  /\ ~IsOpenControlReport(q) => ReadReport(s, b, q) = Answer(b, None)
         /\ (IsOpenControlReport(q) /\ q[7] > 24) =>
              ReadReport(s, b, q) = Answer(b, EncodeDeviceError(q[6], ErrorCode.malformed, q[5], 32))
         /\ (IsOpenControlReport(q) /\ ~(q[7] > 24) /\ q[4] # Major) =>
              ReadReport(s, b, q) = Answer(b, EncodeDeviceError(q[6], ErrorCode.version, q[5], q[4]))
<1>1. MaxPayload = 24 /\ ReportSize = 32
  BY DEF MaxPayload, ReportSize, HeaderSize
<1> QED
  BY <1>1, Zenon DEF ReadReport

\* The report is an answer that names this type and this number.
Names(r, type, seq) ==
  /\ r \in RawReports /\ IsOpenControlReport(r)
  /\ HostHears(DecodeQmkPacket(r)).kind \in {"ACK", "ERROR"}
  /\ HostHears(DecodeQmkPacket(r)).of = [type |-> type, seq |-> seq]

LEMMA AcknowledgementNames ==
  ASSUME NEW seq \in Byte, NEW type \in Byte
  PROVE  Names(EncodeAcknowledgement(seq, type), type, seq)
<1> DEFINE r == EncodeAcknowledgement(seq, type)
<1> HIDE DEF r
<1>1. /\ r \in RawReports /\ IsOpenControlReport(r)
      /\ HostHears(DecodeQmkPacket(r)) = [kind |-> "ACK", of |-> [type |-> type, seq |-> seq]]
  BY AcknowledgementHeard DEF r
<1> QED
  BY <1>1 DEF Names, r

LEMMA ErrorNames ==
  ASSUME NEW seq \in Byte, NEW code \in Byte, NEW type \in Byte, NEW detail \in Byte
  PROVE  Names(EncodeDeviceError(seq, code, type, detail), type, seq)
<1> DEFINE r == EncodeDeviceError(seq, code, type, detail)
<1> HIDE DEF r
<1>1. /\ r \in RawReports /\ IsOpenControlReport(r)
      /\ HostHears(DecodeQmkPacket(r)) = [kind |-> "ERROR", of |-> [type |-> type, seq |-> seq]]
  BY ErrorHeard DEF r
<1> QED
  BY <1>1 DEF Names, r

LEMMA SeenBoard ==
  ASSUME NEW b \in Boards
  PROVE  InputSeen(b) \in Boards
BY DEF Boards, InputSeen

LEMMA InstalledBoard ==
  ASSUME NEW b \in Boards, NEW selected \in Byte, NEW codes \in [0 .. AgentCount - 1 -> 0 .. 5],
         NEW unread, NEW body, body = [selected |-> selected, codes |-> codes, unread |-> unread]
  PROVE  InstallTaskStates(b, body) \in Boards
<1> DEFINE c == [b EXCEPT !.selected = selected, !.states = codes,
                          !.unread = unread \cap (0 .. AgentCount - 1), !.feedback = TRUE]
<1>1. c \in Boards
  BY DEF Boards, Byte
<1>2. InstallTaskStates(b, body) = InputSeen(c)
  BY DEF InstallTaskStates
<1> HIDE DEF c
<1> QED
  BY <1>1, <1>2 DEF Boards, InputSeen

\* Of a frame, whatever its payload, the keyboard keeps codes it knows and its
\* answer names the frame.
LEMMA FrameAnswered ==
  ASSUME NEW b \in Boards, NEW seq \in Byte, NEW p \in Seq(Byte), Len(p) =< 24
  PROVE  /\ ReadTaskStates(b, seq, p).board \in Boards
         /\ Names(ReadTaskStates(b, seq, p).reply, MessageType.TASK_STATES, seq)
<1> DEFINE wrong == {i \in 0 .. AgentCount - 1 : p[i + 2] > 5}
           type == MessageType.TASK_STATES
           malformed == \/ Len(p) # AgentCount + 2
                        \/ p[1] # SelectedNone /\ p[1] >= AgentCount
           body == [selected |-> p[1], codes |-> [i \in 0 .. AgentCount - 1 |-> p[i + 2]],
                    unread |-> BitsOf(p[AgentCount + 2])]
           answer == ReadTaskStates(b, seq, p)
<1>1. /\ malformed =>
           answer = Answer(b, EncodeDeviceError(seq, ErrorCode.malformed, type, Len(p)))
      /\ (~malformed /\ wrong # {}) =>
           answer = Answer(b, EncodeDeviceError(seq, ErrorCode.state, type, Min(wrong)))
      /\ (~malformed /\ wrong = {}) =>
           answer = Answer(InstallTaskStates(b, body), EncodeAcknowledgement(seq, type))
  BY Zenon DEF ReadTaskStates
<1>2. type \in Byte
  BY MessageTypesDiffer
<1> HIDE DEF answer, type
<1>3. CASE malformed
  <2>1. Len(p) \in Byte
    <3>1. Len(p) \in 0 .. 24
      BY LengthUpTo
    <3>2. \A n \in 0 .. 24 : n \in Byte
      BY DEF Byte
    <3> QED
      BY <3>1, <3>2, Zenon
  <2>2. Names(EncodeDeviceError(seq, ErrorCode.malformed, type, Len(p)), type, seq)
    BY <1>2, <2>1, ErrorCodes, ErrorNames
  <2> QED
    BY <1>1, <1>3, <2>2 DEF Answer, answer, type
<1>4. CASE ~malformed /\ wrong # {}
  <2>1. Min(wrong) \in Byte
    <3> HIDE DEF wrong
    <3>1. wrong \subseteq 0 .. 5
      BY AgentCountAssumption DEF wrong
    <3>2. \E x \in wrong : \A y \in wrong : x =< y
      <4> DEFINE least(x) == x \in wrong /\ \A y \in wrong : x =< y
      <4>1. CASE 0 \in wrong
        BY <3>1, <4>1
      <4>2. CASE 0 \notin wrong /\ 1 \in wrong
        BY <3>1, <4>2
      <4>3. CASE 0 \notin wrong /\ 1 \notin wrong /\ 2 \in wrong
        BY <3>1, <4>3
      <4>4. CASE 0 \notin wrong /\ 1 \notin wrong /\ 2 \notin wrong /\ 3 \in wrong
        BY <3>1, <4>4
      <4>5. CASE 0 \notin wrong /\ 1 \notin wrong /\ 2 \notin wrong /\ 3 \notin wrong /\ 4 \in wrong
        BY <3>1, <4>5
      <4>6. CASE 0 \notin wrong /\ 1 \notin wrong /\ 2 \notin wrong /\ 3 \notin wrong /\ 4 \notin wrong
        <5>1. \A x \in wrong : x = 5
          BY <3>1, <4>6
        <5> QED
          BY <1>4, <5>1 DEF wrong
      <4> QED
        BY <4>1, <4>2, <4>3, <4>4, <4>5, <4>6
    <3>3. Min(wrong) \in wrong
      BY <3>2, Zenon DEF Min
    <3>4. \A n \in 0 .. 5 : n \in Byte
      BY DEF Byte
    <3> QED
      BY <3>1, <3>3, <3>4, Zenon
  <2>2. Names(EncodeDeviceError(seq, ErrorCode.state, type, Min(wrong)), type, seq)
    BY <1>2, <2>1, ErrorCodes, ErrorNames
  <2> QED
    BY <1>1, <1>4, <2>2 DEF Answer, answer, type
<1>5. CASE ~malformed /\ wrong = {}
  <2>1. Len(p) = AgentCount + 2
    BY <1>5
  <2>2. \A i \in 1 .. AgentCount + 2 : p[i] \in Byte
    BY <2>1, ElementOfSeq
  <2>3. p[1] \in Byte
    BY <2>2, AgentCountAssumption
  <2>4. \A i \in 0 .. AgentCount - 1 : p[i + 2] \in 0 .. 5
    <3> SUFFICES ASSUME NEW i \in 0 .. AgentCount - 1
                 PROVE  p[i + 2] \in 0 .. 5
      OBVIOUS
    <3>1. i + 2 \in 1 .. AgentCount + 2
      BY AgentCountAssumption
    <3>2. p[i + 2] \in Byte /\ ~(p[i + 2] > 5)
      BY <1>5, <2>2, <3>1, Zenon
    <3>3. \A n \in Byte : ~(n > 5) => n \in 0 .. 5
      BY DEF Byte
    <3> QED
      BY <3>2, <3>3, Zenon
  <2> DEFINE codes == [i \in 0 .. AgentCount - 1 |-> p[i + 2]]
             selected == p[1]
             unread == BitsOf(p[AgentCount + 2])
  <2>5. codes \in [0 .. AgentCount - 1 -> 0 .. 5]
    BY <2>4
  <2>6. body = [selected |-> selected, codes |-> codes, unread |-> unread] /\ selected \in Byte
    BY <2>3
  <2> HIDE DEF codes, selected, unread, body
  <2>7. InstallTaskStates(b, body) \in Boards
    BY <2>5, <2>6, InstalledBoard
  <2>8. Names(EncodeAcknowledgement(seq, type), type, seq)
    BY <1>2, AcknowledgementNames
  <2>9. answer = Answer(InstallTaskStates(b, body), EncodeAcknowledgement(seq, type))
    BY <1>1, <1>5, Zenon
  <2> QED
    BY <2>7, <2>8, <2>9 DEF Answer, answer, type
<1> QED
  BY <1>3, <1>4, <1>5

LEMMA LongPayload ==
  ASSUME NEW q \in RawReports, IsOpenControlReport(q), ~(q[7] > 24)
  PROVE  /\ PayloadOf(q) \in Seq(Byte) /\ Len(PayloadOf(q)) =< 24
         /\ DecodeQmkPacket(q) # None
         /\ DecodeQmkPacket(q) = [major |-> q[4], type |-> q[5], seq |-> q[6], flags |-> q[8],
                                  payload |-> PayloadOf(q)]
<1>1. q[7] =< 24
  <2>1. q[7] \in Byte
    BY ReportIsSequence
  <2> QED
    BY <2>1 DEF Byte
<1>2. PayloadOf(q) = SubSeq(q, 9, 8 + q[7])
  BY DEF PayloadOf, HeaderSize
<1> QED
  BY <1>1, <1>2, DecodedPacket

\* Whatever the bytes of a report, the board stays one and a frame or a ping is
\* answered by its type and its number.
LEMMA BoardAnswers ==
  ASSUME NEW s \in Builds, NEW b \in Boards, NEW q \in RawReports
  PROVE  /\ ReadReport(s, b, q).board \in Boards
         /\ ReadReport(s, b, q).reply \in RawReports \cup {None}
         /\ (IsOpenControlReport(q) /\ q[5] \in {MessageType.PING, MessageType.TASK_STATES})
              => Names(ReadReport(s, b, q).reply, q[5], q[6])
<1> DEFINE answer == ReadReport(s, b, q)
           type == q[5]
           seq == q[6]
           version == q[4]
           long == q[7] > 24
           ours == IsOpenControlReport(q)
<1>1. type \in Byte /\ seq \in Byte /\ version \in Byte
  BY ReportIsSequence
<1>2. /\ ~ours => answer = Answer(b, None)
      /\ (ours /\ long) => answer = Answer(b, EncodeDeviceError(seq, ErrorCode.malformed, type, 32))
      /\ (ours /\ ~long /\ version # Major) =>
           answer = Answer(b, EncodeDeviceError(seq, ErrorCode.version, type, version))
  BY ReadRefused, Zenon
<1>3. (ours /\ ~long /\ version = Major) =>
        /\ type = MessageType.HELLO => answer = Answer(InputSeen(b), EncodeHelloAck(seq, s))
        /\ type = MessageType.TASK_STATES => answer = ReadTaskStates(b, seq, PayloadOf(q))
        /\ type = MessageType.PING => answer = Answer(InputSeen(b), EncodeAcknowledgement(seq, type))
        /\ type = MessageType.ACK => answer = Answer(InputSeen(b), None)
        /\ type \notin {MessageType.HELLO, MessageType.TASK_STATES, MessageType.PING, MessageType.ACK}
             => answer = Answer(b, EncodeDeviceError(seq, ErrorCode.unknown, type, 0))
  BY ReadByType, Zenon
<1>4. (ours /\ ~long) => PayloadOf(q) \in Seq(Byte) /\ Len(PayloadOf(q)) =< 24
  BY LongPayload, Zenon
<1> DEFINE payload == PayloadOf(q)
<1> HIDE DEF answer, type, seq, version, long, payload
<1> SUFFICES /\ answer.board \in Boards /\ answer.reply \in RawReports \cup {None}
             /\ (ours /\ type \in {MessageType.PING, MessageType.TASK_STATES})
                  => Names(answer.reply, type, seq)
  BY Zenon DEF answer, type, seq
<1>5. CASE ~ours
  BY <1>2, <1>5 DEF Answer
<1> DEFINE named == answer.board \in Boards /\ Names(answer.reply, type, seq)
<1>6. ASSUME ours, NEW code \in Byte, NEW detail \in Byte,
             answer = Answer(b, EncodeDeviceError(seq, code, type, detail))
      PROVE  named
  <2>1. Names(EncodeDeviceError(seq, code, type, detail), type, seq)
    BY <1>1, ErrorNames
  <2> QED
    BY <1>6, <2>1 DEF Answer
<1>7. named => answer.board \in Boards /\ answer.reply \in RawReports
  BY DEF Names
<1>8. 32 \in Byte /\ 0 \in Byte
  BY DEF Byte
<1>9. CASE ours /\ (long \/ version # Major)
  <2>1. named
    BY <1>1, <1>2, <1>6, <1>8, <1>9, ErrorCodes, Zenon
  <2> QED
    BY <1>7, <2>1
<1>10. CASE ours /\ ~long /\ version = Major
  <2>1. CASE type = MessageType.HELLO
    <3>1. answer = Answer(InputSeen(b), EncodeHelloAck(seq, s))
      BY <1>3, <1>10, <2>1, Zenon
    <3>2. EncodeHelloAck(seq, s) \in RawReports
      BY <1>1, HandshakeHeard
    <3> QED
      BY <2>1, <3>1, <3>2, SeenBoard, MessageTypesDiffer DEF Answer
  <2>2. CASE type = MessageType.TASK_STATES
    <3>1. answer = ReadTaskStates(b, seq, payload) /\ payload \in Seq(Byte) /\ Len(payload) =< 24
      BY <1>3, <1>4, <1>10, <2>2, Zenon DEF payload
    <3>2. answer.board \in Boards /\ Names(answer.reply, MessageType.TASK_STATES, seq)
      BY <1>1, <3>1, FrameAnswered
    <3>3. named
      BY <2>2, <3>2
    <3> QED
      BY <1>7, <3>3
  <2>3. CASE type = MessageType.PING
    <3>1. answer = Answer(InputSeen(b), EncodeAcknowledgement(seq, type))
      BY <1>3, <1>10, <2>3, Zenon
    <3>2. Names(EncodeAcknowledgement(seq, type), type, seq)
      BY <1>1, AcknowledgementNames
    <3>3. named
      BY <3>1, <3>2, SeenBoard DEF Answer
    <3> QED
      BY <1>7, <3>3
  <2>4. CASE type = MessageType.ACK
    <3>1. answer = Answer(InputSeen(b), None)
      BY <1>3, <1>10, <2>4, Zenon
    <3> QED
      BY <2>4, <3>1, SeenBoard, MessageTypesDiffer DEF Answer
  <2>5. CASE type \notin {MessageType.HELLO, MessageType.TASK_STATES, MessageType.PING, MessageType.ACK}
    <3>1. answer = Answer(b, EncodeDeviceError(seq, ErrorCode.unknown, type, 0))
      BY <1>3, <1>10, <2>5, Zenon
    <3>2. named
      BY <1>6, <1>8, <1>10, <3>1, ErrorCodes, Zenon
    <3> QED
      BY <1>7, <3>2
  <2> QED
    BY <2>1, <2>2, <2>3, <2>4, <2>5, Zenon
<1> QED
  BY <1>5, <1>9, <1>10

\* What the host's decoder makes of a payload, and what the keyboard makes of
\* it, are the same frame or the same refusal.
LEMMA SameFrame ==
  ASSUME NEW b \in Boards, NEW seq \in Byte, NEW p \in Seq(Byte), NEW packet,
         packet # None, packet.type = MessageType.TASK_STATES, packet.payload = p
  PROVE  ReadTaskStates(b, seq, p).board =
           IF DecodeTaskStates(packet) = None THEN b
           ELSE InstallTaskStates(b, EncodeTaskStates(DecodeTaskStates(packet)))
<1> DEFINE wrong == {i \in 0 .. AgentCount - 1 : p[i + 2] > 5}
           unknown == \E a \in Agents : DecodeTaskState(p[a + 1]) = None
           selected == IF p[1] = SelectedNone THEN None ELSE p[1] + 1
           states == [a \in Agents |-> DecodeTaskState(p[a + 1])]
           unread == {a \in Agents : Bit(p[AgentCount + 2], a - 1)}
           frame == [selected |-> selected, states |-> states, unread |-> unread]
           codes == [i \in 0 .. AgentCount - 1 |-> p[i + 2]]
           bits == BitsOf(p[AgentCount + 2])
           misplaced == p[1] # SelectedNone /\ p[1] >= AgentCount
           short == Len(p) # AgentCount + 2
           body == [selected |-> p[1], codes |-> codes, unread |-> bits]
           answer == ReadTaskStates(b, seq, p)
           decoded == DecodeTaskStates(packet)
<1>1. decoded = IF short \/ misplaced \/ unknown THEN None ELSE frame
  BY Zenon DEF DecodeTaskStates, Holds
<1>2. answer.board = IF short \/ misplaced \/ wrong # {} THEN b ELSE InstallTaskStates(b, body)
  <2>1. /\ (short \/ misplaced) => \E r : answer = Answer(b, r)
        /\ (~short /\ ~misplaced /\ wrong # {}) => \E r : answer = Answer(b, r)
        /\ (~short /\ ~misplaced /\ wrong = {}) =>
             \E r : answer = Answer(InstallTaskStates(b, body), r)
    BY Zenon DEF ReadTaskStates
  <2>2. \A c, r : answer = Answer(c, r) => answer.board = c
    BY DEF Answer
  <2> HIDE DEF answer, body, wrong, short, misplaced
  <2> QED
    BY <2>1, <2>2, Zenon
<1>3. CASE short \/ misplaced
  BY <1>1, <1>2, <1>3, Zenon
<1>4. CASE ~short /\ ~misplaced
  <2>1. \A i \in 1 .. AgentCount + 2 : p[i] \in Byte
    BY <1>4, ElementOfSeq
  <2>2. /\ \A i \in 0 .. AgentCount - 1 : i + 1 \in Agents /\ p[i + 2] = p[(i + 1) + 1]
        /\ \A a \in Agents : a - 1 \in 0 .. AgentCount - 1 /\ p[(a - 1) + 2] = p[a + 1]
        /\ \A a \in Agents : a + 1 \in 1 .. AgentCount + 2
    <3>1. /\ \A i \in 0 .. AgentCount - 1 : i + 1 \in Agents /\ i + 2 = (i + 1) + 1
          /\ \A a \in Agents : a - 1 \in 0 .. AgentCount - 1 /\ (a - 1) + 2 = a + 1
          /\ \A a \in Agents : a + 1 \in 1 .. AgentCount + 2
      BY AgentCountAssumption DEF Agents
    <3> QED
      BY <3>1, Zenon
  <2>3. \A a \in Agents : DecodeTaskState(p[a + 1]) = None <=> p[a + 1] > 5
    BY <2>1, <2>2, StateReadBack, Zenon
  <2>4. unknown <=> wrong # {}
    BY <2>2, <2>3, Zenon
  <2>5. CASE unknown
    BY <1>1, <1>2, <2>4, <2>5, Zenon
  <2>6. CASE ~unknown
    <3>1. p[1] \in Byte /\ (p[1] = SelectedNone \/ p[1] < AgentCount)
      <4>1. p[1] \in Byte
        BY <2>1, AgentCountAssumption
      <4>2. \A x \in Byte : ~(x # SelectedNone /\ x >= AgentCount) => x = SelectedNone \/ x < AgentCount
        BY AgentCountAssumption DEF Byte
      <4> QED
        BY <1>4, <4>1, <4>2, Zenon
    <3>2. selected \in Agents \cup {None}
      <4>1. \A x \in Byte : x < AgentCount => x + 1 \in Agents
        BY AgentCountAssumption DEF Byte, Agents
      <4> QED
        BY <3>1, <4>1, Zenon
    <3>3. (IF selected = None THEN SelectedNone ELSE selected - 1) = p[1]
      <4>1. CASE p[1] = SelectedNone
        BY <4>1, Zenon
      <4>2. CASE p[1] # SelectedNone
        <5>1. \A x \in Byte : x < AgentCount => x + 1 \in Agents /\ (x + 1) - 1 = x
          BY AgentCountAssumption DEF Byte, Agents
        <5>2. selected = p[1] + 1 /\ p[1] + 1 # None
          BY <3>1, <4>2, <5>1, NoneIsNoReport, Zenon
        <5> QED
          BY <3>1, <4>2, <5>1, <5>2, Zenon
      <4> QED
        BY <4>1, <4>2
    <3>4. \A a \in Agents : states[a] \in FeedbackStates /\ StateCode[states[a]] = p[a + 1]
      <4>1. \A x \in Byte : ~(x > 5) => x =< 5
        BY DEF Byte
      <4> QED
        BY <2>1, <2>2, <2>3, <2>6, <4>1, StateReadBack, Zenon
    <3>5. frame # None
      <4>1. frame \in [selected : Agents \cup {None}, states : [Agents -> FeedbackStates],
                       unread : SUBSET Agents]
        <5>1. states \in [Agents -> FeedbackStates] /\ unread \in SUBSET Agents
          BY <3>4
        <5> HIDE DEF states, unread, selected
        <5> QED
          BY <3>2, <5>1
      <4> QED
        BY <4>1, NoneIsNoReport DEF Decoded
    <3>6. [i \in 0 .. AgentCount - 1 |-> StateCode[states[i + 1]]] = codes
      BY <2>2, <3>4, Zenon
    <3>7. bits \cap (0 .. AgentCount - 1) = {a - 1 : a \in unread}
      <4>1. /\ \A i \in 0 .. AgentCount - 1 : i + 1 \in Agents /\ (i + 1) - 1 = i /\ i \in 0 .. 7
            /\ \A a \in Agents : a - 1 \in 0 .. AgentCount - 1 /\ a - 1 \in 0 .. 7
        BY AgentCountAssumption DEF Agents
      <4>2. \A i : i \in bits \cap (0 .. AgentCount - 1) => i \in {a - 1 : a \in unread}
        BY <4>1, Zenon DEF BitsOf
      <4>3. \A i : i \in {a - 1 : a \in unread} => i \in bits \cap (0 .. AgentCount - 1)
        BY <4>1, Zenon DEF BitsOf
      <4> QED
        BY <4>2, <4>3, Zenon
    <3>8. EncodeTaskStates(frame) = [selected |-> p[1], codes |-> codes, unread |-> {a - 1 : a \in unread}]
      <4> HIDE DEF selected, states, unread, codes
      <4> QED
        BY <3>3, <3>6 DEF EncodeTaskStates
    <3> DEFINE kept == {a - 1 : a \in unread}
    <3>9. kept \subseteq 0 .. AgentCount - 1
      BY <3>7
    <3>10. InstallTaskStates(b, body) = InstallTaskStates(b, EncodeTaskStates(frame))
      <4> HIDE DEF selected, states, unread, codes, bits, frame
      <4>1. kept \cap (0 .. AgentCount - 1) = bits \cap (0 .. AgentCount - 1)
        BY <3>7, <3>9
      <4>2. EncodeTaskStates(frame) = [selected |-> p[1], codes |-> codes, unread |-> kept]
        BY <3>8
      <4> HIDE DEF kept
      <4>3. /\ EncodeTaskStates(frame).selected = body.selected
            /\ EncodeTaskStates(frame).codes = body.codes
            /\ EncodeTaskStates(frame).unread \cap (0 .. AgentCount - 1)
                 = body.unread \cap (0 .. AgentCount - 1)
        BY <4>1, <4>2
      <4> HIDE DEF body
      <4> QED
        BY <4>3, Zenon DEF InstallTaskStates
    <3> QED
      BY <1>1, <1>2, <1>4, <2>4, <2>6, <3>5, <3>10, Zenon
  <2> QED
    BY <2>5, <2>6
<1> QED
  BY <1>3, <1>4

LEMMA TwinsRead ==
  ASSUME NEW s, NEW b \in Boards, NEW q \in RawReports,
         IsOpenControlReport(q), q[4] = Major, q[5] = MessageType.TASK_STATES
  PROVE  LET frame == DecodeTaskStates(DecodeQmkPacket(q)) IN
         ReadReport(s, b, q).board = IF frame = None THEN b ELSE InstallTaskStates(b, EncodeTaskStates(frame))
<1>1. CASE q[7] > 24
  <2>1. DecodeTaskStates(DecodeQmkPacket(q)) = None
    BY <1>1, UndecodedPacket DEF DecodeTaskStates, Holds
  <2>2. ReadReport(s, b, q).board = b
    BY <1>1, ReadRefused DEF Answer
  <2> QED
    BY <2>1, <2>2
<1>2. CASE ~(q[7] > 24)
  <2> DEFINE packet == DecodeQmkPacket(q)
             p == PayloadOf(q)
  <2>1. /\ p \in Seq(Byte) /\ packet # None
        /\ packet.type = MessageType.TASK_STATES /\ packet.payload = p
    BY <1>2, LongPayload
  <2>2. q[6] \in Byte
    BY ReportIsSequence
  <2>3. ReadReport(s, b, q) = ReadTaskStates(b, q[6], p)
    BY <1>2, ReadByType, Zenon
  <2> HIDE DEF packet, p
  <2>4. ReadTaskStates(b, q[6], p).board =
          IF DecodeTaskStates(packet) = None THEN b
          ELSE InstallTaskStates(b, EncodeTaskStates(DecodeTaskStates(packet)))
    BY <2>1, <2>2, SameFrame
  <2> QED
    BY <2>3, <2>4 DEF packet
<1> QED
  BY <1>1, <1>2

-----------------------------------------------------------------------------
(***************************************************************************)
(* An exchange: what is meant, what is said of it, and what may have       *)
(* happened to the report on its way.                                      *)
(***************************************************************************)
OfHost(m) ==
  \E message \in Sayable, seq \in Byte :
    m = [kind |-> message.kind, seq |-> seq, message |-> message]

OfKeyboard(m) ==
  \E code \in FunctionKeys, phase \in DOMAIN PhaseCode, seq \in Byte, origin \in Places :
    /\ ControlForKeycode(code) # ControlNone
    /\ m = [kind |-> "CONTROL_EVENT", seq |-> seq, code |-> code, phase |-> phase, origin |-> origin]

Said(m) == HostEncode(m.message, m.seq)

KeyReport(m, active) == EncodeControlEvent(m.seq, ControlForKeycode(m.code), m.phase, m.origin, active)

\* The bytes damaged on the way to an end, and two reports that differ there at most.
Hurt(d, end) == {e.byte : e \in {x \in d : x.to = end}}

Alike(r, w, hurt) ==
  r \in RawReports /\ w \in RawReports /\ \A i \in 1 .. 32 : i \notin hurt => r[i] = w[i]

LEMMA OfHostFields ==
  ASSUME NEW m, OfHost(m)
  PROVE  /\ m.kind \in {"HELLO", "PING", "TASK_STATES"} /\ m.seq \in Byte
         /\ m.message.kind = m.kind
         /\ m.kind = "PING" => m.message.opaque \in [1 .. 4 -> Byte]
         /\ m.kind = "TASK_STATES" =>
              /\ m.message.frame.selected \in Agents \cup {None}
              /\ m.message.frame.slots \in Seq(Slots)
<1>1. PICK message \in Sayable, seq \in Byte :
         m = [kind |-> message.kind, seq |-> seq, message |-> message]
  BY DEF OfHost
<1>2. m.kind = message.kind /\ m.seq = seq /\ m.message = message
  BY <1>1
<1>3. CASE message \in [kind : {"HELLO"}]
  BY <1>2, <1>3
<1>4. CASE message \in [kind : {"PING"}, opaque : [1 .. 4 -> Byte]]
  BY <1>2, <1>4
<1>5. CASE message \in [kind : {"TASK_STATES"}, frame : [selected : Agents \cup {None}, slots : Seq(Slots)]]
  BY <1>2, <1>5
<1> QED
  BY <1>3, <1>4, <1>5, Zenon DEF Sayable, Slots

\* Everything but a wrong list is sent.
LEMMA SaidIsSent ==
  ASSUME NEW m, OfHost(m), NEW q, q = Said(m)
  PROVE  /\ m.kind = "TASK_STATES" => (q = None <=> NormalizeFeedback(m.message.frame.slots) = None)
         /\ m.kind # "TASK_STATES" => q # None
         /\ m.kind = "HELLO" => q = EncodeHello(m.seq, 0)
         /\ m.kind = "PING" => q = EncodePing(m.seq, m.message.opaque)
         /\ m.kind = "TASK_STATES" => q = EncodeTaskStatesReport(m.seq, m.message.frame)
         /\ q # None => /\ q \in RawReports /\ IsOpenControlReport(q)
                        /\ \E p \in Seq(Byte) : /\ Len(p) =< 24
                                                /\ Carries(q, MessageType[m.kind], m.seq, 0, p)
<1>1. /\ m.kind \in {"HELLO", "PING", "TASK_STATES"} /\ m.seq \in Byte
      /\ m.message.kind = m.kind
      /\ m.kind = "PING" => m.message.opaque \in [1 .. 4 -> Byte]
      /\ m.kind = "TASK_STATES" =>
           /\ m.message.frame.selected \in Agents \cup {None}
           /\ m.message.frame.slots \in Seq(Slots)
  BY OfHostFields, Zenon
<1>2. 0 \in Byte /\ MessageType.HELLO \in Byte /\ MessageType.PING \in Byte
  BY MessageTypesDiffer DEF Byte
<1>3. CASE m.kind = "HELLO"
  <2>1. q = EncodeHello(m.seq, 0)
    BY <1>1, <1>3 DEF Said, HostEncode
  <2> DEFINE p == <<0>>
  <2>2. p \in Seq(Byte) /\ Len(p) =< 24
    BY DEF Byte
  <2>3. q = EncodeQmkPacket(MessageType.HELLO, m.seq, 0, p)
    BY <2>1 DEF EncodeHello
  <2> HIDE DEF p
  <2>4. /\ q \in RawReports /\ q # None /\ IsOpenControlReport(q)
        /\ Carries(q, MessageType.HELLO, m.seq, 0, p)
    BY <1>1, <1>2, <2>2, <2>3, Written
  <2> QED
    BY <1>3, <2>1, <2>2, <2>4
<1>4. CASE m.kind = "PING"
  <2> DEFINE p == m.message.opaque
  <2>1. q = EncodePing(m.seq, p)
    BY <1>1, <1>4 DEF Said, HostEncode
  <2>2. p \in Seq(Byte) /\ Len(p) =< 24
    <3>1. p \in [1 .. 4 -> Byte] /\ 4 \in Nat
      BY <1>1, <1>4
    <3> HIDE DEF p
    <3>2. p \in Seq(Byte) /\ Len(p) = 4
      BY <3>1, FunctionIsSequence
    <3> QED
      BY <3>2
  <2> HIDE DEF p
  <2>3. q = EncodeQmkPacket(MessageType.PING, m.seq, 0, p)
    BY <2>1 DEF EncodePing
  <2>4. /\ q \in RawReports /\ q # None /\ IsOpenControlReport(q)
        /\ Carries(q, MessageType.PING, m.seq, 0, p)
    BY <1>1, <1>2, <2>2, <2>3, Written
  <2> QED
    BY <1>4, <2>1, <2>2, <2>4 DEF p
<1>5. CASE m.kind = "TASK_STATES"
  <2> DEFINE frame == m.message.frame
  <2>1. q = EncodeTaskStatesReport(m.seq, frame)
    BY <1>1, <1>5 DEF Said, HostEncode
  <2>2. frame.selected \in Agents \cup {None} /\ frame.slots \in Seq(Slots)
    BY <1>1, <1>5
  <2> HIDE DEF frame
  <2>3. CASE NormalizeFeedback(frame.slots) = None
    <3>1. q = None
      BY <2>1, <2>3 DEF EncodeTaskStatesReport
    <3> QED
      BY <1>5, <2>1, <2>3, <3>1 DEF frame
  <2>4. CASE NormalizeFeedback(frame.slots) # None
    <3> DEFINE p == PayloadOf(q)
    <3>1. /\ q \in RawReports /\ q # None /\ IsOpenControlReport(q)
          /\ Carries(q, MessageType.TASK_STATES, m.seq, 0, p) /\ Len(p) =< 24
      BY <1>1, <2>1, <2>2, <2>4, FrameOnTheWire
    <3>2. ~(q[7] > 24)
      <4>1. q[7] = Len(p)
        BY <3>1 DEF Carries
      <4>2. q[7] \in Byte
        <5>1. q \in RawReports /\ 7 \in 1 .. 32
          BY <3>1
        <5> QED
          BY <5>1, ReportIsSequence, Zenon
      <4> QED
        BY <3>1, <4>1, <4>2 DEF Byte
    <3>3. p \in Seq(Byte)
      BY <3>1, <3>2, LongPayload
    <3> HIDE DEF p
    <3> QED
      BY <1>5, <2>1, <2>4, <3>1, <3>3 DEF frame
  <2> QED
    BY <2>3, <2>4
<1> QED
  BY <1>1, <1>3, <1>4, <1>5

\* What the keyboard's answer is worth, by the bytes damaged on the way to it.
Expected(s, m) ==
  IF m.kind = "HELLO" THEN EncodeHelloAck(m.seq, s)
  ELSE EncodeAcknowledgement(m.seq, MessageType[m.kind])

Header == {1, 2, 3, 5, 6}

RightAnswer(s, m, r, hurt) ==
  /\ r \in RawReports
  /\ (m.kind \in {"PING", "TASK_STATES"} /\ hurt \cap Header = {})
       => Names(r, MessageType[m.kind], m.seq)
  /\ hurt = {} => r = Expected(s, m)

LEMMA MeantIsRead ==
  ASSUME NEW s, NEW b, NEW m, OfHost(m), NEW q, q = Said(m), q # None
  PROVE  /\ ReadReport(s, b, q).reply = Expected(s, m)
         /\ m.kind = "TASK_STATES" =>
              ReadReport(s, b, q).board = InstallTaskStates(b, Vector(m.message.frame))
<1>1. m.kind \in {"HELLO", "PING", "TASK_STATES"} /\ m.seq \in Byte
  BY OfHostFields, Zenon
<1>2. PICK p \in Seq(Byte) : Len(p) =< 24 /\ Carries(q, MessageType[m.kind], m.seq, 0, p)
  BY SaidIsSent, Zenon
<1>3. /\ IsOpenControlReport(q) /\ q[4] = Major /\ q[5] = MessageType[m.kind] /\ q[6] = m.seq
      /\ q[7] = Len(p)
  BY <1>2, SaidIsSent, Zenon DEF Carries
<1>4. ~(q[7] > 24)
  <2>1. Len(p) \in 0 .. 24
    BY <1>2, LengthUpTo
  <2>2. \A n \in 0 .. 24 : ~(n > 24)
    OBVIOUS
  <2> QED
    BY <1>3, <2>1, <2>2, Zenon
<1>5. CASE m.kind = "HELLO"
  <2>1. q[5] = MessageType.HELLO
    BY <1>3, <1>5
  <2>2. ReadReport(s, b, q) = Answer(InputSeen(b), EncodeHelloAck(m.seq, s))
    <3>1. ReadReport(s, b, q) = Answer(InputSeen(b), EncodeHelloAck(q[6], s))
      BY <1>3, <1>4, <2>1, ReadByType
    <3> QED
      BY <1>3, <3>1, Zenon
  <2> QED
    BY <1>5, <2>2 DEF Answer, Expected
<1>6. CASE m.kind = "PING"
  <2>1. q[5] = MessageType.PING
    BY <1>3, <1>6
  <2>2. ReadReport(s, b, q) = Answer(InputSeen(b), EncodeAcknowledgement(m.seq, q[5]))
    BY <1>3, <1>4, <2>1, ReadByType, Zenon
  <2> QED
    BY <1>3, <1>6, <2>2 DEF Answer, Expected
<1>7. CASE m.kind = "TASK_STATES"
  <2> DEFINE frame == m.message.frame
  <2>1. q[5] = MessageType.TASK_STATES
    BY <1>3, <1>7
  <2>2. ReadReport(s, b, q) = ReadTaskStates(b, m.seq, PayloadOf(q))
    BY <1>3, <1>4, <2>1, ReadByType, Zenon
  <2>3. frame.selected \in Agents \cup {None} /\ frame.slots \in Seq(Slots)
    BY <1>7, OfHostFields, Zenon
  <2>4. q = EncodeTaskStatesReport(m.seq, frame) /\ NormalizeFeedback(frame.slots) # None
    BY <1>7, SaidIsSent, Zenon
  <2> HIDE DEF frame
  <2>5. ReadTaskStates(b, m.seq, PayloadOf(q)) =
          Answer(InstallTaskStates(b, Vector(frame)),
                 EncodeAcknowledgement(m.seq, MessageType.TASK_STATES))
    BY <1>1, <2>3, <2>4, FrameOnTheWire
  <2> QED
    BY <1>7, <2>2, <2>5 DEF Answer, Expected, frame
<1> QED
  BY <1>1, <1>5, <1>6, <1>7

LEMMA AlikeIsEqual ==
  ASSUME NEW r, NEW w, Alike(r, w, {})
  PROVE  w = r
<1>1. r \in [1 .. 32 -> Byte] /\ w \in [1 .. 32 -> Byte] /\ \A i \in 1 .. 32 : r[i] = w[i]
  BY DEF Alike, RawReports, ReportSize
<1> QED
  BY <1>1

\* The keyboard's answer to whatever arrives of what was said.
LEMMA HostAsks ==
  ASSUME NEW s \in Builds, NEW b \in Boards, NEW m, OfHost(m), NEW hurt,
         Said(m) # None, NEW q, Alike(Said(m), q, hurt),
         NEW r, r = ReadReport(s, b, q).reply
  PROVE  /\ r # None => RightAnswer(s, m, r, hurt)
         /\ (hurt = {} /\ m.kind = "TASK_STATES") =>
              ReadReport(s, b, q).board = InstallTaskStates(b, Vector(m.message.frame))
<1> DEFINE said == Said(m)
<1>1. q \in RawReports /\ said \in RawReports /\ \A i \in 1 .. 32 : i \notin hurt => said[i] = q[i]
  BY DEF Alike
<1>2. r \in RawReports \cup {None}
  BY <1>1, BoardAnswers
<1>3. ASSUME hurt = {}
      PROVE  /\ r = Expected(s, m)
             /\ m.kind = "TASK_STATES" =>
                  ReadReport(s, b, q).board = InstallTaskStates(b, Vector(m.message.frame))
  <2>1. q = said
    BY <1>3, AlikeIsEqual
  <2> QED
    BY <2>1, MeantIsRead, Zenon
<1>4. ASSUME m.kind \in {"PING", "TASK_STATES"}, hurt \cap Header = {}
      PROVE  Names(r, MessageType[m.kind], m.seq)
  <2>1. q[1] = said[1] /\ q[2] = said[2] /\ q[3] = said[3] /\ q[5] = said[5] /\ q[6] = said[6]
    <3>1. \A i \in Header : i \in 1 .. 32 /\ i \notin hurt
      BY <1>4 DEF Header
    <3>2. \A i \in Header : said[i] = q[i]
      BY <1>1, <3>1, Zenon
    <3> QED
      BY <3>2, Zenon DEF Header
  <2>2. PICK p \in Seq(Byte) : Carries(said, MessageType[m.kind], m.seq, 0, p)
    BY SaidIsSent, Zenon
  <2>3. /\ said[1] = 224 /\ said[2] = 79 /\ said[3] = 67
        /\ said[5] = MessageType[m.kind] /\ said[6] = m.seq
    BY <2>2 DEF Carries
  <2>4. IsOpenControlReport(q)
    BY <1>1, <2>1, <2>3, Namespace
  <2>5. MessageType[m.kind] \in {MessageType.PING, MessageType.TASK_STATES}
    BY <1>4
  <2> HIDE DEF said
  <2>6. /\ q[5] = MessageType[m.kind] /\ q[6] = m.seq
        /\ q[5] \in {MessageType.PING, MessageType.TASK_STATES}
    BY <2>1, <2>3, <2>5, Zenon
  <2>7. Names(r, q[5], q[6])
    BY <1>1, <2>4, <2>6, BoardAnswers, Zenon
  <2> QED
    BY <2>6, <2>7, Zenon
<1> QED
  BY <1>2, <1>3, <1>4, Zenon DEF RightAnswer

-----------------------------------------------------------------------------
(***************************************************************************)
(* What the host hears.                                                    *)
(***************************************************************************)
LEMMA HandedOver ==
  ASSUME NEW w \in RawReports, NEW data \in {w, << 0 >> \o w}
  PROVE  NormalizeNodeHidReport(data) = w
<1>1. w \in Seq(Byte) /\ Len(w) = 32
  BY ReportIsSequence
<1>2. <<0>> \in Seq(Byte) /\ Len(<<0>>) = 1 /\ <<0>>[1] = 0
  BY DEF Byte
<1>3. CASE data = w
  <2>1. 32 # 32 + 1
    OBVIOUS
  <2>2. Len(data) = 32
    BY <1>1, <1>3, Zenon
  <2>3. Len(data) = ReportSize /\ Len(data) # ReportSize + 1
    BY <2>1, <2>2, Zenon DEF ReportSize
  <2> QED
    BY <1>3, <2>3, Zenon DEF NormalizeNodeHidReport
<1>4. CASE data = <<0>> \o w
  <2> DEFINE u == <<0>>
  <2> HIDE DEF u
  <2>1. /\ u \o w \in Seq(Byte) /\ Len(u \o w) = Len(u) + Len(w)
        /\ \A i \in 1 .. Len(u) + Len(w) : (u \o w)[i] = IF i =< Len(u) THEN u[i] ELSE w[i - Len(u)]
    BY <1>1, <1>2, ConcatProperties DEF u
  <2>2. data = u \o w
    BY <1>4 DEF u
  <2>3. Len(u) + Len(w) = 33 /\ Len(u) = 1 /\ u[1] = 0
    BY <1>1, <1>2 DEF u
  <2>4. /\ data \in Seq(Byte) /\ Len(data) = 33
        /\ \A i \in 1 .. 33 : data[i] = IF i =< 1 THEN u[i] ELSE w[i - 1]
    BY <2>1, <2>2, <2>3, Zenon
  <2>5. data[1] = 0
    <3>1. 1 \in 1 .. 33 /\ 1 =< 1
      OBVIOUS
    <3> QED
      BY <2>3, <2>4, <3>1, Zenon
  <2>6. Tail(data) \in Seq(Byte) /\ Len(Tail(data)) = 32 /\ \A i \in 1 .. 32 : Tail(data)[i] = data[i + 1]
    <3>1. data \in Seq(Byte) /\ Len(data) = 33
      BY <2>4
    <3>2. data # <<>>
      <4>1. 33 # 0
        OBVIOUS
      <4> QED
        BY <3>1, <4>1, EmptySeq, Zenon
    <3>3. /\ Tail(data) \in Seq(Byte) /\ Len(Tail(data)) = Len(data) - 1
          /\ \A i \in 1 .. Len(data) - 1 : Tail(data)[i] = data[i + 1]
      BY <3>1, <3>2, HeadTailProperties
    <3>4. Len(data) - 1 = 32
      BY <3>1
    <3> QED
      BY <3>3, <3>4, Zenon
  <2>7. \A i \in 1 .. 32 : i + 1 \in 1 .. 33 /\ ~(i + 1 =< 1) /\ (i + 1) - 1 = i
    OBVIOUS
  <2>8. \A i \in 1 .. 32 : Tail(data)[i] = w[i]
    BY <2>4, <2>6, <2>7, Zenon
  <2> DEFINE rest == Tail(data)
  <2> HIDE DEF rest
  <2>9. rest = w
    <3>1. /\ rest \in Seq(Byte) /\ Len(rest) = Len(w) /\ w \in Seq(Byte)
          /\ \A i \in 1 .. Len(rest) : rest[i] = w[i]
      BY <1>1, <2>6, <2>8, Zenon DEF rest
    <3> QED
      BY <3>1, SeqEqual
  <2>10. Len(data) # ReportSize /\ Len(data) = ReportSize + 1
    BY <2>4 DEF ReportSize
  <2> QED
    BY <2>5, <2>9, <2>10, Zenon DEF NormalizeNodeHidReport, rest
<1> QED
  BY <1>3, <1>4

\* What the host hears of a report that is handed over.
HearsOf(s, m, w) ==
  IF ~IsOpenControlReport(w) THEN Ignored
  ELSE IF m.kind = "HELLO" THEN ProbeHears(s, m.seq, DecodeQmkPacket(w))
  ELSE HostHears(DecodeQmkPacket(w))

LEMMA HearsReport ==
  ASSUME NEW w \in RawReports, NEW data \in {w, << 0 >> \o w}
  PROVE  Hears(data) = HearsOf(setup, meant, w)
<1>1. NormalizeNodeHidReport(data) = w
  BY HandedOver
<1>2. w # None
  BY NoneIsNoReport
<1> QED
  BY <1>1, <1>2, Zenon DEF Hears, HearsOf

\* What may be said of the thing heard, by the damage done in the exchange.
AsMeant(s, m, h) ==
  CASE m.kind = "CONTROL_EVENT" ->
         h = [kind  |-> "control",
              event |-> [control |-> CONTROL_IDS[KeycodeNumber(m.code)],
                         phase |-> m.phase, origin |-> m.origin, layer |-> s.layer]]
    [] m.kind = "HELLO" ->
         /\ h.kind = "connection"
         /\ h.pressRelease /\ h.usb /\ h.slots = AgentCount
         /\ h.rgb = s.rgb /\ h.encoder = s.encoder
    [] OTHER -> h = [kind |-> "ACK", of |-> [type |-> MessageType[m.kind], seq |-> m.seq]]

Unhurt(d) == \A x \in d : x.to = "board" /\ x.byte \notin Header

NamesFrame(m, h) ==
  h.kind \in {"ACK", "ERROR"} /\ h.of = [type |-> MessageType[m.kind], seq |-> m.seq]

HeardWell(s, m, h, d) ==
  /\ d = {} => AsMeant(s, m, h)
  /\ (m.kind \in {"PING", "TASK_STATES"} /\ Unhurt(d)) => NamesFrame(m, h)
  /\ (d = {} /\ m.kind = "HELLO") => h.heartbeat + MaximumRetries * h.patience < s.timeout

LEMMA NothingHurt ==
  ASSUME NEW d
  PROVE  /\ d = {} => Hurt(d, "host") = {} /\ Hurt(d, "board") = {}
         /\ Unhurt(d) => Hurt(d, "host") = {} /\ Hurt(d, "board") \cap Header = {}
<1>1. "host" # "board"
  OBVIOUS
<1>2. d = {} => Hurt(d, "host") = {} /\ Hurt(d, "board") = {}
  BY DEF Hurt
<1>3. ASSUME Unhurt(d)
      PROVE  Hurt(d, "host") = {} /\ Hurt(d, "board") \cap Header = {}
  BY <1>1, <1>3, Zenon DEF Hurt, Unhurt
<1> QED
  BY <1>2, <1>3, Zenon

LEMMA AnswerHeard ==
  ASSUME NEW s \in Builds, NEW m, OfHost(m), NEW d, NEW r, NEW w,
         Alike(r, w, Hurt(d, "host")), RightAnswer(s, m, r, Hurt(d, "board")),
         NEW h, h = HearsOf(s, m, w)
  PROVE  HeardWell(s, m, h, d)
<1>1. m.kind \in {"HELLO", "PING", "TASK_STATES"} /\ m.seq \in Byte
  BY OfHostFields, Zenon
<1>2. Hurt(d, "host") = {} => w = r
  BY AlikeIsEqual, Zenon
<1>3. MessageType[m.kind] \in Byte
  BY <1>1, MessageTypesDiffer
<1>4. ASSUME d = {}, m.kind = "HELLO"
      PROVE  Told(h, s)
  <2>1. w = r /\ r = EncodeHelloAck(m.seq, s)
    BY <1>2, <1>4, NothingHurt, Zenon DEF RightAnswer, Expected
  <2>2. IsOpenControlReport(w) /\ Told(ProbeHears(s, m.seq, DecodeQmkPacket(w)), s)
    BY <1>1, <2>1, HandshakeHeard
  <2> QED
    BY <1>4, <2>2, Zenon DEF HearsOf
<1>5. ASSUME d = {}, m.kind # "HELLO"
      PROVE  h = [kind |-> "ACK", of |-> [type |-> MessageType[m.kind], seq |-> m.seq]]
  <2>1. w = r /\ r = EncodeAcknowledgement(m.seq, MessageType[m.kind])
    BY <1>2, <1>5, NothingHurt, Zenon DEF RightAnswer, Expected
  <2> DEFINE type == MessageType[m.kind]
             seq == m.seq
  <2> HIDE DEF type, seq
  <2>2. /\ IsOpenControlReport(w)
        /\ HostHears(DecodeQmkPacket(w)) = [kind |-> "ACK", of |-> [type |-> type, seq |-> seq]]
    <3>1. type \in Byte /\ seq \in Byte /\ w = EncodeAcknowledgement(seq, type)
      BY <1>1, <1>3, <2>1 DEF type, seq
    <3> QED
      BY <3>1, AcknowledgementHeard
  <2> QED
    BY <1>5, <2>2, Zenon DEF HearsOf, type, seq
<1>6. d = {} => AsMeant(s, m, h)
  <2>1. CASE m.kind = "HELLO"
    BY <1>4, <2>1 DEF AsMeant, Told
  <2>2. CASE m.kind \in {"PING", "TASK_STATES"}
    BY <1>5, <2>2 DEF AsMeant
  <2> QED
    BY <1>1, <2>1, <2>2
<1>7. ASSUME m.kind \in {"PING", "TASK_STATES"}, Unhurt(d)
      PROVE  NamesFrame(m, h)
  <2>1. w = r /\ Names(r, MessageType[m.kind], m.seq)
    BY <1>2, <1>7, NothingHurt, Zenon DEF RightAnswer
  <2>2. m.kind # "HELLO"
    BY <1>7
  <2>3. h = HostHears(DecodeQmkPacket(w))
    BY <2>1, <2>2, Zenon DEF HearsOf, Names
  <2> QED
    BY <2>1, <2>3, Zenon DEF Names, NamesFrame
<1>8. (d = {} /\ m.kind = "HELLO") => h.heartbeat + MaximumRetries * h.patience < s.timeout
  BY <1>4, Zenon DEF Told
<1> QED
  BY <1>6, <1>7, <1>8, Zenon DEF HeardWell

LEMMA KeyHeard ==
  ASSUME NEW s \in Builds, NEW m, OfKeyboard(m), NEW d, NEW w,
         Alike(KeyReport(m, s.layer), w, Hurt(d, "host")), NEW h, h = HearsOf(s, m, w)
  PROVE  HeardWell(s, m, h, d)
<1>1. PICK code \in FunctionKeys, phase \in DOMAIN PhaseCode, seq \in Byte, origin \in Places :
        /\ ControlForKeycode(code) # ControlNone
        /\ m = [kind |-> "CONTROL_EVENT", seq |-> seq, code |-> code, phase |-> phase,
                origin |-> origin]
  BY Zenon DEF OfKeyboard
<1>2. /\ m.kind = "CONTROL_EVENT" /\ m.seq = seq /\ m.code = code /\ m.phase = phase
      /\ m.origin = origin
  BY <1>1
<1>3. m.kind \notin {"HELLO", "PING", "TASK_STATES"}
  BY <1>2
<1>4. s.layer \in Byte
  BY BuildFields
<1> DEFINE active == s.layer
           r == EncodeControlEvent(seq, ControlForKeycode(code), phase, origin, active)
<1>5. KeyReport(m, s.layer) = r
  BY <1>2, Zenon DEF KeyReport
<1> HIDE DEF active, r
<1>6. /\ IsOpenControlReport(r)
      /\ HostHears(DecodeQmkPacket(r)) =
           [kind  |-> "control",
            event |-> [control |-> CONTROL_IDS[KeycodeNumber(code)], phase |-> phase,
                       origin |-> origin, layer |-> active]]
  BY <1>1, <1>4, ControlHeard DEF active, r
<1>7. d = {} => AsMeant(s, m, h)
  <2>1. d = {} => w = r
    BY <1>5, NothingHurt, AlikeIsEqual, Zenon
  <2>2. d = {} => h = HostHears(DecodeQmkPacket(r))
    BY <1>3, <1>6, <2>1, Zenon DEF HearsOf
  <2> QED
    BY <1>2, <1>6, <2>2, Zenon DEF AsMeant, active
<1> QED
  BY <1>3, <1>7, Zenon DEF HeardWell

-----------------------------------------------------------------------------
(***************************************************************************)
(* The invariant of the exchange.  A report on its way differs from the    *)
(* one its sender wrote at the damaged bytes only; what the keyboard       *)
(* answers is worth what arrived of the question; and what the host has    *)
(* heard is what it made of such an answer.  Begun by the host, an         *)
(* exchange leaves the frame on the board if nothing was damaged on the    *)
(* way there.                                                              *)
(***************************************************************************)
Speaks(m) == m = None \/ OfHost(m) \/ OfKeyboard(m)

ToBoard(m, w, d, h) ==
  /\ OfHost(m) /\ h = None /\ Hurt(d, "host") = {}
  /\ IF w = None THEN Said(m) = None
     ELSE Said(m) # None /\ Alike(Said(m), w, Hurt(d, "board"))

Exchange(m, b, d) ==
  (m # None /\ OfHost(m)) =>
    /\ Said(m) # None
    /\ (m.kind = "TASK_STATES" /\ Hurt(d, "board") = {}) =>
         b = InstallTaskStates(b, Vector(m.message.frame))

ToHost(s, m, w, d) ==
  \/ OfKeyboard(m) /\ Alike(KeyReport(m, s.layer), w, Hurt(d, "host"))
  \/ OfHost(m) /\ \E r : Alike(r, w, Hurt(d, "host")) /\ RightAnswer(s, m, r, Hurt(d, "board"))

CableInv ==
  /\ Speaks(meant)
  /\ setup \in Builds /\ keyboard \in Boards /\ to \in {"host", "board"}
  /\ to = "board" => ToBoard(meant, wire, damaged, heard)
  /\ to = "host" => Exchange(meant, keyboard, damaged)
  /\ (to = "host" /\ wire # None) => ToHost(setup, meant, wire, damaged) /\ heard = None
  /\ heard # None => HeardWell(setup, meant, heard, damaged)

\* One more byte.
HurtMore(d, grown, end, i) ==
  /\ Hurt(grown, end) = Hurt(d, end) \cup {i}
  /\ \A other : other # end => Hurt(grown, other) = Hurt(d, other)

LEMMA HurtGrows ==
  ASSUME NEW d, NEW end, NEW i, NEW grown, grown = d \cup {[to |-> end, byte |-> i]}
  PROVE  HurtMore(d, grown, end, i)
<1> DEFINE e == [to |-> end, byte |-> i]
<1>1. e.to = end /\ e.byte = i /\ grown = d \cup {e}
  OBVIOUS
<1> HIDE DEF e
<1>2. Hurt(grown, end) = Hurt(d, end) \cup {i}
  <2>1. {x \in grown : x.to = end} = {x \in d : x.to = end} \cup {e}
    BY <1>1
  <2> QED
    BY <1>1, <2>1, Zenon DEF Hurt
<1>3. ASSUME NEW other, other # end
      PROVE  Hurt(grown, other) = Hurt(d, other)
  <2>1. {x \in grown : x.to = other} = {x \in d : x.to = other}
    BY <1>1, <1>3
  <2> QED
    BY <2>1 DEF Hurt
<1> QED
  BY <1>2, <1>3, Zenon DEF HurtMore

LEMMA AlikeAfter ==
  ASSUME NEW r, NEW w, NEW hurt, Alike(r, w, hurt), NEW i \in 1 .. 32, NEW byte \in Byte
  PROVE  /\ [w EXCEPT ![i] = byte] \in RawReports
         /\ Alike(r, [w EXCEPT ![i] = byte], hurt \cup {i})
<1>1. r \in [1 .. 32 -> Byte] /\ w \in [1 .. 32 -> Byte] /\ \A j \in 1 .. 32 : j \notin hurt => r[j] = w[j]
  BY DEF Alike, RawReports, ReportSize
<1> DEFINE v == [w EXCEPT ![i] = byte]
<1>2. v \in [1 .. 32 -> Byte] /\ \A j \in 1 .. 32 : j # i => v[j] = w[j]
  BY <1>1
<1> HIDE DEF v
<1> QED
  BY <1>1, <1>2 DEF Alike, RawReports, ReportSize, v

LEMMA SaidKind ==
  ASSUME NEW m, OfHost(m), OfKeyboard(m)
  PROVE  FALSE
<1>1. m.kind = "CONTROL_EVENT"
  BY DEF OfKeyboard
<1> QED
  BY <1>1, OfHostFields

LEMMA InstalledStays ==
  ASSUME NEW b \in Boards, NEW body
  PROVE  InstallTaskStates(b, body) = InstallTaskStates(InstallTaskStates(b, body), body)
<1> DEFINE unread == body.unread \cap (0 .. AgentCount - 1)
<1> QED
  BY DEF Boards, InstallTaskStates, InputSeen

LEMMA CableInit == BytesInit => CableInv
<1> SUFFICES ASSUME BytesInit
             PROVE  CableInv
  OBVIOUS
<1>1. setup \in Builds /\ meant = None /\ wire = None /\ heard = None /\ to = "host" /\ keyboard = BootedBoard
  BY SetupsAssumption DEF BytesInit
<1>2. BootedBoard \in Boards
  <2>1. SelectedNone \in 0 .. 255 /\ [i \in 0 .. AgentCount - 1 |-> 0] \in [0 .. AgentCount - 1 -> 0 .. 5]
    BY DEF SelectedNone
  <2> QED
    BY <2>1 DEF BootedBoard, Boards
<1> QED
  BY <1>1, <1>2, Zenon DEF CableInv, Exchange, Speaks

LEMMA HostSendsKeeps == CableInv /\ HostSends => CableInv'
<1> SUFFICES ASSUME CableInv, HostSends
             PROVE  CableInv'
  OBVIOUS
<1>1. PICK message \in Messages, seq \in Numbers :
        Begins("board", [kind |-> message.kind, seq |-> seq, message |-> message],
               HostEncode(message, seq))
  BY DEF HostSends
<1> DEFINE m == [kind |-> message.kind, seq |-> seq, message |-> message]
<1>2. message \in Sayable /\ seq \in Byte
  BY MessagesAssumption, NumbersAssumption
<1>3. OfHost(m)
  BY <1>2, Zenon DEF OfHost
<1>4. Said(m) = HostEncode(message, seq)
  BY Zenon DEF Said
<1> HIDE DEF m
<1>5. /\ meant' = m /\ wire' = Said(m) /\ to' = "board" /\ heard' = None /\ damaged' = {}
      /\ setup' = setup /\ keyboard' = keyboard
  BY <1>1, <1>4, Zenon DEF Begins, m
<1>6. Hurt({}, "host") = {} /\ Hurt({}, "board") = {}
  BY NothingHurt
<1>7. Said(m) # None => Alike(Said(m), Said(m), {})
  BY <1>3, SaidIsSent, Zenon DEF Alike
<1>8. ToBoard(m, Said(m), {}, None)
  BY <1>3, <1>6, <1>7, Zenon DEF ToBoard
<1>9. setup \in Builds /\ keyboard \in Boards
  BY DEF CableInv
<1>10. "board" # "host"
  OBVIOUS
<1> QED
  BY <1>3, <1>5, <1>8, <1>9, <1>10, Zenon DEF CableInv, Speaks

LEMMA KeyRecordedKeeps == CableInv /\ KeyRecorded => CableInv'
<1> SUFFICES ASSUME CableInv, KeyRecorded
             PROVE  CableInv'
  OBVIOUS
<1>1. PICK code \in Keycaps, phase \in DOMAIN PhaseCode, seq \in Numbers, origin \in Origins :
        /\ ControlForKeycode(code) # ControlNone
        /\ Begins("host", [kind |-> "CONTROL_EVENT", seq |-> seq, code |-> code, phase |-> phase,
                           origin |-> origin],
                  EncodeControlEvent(seq, ControlForKeycode(code), phase, origin, setup.layer))
  BY Zenon DEF KeyRecorded
<1> DEFINE m == [kind |-> "CONTROL_EVENT", seq |-> seq, code |-> code, phase |-> phase, origin |-> origin]
           w == EncodeControlEvent(seq, ControlForKeycode(code), phase, origin, setup.layer)
<1>2. code \in FunctionKeys /\ seq \in Byte /\ origin \in Places
  BY KeycapsAssumption, NumbersAssumption, OriginsAssumption
<1>3. OfKeyboard(m)
  BY <1>1, <1>2, Zenon DEF OfKeyboard
<1>4. KeyReport(m, setup.layer) = w
  <2>1. m.seq = seq /\ m.code = code /\ m.phase = phase /\ m.origin = origin
    OBVIOUS
  <2> HIDE DEF m
  <2> QED
    BY <2>1, Zenon DEF KeyReport
<1>5. setup \in Builds /\ keyboard \in Boards
  BY DEF CableInv
<1>6. w \in RawReports
  <2> DEFINE active == setup.layer
             r == EncodeControlEvent(seq, ControlForKeycode(code), phase, origin, active)
  <2>1. active \in Byte
    BY <1>5, BuildFields
  <2> HIDE DEF active, r
  <2>2. r \in RawReports
    BY <1>1, <1>2, <2>1, ControlHeard DEF r
  <2> QED
    BY <2>2 DEF r, active
<1>7. /\ meant' = m /\ wire' = w /\ to' = "host" /\ heard' = None /\ damaged' = {}
      /\ setup' = setup /\ keyboard' = keyboard
  BY <1>1, Zenon DEF Begins
<1> HIDE DEF m, w
<1>8. ToHost(setup, m, w, {})
  BY <1>3, <1>4, <1>6, Zenon DEF ToHost, Alike
<1>9. Exchange(m, keyboard, {})
  BY <1>3, SaidKind, Zenon DEF Exchange
<1>10. "board" # "host"
  OBVIOUS
<1> QED
  BY <1>3, <1>5, <1>7, <1>8, <1>9, <1>10, Zenon DEF CableInv, Speaks

LEMMA DamageKeeps == CableInv /\ Damage => CableInv'
<1> SUFFICES ASSUME CableInv, Damage
             PROVE  CableInv'
  OBVIOUS
<1>1. PICK i \in 1 .. 32, byte \in NewBytes :
        /\ wire' = [wire EXCEPT ![i] = byte]
        /\ damaged' = damaged \cup {[to |-> to, byte |-> i]}
  BY Zenon DEF Damage, ReportSize
<1>2. /\ setup' = setup /\ keyboard' = keyboard /\ meant' = meant /\ to' = to /\ heard' = heard
      /\ wire # None
  BY Zenon DEF Damage
<1>3. /\ Speaks(meant) /\ setup \in Builds /\ keyboard \in Boards /\ to \in {"host", "board"}
      /\ to = "board" => ToBoard(meant, wire, damaged, heard)
      /\ to = "host" => /\ Exchange(meant, keyboard, damaged)
                        /\ ToHost(setup, meant, wire, damaged) /\ heard = None
  BY <1>2, Zenon DEF CableInv
<1>4. byte \in Byte
  BY DamageAssumption
<1> DEFINE v == [wire EXCEPT ![i] = byte]
           d == damaged \cup {[to |-> to, byte |-> i]}
<1>5. HurtMore(damaged, d, to, i)
  BY HurtGrows
<1>6. \A r, hurt : Alike(r, wire, hurt) => v \in RawReports /\ Alike(r, v, hurt \cup {i})
  BY <1>4, AlikeAfter, Zenon
<1>7. "board" # "host"
  OBVIOUS
<1>8. v # None \/ ~\E r, hurt : Alike(r, wire, hurt)
  BY <1>6, NoneIsNoReport, Zenon
<1> HIDE DEF v, d
<1>9. ASSUME to = "board"
      PROVE  ToBoard(meant, v, d, heard) /\ heard = None
  <2>1. /\ OfHost(meant) /\ heard = None /\ Hurt(damaged, "host") = {} /\ Said(meant) # None
        /\ Alike(Said(meant), wire, Hurt(damaged, "board"))
    BY <1>2, <1>3, <1>9, Zenon DEF ToBoard
  <2>2. Hurt(d, "host") = {} /\ Hurt(d, "board") = Hurt(damaged, "board") \cup {i}
    BY <1>5, <1>7, <1>9, <2>1, Zenon DEF HurtMore
  <2>3. v # None /\ Alike(Said(meant), v, Hurt(d, "board"))
    BY <1>6, <1>8, <2>1, <2>2, Zenon
  <2> QED
    BY <2>1, <2>2, <2>3, Zenon DEF ToBoard
<1>10. ASSUME to = "host"
       PROVE  Exchange(meant, keyboard, d) /\ ToHost(setup, meant, v, d) /\ heard = None
  <2>0. Hurt(d, "board") = Hurt(damaged, "board") /\ Hurt(d, "host") = Hurt(damaged, "host") \cup {i}
    BY <1>5, <1>7, <1>10, Zenon DEF HurtMore
  <2>1. Exchange(meant, keyboard, d)
    BY <1>3, <1>10, <2>0, Zenon DEF Exchange
  <2>2. ToHost(setup, meant, v, d)
    BY <1>3, <1>6, <1>10, <2>0, Zenon DEF ToHost
  <2> QED
    BY <1>3, <1>10, <2>1, <2>2
<1>11. wire' = v /\ damaged' = d
  BY <1>1 DEF v, d
<1> QED
  BY <1>2, <1>3, <1>9, <1>10, <1>11, Zenon DEF CableInv

LEMMA BoardReadsKeeps == CableInv /\ BoardReads => CableInv'
<1> SUFFICES ASSUME CableInv, BoardReads
             PROVE  CableInv'
  OBVIOUS
<1> DEFINE answer == ReadReport(setup, keyboard, wire)
<1>1. /\ wire # None /\ to = "board" /\ keyboard' = answer.board /\ wire' = answer.reply /\ to' = "host"
      /\ setup' = setup /\ meant' = meant /\ damaged' = damaged /\ heard' = heard
  BY Zenon DEF BoardReads
<1> HIDE DEF answer
<1>2. /\ Speaks(meant) /\ setup \in Builds /\ keyboard \in Boards
      /\ ToBoard(meant, wire, damaged, heard)
  BY <1>1, Zenon DEF CableInv
<1>3. /\ OfHost(meant) /\ heard = None /\ Hurt(damaged, "host") = {} /\ Said(meant) # None
      /\ Alike(Said(meant), wire, Hurt(damaged, "board"))
  BY <1>1, <1>2, Zenon DEF ToBoard
<1>4. wire \in RawReports
  BY <1>3, Zenon DEF Alike
<1>5. answer.board \in Boards /\ answer.reply \in RawReports \cup {None}
  BY <1>2, <1>4, BoardAnswers, Zenon DEF answer
<1>6. /\ answer.reply # None => RightAnswer(setup, meant, answer.reply, Hurt(damaged, "board"))
      /\ (Hurt(damaged, "board") = {} /\ meant.kind = "TASK_STATES") =>
           answer.board = InstallTaskStates(keyboard, Vector(meant.message.frame))
  BY <1>2, <1>3, HostAsks, Zenon DEF answer
<1>7. Exchange(meant, answer.board, damaged)
  <2>1. InstallTaskStates(keyboard, Vector(meant.message.frame)) =
          InstallTaskStates(InstallTaskStates(keyboard, Vector(meant.message.frame)), Vector(meant.message.frame))
    BY <1>2, InstalledStays
  <2> QED
    BY <1>3, <1>6, <2>1, Zenon DEF Exchange
<1>8. answer.reply # None => ToHost(setup, meant, answer.reply, damaged)
  BY <1>3, <1>5, <1>6, Zenon DEF ToHost, Alike
<1>9. "board" # "host"
  OBVIOUS
<1> QED
  BY <1>1, <1>2, <1>3, <1>5, <1>7, <1>8, <1>9, Zenon DEF CableInv

LEMMA HostReadsKeeps == CableInv /\ HostReads => CableInv'
<1> SUFFICES ASSUME CableInv, HostReads
             PROVE  CableInv'
  OBVIOUS
<1>1. /\ wire # None /\ to = "host" /\ wire' = None /\ setup' = setup /\ keyboard' = keyboard
      /\ meant' = meant /\ to' = to /\ damaged' = damaged
  BY Zenon DEF HostReads
<1>2. PICK data \in {wire, <<0>> \o wire} : heard' = Hears(data)
  BY Zenon DEF HostReads
<1>3. /\ Speaks(meant) /\ setup \in Builds /\ keyboard \in Boards /\ Exchange(meant, keyboard, damaged)
      /\ ToHost(setup, meant, wire, damaged)
  BY <1>1, Zenon DEF CableInv
<1>4. wire \in RawReports
  BY <1>3, Zenon DEF ToHost, Alike
<1>5. heard' = HearsOf(setup, meant, wire)
  BY <1>2, <1>4, HearsReport, Zenon
<1>6. HeardWell(setup, meant, heard', damaged)
  <2> DEFINE h == HearsOf(setup, meant, wire)
  <2>1. HeardWell(setup, meant, h, damaged)
    <3> HIDE DEF h
    <3>1. h = HearsOf(setup, meant, wire)
      BY DEF h
    <3>2. CASE OfKeyboard(meant) /\ Alike(KeyReport(meant, setup.layer), wire, Hurt(damaged, "host"))
      BY <1>3, <3>1, <3>2, KeyHeard, Zenon
    <3>3. ASSUME OfHost(meant), NEW r, Alike(r, wire, Hurt(damaged, "host")),
                 RightAnswer(setup, meant, r, Hurt(damaged, "board"))
          PROVE  HeardWell(setup, meant, h, damaged)
      BY <1>3, <3>1, <3>3, AnswerHeard, Zenon
    <3> QED
      BY <1>3, <3>2, <3>3, Zenon DEF ToHost
  <2> QED
    BY <1>5, <2>1, Zenon
<1>7. "board" # "host"
  OBVIOUS
<1> QED
  BY <1>1, <1>3, <1>6, <1>7, Zenon DEF CableInv

LEMMA StutterKeeps == CableInv /\ UNCHANGED bytesVars => CableInv'
BY Zenon DEF CableInv, bytesVars

\* Whatever is said over the cable, and whatever is damaged on it, every report
\* on its way is its sender's but for the damaged bytes, what the keyboard
\* answers is worth what arrived, and what the host has heard is worth that
\* answer (qmk-protocol.ts against opencontrol_via_command).
THEOREM CableIsKept == BytesSpec => []CableInv
<1>1. CableInv /\ [BytesNext]_bytesVars => CableInv'
  BY HostSendsKeeps, KeyRecordedKeeps, DamageKeeps, BoardReadsKeeps, HostReadsKeeps, StutterKeeps,
     Zenon DEF BytesNext
<1> QED
  BY CableInit, <1>1, PTL DEF BytesSpec

\* A report that is not damaged says at the other end what its sender meant:
\* a frame is on the board slot by slot or was refused before it was sent, a
\* key is heard as its control, a handshake as the keyboard's build, and all
\* else is acknowledged by type and number.
THEOREM ReportsAreUnderstood == BytesSpec => []ReportsArriveAsMeant
<1>1. CableInv => ReportsArriveAsMeant
  <2> SUFFICES ASSUME CableInv, damaged = {}
               PROVE  FramesAsMeant /\ HeardAsMeant
    BY Zenon DEF ReportsArriveAsMeant
  <2>1. HeardAsMeant
    <3>1. heard # None => AsMeant(setup, meant, heard)
      BY Zenon DEF CableInv, HeardWell
    <3> QED
      BY <3>1, Zenon DEF AsMeant, HeardAsMeant
  <2>2. Hurt(damaged, "board") = {}
    BY NothingHurt, Zenon
  <2>3. ASSUME meant # None, meant.kind = "TASK_STATES"
        PROVE  LET frame == meant.message.frame IN
               /\ (to = "board" /\ wire = None) <=>
                    \/ ~\A s \in Range(frame.slots) : s.slot \in Agents
                    \/ Cardinality({s.slot : s \in Range(frame.slots)}) # Len(frame.slots)
               /\ to = "host" => keyboard = InstallTaskStates(keyboard, EncodeTaskStates(FrameOf(frame)))
    <3>1. OfHost(meant)
      <4>1. ~OfKeyboard(meant)
        <5>1. OfKeyboard(meant) => meant.kind = "CONTROL_EVENT"
          BY DEF OfKeyboard
        <5> QED
          BY <2>3, <5>1
      <4> QED
        BY <2>3, <4>1, Zenon DEF CableInv, Speaks
    <3>2. /\ Said(meant) = None <=> NormalizeFeedback(meant.message.frame.slots) = None
          /\ meant.message.frame.slots \in Seq(Slots)
      BY <2>3, <3>1, SaidIsSent, OfHostFields, Zenon
    <3>3. Said(meant) = None
            <=> \/ ~\A s \in Range(meant.message.frame.slots) : s.slot \in Agents
                \/ Cardinality(SlotsOf(meant.message.frame.slots)) # Len(meant.message.frame.slots)
      BY <3>2, Refusal, Zenon
    <3>4. (to = "board" /\ wire = None) <=> Said(meant) = None
      <4>1. "board" # "host" /\ to \in {"host", "board"}
        BY DEF CableInv
      <4>2. to = "board" => (wire = None <=> Said(meant) = None)
        BY Zenon DEF CableInv, ToBoard
      <4>3. to = "host" => Said(meant) # None
        BY <2>3, <3>1, Zenon DEF CableInv, Exchange
      <4> QED
        BY <4>1, <4>2, <4>3, Zenon
    <3>5. to = "host" => keyboard = InstallTaskStates(keyboard, Vector(meant.message.frame))
      BY <2>2, <2>3, <3>1, Zenon DEF CableInv, Exchange
    <3> QED
      BY <3>3, <3>4, <3>5, Zenon DEF SlotsOf, Vector
  <2> QED
    BY <2>1, <2>3, Zenon DEF FramesAsMeant
<1> QED
  BY CableIsKept, <1>1, PTL

\* Whatever byte of a frame is damaged on its way to the keyboard, other than
\* those that say whose it is, its type and its number, the answer the host
\* hears names the frame that was sent.
THEOREM AnswersAreNamed == BytesSpec => []AnswersNameTheFrame
<1>1. CableInv => AnswersNameTheFrame
  BY Zenon DEF CableInv, HeardWell, Unhurt, Header, NamesFrame, AnswersNameTheFrame
<1> QED
  BY CableIsKept, <1>1, PTL

\* On every TASK_STATES report that may come over the cable, damaged or not,
\* the host's decoder and the keyboard agree: what one refuses the other
\* refuses, and what it accepts is installed as it was read.
THEOREM TwinsAlwaysAgree == BytesSpec => []TwinsAgree
<1>1. CableInv => TwinsAgree
  <2> SUFFICES ASSUME CableInv, to = "board", wire # None
               PROVE  (IsOpenControlReport(wire) /\ wire[4] = Major /\ wire[5] = MessageType.TASK_STATES) =>
                        LET frame == DecodeTaskStates(DecodeQmkPacket(wire)) IN
                        ReadReport(setup, keyboard, wire).board =
                          IF frame = None THEN keyboard ELSE InstallTaskStates(keyboard, EncodeTaskStates(frame))
    BY Zenon DEF TwinsAgree
  <2>1. wire \in RawReports /\ keyboard \in Boards
    BY Zenon DEF CableInv, ToBoard, Alike
  <2> QED
    BY <2>1, TwinsRead
<1> QED
  BY CableIsKept, <1>1, PTL

\* Whatever timeout a keyboard was built with and whatever cadence the host is
\* asked for, a connection begun by an undamaged handshake keeps the keyboard
\* hearing in time though two sendings of a heartbeat are lost.
THEOREM KeptAliveInTime == BytesSpec => []KeepAliveInTime
<1>1. CableInv => KeepAliveInTime
  BY Zenon DEF CableInv, HeardWell, KeepAliveInTime
<1> QED
  BY CableIsKept, <1>1, PTL
=============================================================================
