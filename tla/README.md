# A TLA+ verification project for OpenControl

OpenControl lets one set of hardware controls (a QMK keyboard with six Agent
keys, a gamepad, a stock VIA keyboard) drive several terminal agents at once.
Each agent runs under a *wrapper* process. The first wrapper becomes the *host*:
it owns the hardware and an HTTP server on the loopback interface; the others
are its clients and take over when it disappears. This directory models that
system in TLA+, model-checks it with TLC and proves the main facts about its
core with TLAPS. Paths below are relative to the repository.

## 1. The system

| Part | State it keeps | Operations | Hard behaviour | What makes it correct |
|---|---|---|---|---|
| **Task registry** `src/state.ts` | a map from wrapper to task (slot, lifecycle state, connection, unread, session, `updatedAt`), the selected wrapper | register, re-register, restore, unregister, report, clear a session, mark connection, select by slot, by wrapper or relatively | long sequences of calls; a clock that stands still; a second copy of a recovery registration | no slot held twice; the selection is on a slotted task; revisions stamp records in order; Left and Right reach every task |
| **Session tracker** `src/state.ts` | state per live hook session | apply, remove | updated beside the registry, never with it | the tables agree |
| **Host server** `src/server.ts` | the registry, session owners, registrations and their streams, generations, timers, local writers | register, stream, delete, hook, restore, select, close | everything between Node callbacks: late `close` events, 30 s registration timers, 5 s reconnect leases, hooks whose body is on its way | a task is reachable or on a running lease; nothing old removes something new; clients know what the host knows |
| **Wrapper lifecycle** `src/cli.ts`, `src/client.ts`, `src/task-recovery.ts` | connection to the host, last status received, the agent's process | join, cache, detect loss, race for the lease, promote, re-register, shut down | host crash; caches of different age; promotion that fails half-way | one host; tasks, slots and selection survive a crash |
| **Runtime lease** `src/runtime.ts` | lock file, reclaim guards, runtime descriptor, quarantined descriptors | acquire, publish, release, discover, reclaim | processes interleave at every system call and may die there | at most one holder; a live host's descriptor is in place, about to be put back, or left in a quarantine by a crash or a second restore |
| **QMK link** `src/input/qmk-*.ts`, `firmware/modules/opencontrol/` | pending and completed sequence numbers, pressed controls; on the board: lease of the input mode, held controls, task states | HELLO, control events, task states, acknowledgements, heartbeats | HID reports lost, doubled or late; retries; 8-bit sequence numbers | a copy of a report does nothing until its control has changed sides; no control stays pressed without a reason; the LEDs end up at the latest state |
| **Terminal decoder** `src/input/terminal-*.ts` | pending bytes and a timer | push, flush | sequences split over reads; one sequence a prefix of another | no byte lost, doubled or reordered |
| **Gamepad layers** `src/router.ts`, `src/controller/hid-manager.ts` | layer, held and ignored buttons, guard window, flick and rotation of each stick | route, switch layer, attach, detach | layer switch with buttons held | a button held over a switch stays dead until released |
| **Dispatch** `src/task-action-router.ts`, `src/dispatch.ts` | none of its own | selection at dispatch time | selection changes while keys are in flight | keys reach the selected task |
| **Feedback** `src/task-feedback*.ts`, `src/feedback.ts` | one debounce timer | schedule, cancel | change at the end of the window | the last change is published |
| **Files** `src/secure-files.ts`, `src/hooks-install.ts`, `src/layers.ts` | files | read, merge, atomic write, seed, setup's save | concurrent writers, a crash or a power failure between two calls | old or new content, and nobody's change lost but where the code cannot look |
| **Harnesses**, **PTY**, **doctor, logging** | little | tables, prompts | none of interest to a model checker | unit tests |

How they interact. Agents' hooks are short-lived processes that POST to the
host; the host maps an event to a state, files the session under its wrapper,
changes the registry and publishes the whole status to every open stream (one
`text/event-stream` per client) and to the hardware, debounced. A control event
goes the other way: adapter, router, selection in the registry, then bytes to
the selected wrapper, over its stream or directly if it runs in the host
process. Each client keeps the last status it received, and nothing else
survives the host: a client that wins the lease after a crash restores its copy
into a new registry (`restoreTaskStatus`), registers itself, and the remaining
clients re-register with their own snapshots.

## 2. Modules

| Module | Stands for | |
|---|---|---|
| `TaskOps` | the methods of `TaskRegistry` as pure operators on a registry value | no variables, no `RECURSIVE` |
| `TaskRegistry` | the class itself: any sequence of method calls, with `updatedAt` and the clock | extends `TaskOps` |
| `HostServer` | `src/server.ts` around the same `TaskOps` | extends `TaskOps` |
| `Lease` | what `acquireRuntimeLease` promises: a singleton lease | abstract |
| `RuntimeLease` | `src/runtime.ts`, and the callers of the lease in `src/server.ts` | implements `Lease` |
| `HostRecovery` | several wrapper processes, `src/cli.ts`, with their clients, caches and successive hosts | extends `TaskOps`, takes the registry's actions from `TaskRegistry` by `INSTANCE`, and the lease as `Lease` has it |
| `QmkProtocol` | what the two ends of the Raw HID link share: a status as a frame as a payload, a keycode as a control | no variables |
| `QmkFirmware` | `firmware/modules/opencontrol/opencontrol.c` as operators on its statics | extends `QmkProtocol` |
| `QmkAdapter` | `src/input/qmk-raw-hid-adapter.ts` as operators on its fields | extends `QmkProtocol` |
| `QmkLink` | host process, feedback scheduler, adapter, two pipes, keyboard, fingers and everything that goes wrong | extends both ends |
| `QmkMessages` | what may be said over the cable: the parameters of `QmkReports` and their assumptions | extends `QmkProtocol` |
| `QmkReports` | the 32 bytes of a report: `src/input/qmk-protocol.ts`, the handshake of the adapter, and the firmware's reading of the same bytes | extends `QmkFirmware`, `QmkMessages` |
| `TerminalDecoder` | `src/input/terminal-sequence-decoder.ts`, and a decoding as it should be | no variables |
| `Gamepad` | `src/controller/hid-manager.ts`, its drivers and `src/router.ts` as operators on their fields | no variables |
| `Controls` | keyboard bytes and gamepad reports up to the action on the host | extends `TerminalDecoder`, `Gamepad` |
| `PrivateFiles` | `src/secure-files.ts` and its users, one system call at a time | |
| `TaskOpsProofs`, `TaskRegistryProofs`, `HostServerProofs`, `HostRecoveryProofs`, `RuntimeLeaseProofs`, `PrivateFilesProofs`, `QmkProofs`, `ControlsProofs` | the theorems (section 4) | TLAPS |
| `MC...` | instances for TLC | |

### TaskOps and TaskRegistry

A registry is a record `[tasks, selected]`; `tasks[w]` is `None` or a record
with the fields of `TaskSnapshot` that code ever branches on: slot, state,
connection, unread and session. Left out as data nothing branches on: names,
agent kinds, pids and working directories, and the aggregate state, which is
computed from the tasks on demand. Each operator is one method, with
the trailing `selectFallback` where the method calls it (`Unregister`,
`MarkDisconnected`). `NoSlot` is `null`
(an overflow task), `AnySlot` is `undefined` (first free slot): the two are not
the same request, and `RegisterAgain` treats them differently.

`TaskRegistry` adds one action per method, the per-task stamp `updatedAt` with
`NextUpdatedAt` (which is `max(now, previous + 1)`), and the stamp a recovering
client sends, which decides whether its snapshot or the registry's entry is
newer. `Promote` restores a status as a promoted host does. One restriction
holds of its callers and is a guard in the model: a wrapper that asks for no
slot has none (`want = NoSlot => slot = NoSlot`), because a client reports back
the slot it was given.

### HostServer

Node runs one callback at a time, so an action is a handler up to its next
`await`, or a timer. A registration is a record (its wrapper, its generation,
whether its stream is pending, open or dropped, whether its 30 s timer is
armed); `advanceWrapperGeneration` never reuses a generation, so wrapper and
generation name it, and the random instance id is left out. Three things are
kept apart because the code's difficulty is in their order:

* `sockets` holds the streams whose `close` event has not been *emitted* yet.
  The host may have ended a stream long before; `SocketClosed` then arrives for
  a registration that has been superseded, deleted, or whose host is closed.
* `leases[w]` is the generation a 5 s timer was armed with, so a timer that
  outlives its purpose is visible.
* `hooks` holds requests between the ownership check and the arrival of their
  body (`HookArrives`, then `HookBody`), the one `await` of `handleHook`.

`sent[w]` is the last status written to `w`'s open stream. It is what `w` would
restore if the host died now.

The host starts fresh (`StartFresh`) or promoted (`RestoreTaskStatus`, then
`StartPromoted`, which run in one callback: no lease fires between them).
`Caches` and `Recoveries` are the statuses and snapshots clients may hold. One
session may be on two tasks of a cached status, as `syncTaskSession` does not
look at the others: the one listed last files it (`ListedLast`). Hooks
that map to no state at all change nothing but their ownership check and are
left out. The wrapper of the host process never registers over HTTP. Routing of
key bytes, rate limits, bearer tokens and the devices list are not modelled:
they change none of this state.

### Lease and RuntimeLease

Wrapper processes share a directory. `lock` is the lock file, `guards` the
reclaim guards beside it, `desc` the runtime descriptor, `moved[p]` what `p`
has renamed to its quarantine, `orphans` what was left there, each with the one
that was found in its place. `call[p]` says before which file system call `p` is
and holds the locals of the functions it is in; an action is one call (or one probe), so others run, and processes die,
between any two. `Acquire` to `Unguard` are the loop of `acquireRuntimeLease`,
`Previous` to `FinishRemoval` the cleanup of a stale descriptor that
acquisition, discovery and release share, `Publish`, `StartFails` and `Close`
the host server's use of the lease.

What one process can know of another is the heart of it. On Linux
(`startIds`) `processOwnerState` tells a process from a later one with its pid,
so it answers `verified` or `dead`. Elsewhere a pid may be `reused`, and the code
probes the endpoint or, before there is one, goes by the age of the file
(`aged`, over 30 s). A probe of a host that does not answer may say `stale` (connection
refused) or, if its pid is in use, `temporarily-unreachable`: both are
taken.

Abstracted: a lock file and its descriptor are named by their owner and a count
of his locks, in place of inode, token and time. Failing to create a guard and
looking at the one in the way is one step, and so are the link and the unlink
of a restored descriptor. Left out: filesystems without hard links (the copy
fallback, and the incomplete locks only it can show), malformed descriptors,
permission and directory checks, and failing system calls.

`Lease` says in three actions what all this is for: it is acquired when nobody
holds it, and passes on only by release or by its holder's death. `Holder` maps
a state to the process between creating the lock and unlinking it.

### HostRecovery

Each wrapper is one process (its pid stands for it) and `pc` is where that
process is in `runWrappedAgent`: out, joining, starting as the winner of the
lease, hosting, failing, leaving, registered (`pending`), streaming, having
lost its host, rejoining, or gone. `last`, `first` and `served` are
`lastStatus`, `activeRegistration.task` and `activeRegistration.descriptor`, and
`Cached` is what the code computes of them. The host's side is the registry, one
registration per wrapper and its two timers; every other detail of a handler
is in `HostServer`. The winner's `Publish` is `listenRuntime` with its
`initialize` callback: `Promote` restores `WithoutProcess` of the cached
status and registers the wrapper in it once more.

Three assumptions. The lease is a singleton (`Lease`, which `RuntimeLease`
implements). A status that arrives is the newest one: a status frame is the
whole state, so an older one in the pipe is only a status that has not arrived
yet. And `Now`, the clock when the host stamps a task, is past every
revision of that task anybody holds: the processes share one machine's clock.
Hooks and sessions are not in this run (`Sessions = {}`): a client's cache
carries a session like any other field of a task.

Three ghosts serve the properties: `settled`, the registry when last everybody agreed
on it, `touched`, whose task was reported or chosen since its wrapper was told, and `behind`. A
report or a choice empties `settled`; a host that goes on without the selected task,
though its wrapper is alive, takes only the selection out of it (`Forgets`). That
happens when a registration or a reconnect lease expires, or a host promotes from a
cache without that task: the code then selects another one.

### QmkProtocol, QmkFirmware, QmkAdapter, QmkLink

Both ends are values with operators on them, and `QmkLink` is the only
one with variables. A 32-byte report is a record, a bit mask a set. An
adapter's operator runs to the next point where the code returns to the event
loop, with promise continuations in the step that resolves them; `HostStep`
then moves what was written into the pipe `down` and the control events into
`journal`, and lets a change of connection schedule feedback.

The two pipes are FIFO but for copies. The environment may lose or damage a report,
hand one over again, answer late, unplug and plug the keyboard, remap a key over
VIA, switch its layer, suspend the machine, and stop, kill or restart the host
process, each as often as `budget` says. A second Raw HID candidate that answers HELLO is
always there. Timing is where such a model can be too kind or too cruel, so it is
explicit:

* a report is in transit for less than the timeout that waits for it, unless
  `budget.slow` pays for a slow one (`InTimeOrSlow`);
* a copy of a report of the keyboard is in `late` until it comes (`CopyArrives`), right
  behind its original or behind any later reports, acted on or not;
* a tombstone (three timeouts) outlives what it stands for
  (`TombstoneExpires`);
* a heartbeat goes out when nothing of the last one, and no copy, is under way and
  fewer than `MaxPending` reports wait;
* the keyboard's timeouts elapse only while nobody sends, since a live host
  sends at least twice per timeout;
* `MaxUp` bounds the reports in the pipe when a key moves.

What the code does with a copy that comes late enough is in the model and breaks no
property: with the release of a control the adapter forgets its packets, so a copy of
its press that comes behind presses it again, with nothing to release it (one of the
reasons in `StuckOnlyByMissedRelease`), and a copy of a release that comes behind the
next press ends that press. `ReplaysDroppedUntilAnEdge` says, as the adapter's test
does, that nothing less than such a change of sides lets a replay through.

Left out: keycodes wider than a byte that carry no modifiers
(`opencontrol_control_for_keycode` reads their low byte; none is assigned here), choosing among several keyboards by serial number (the enrolled one is
`Board`), the doctor's `...AndWait` calls, health and error events (they only
report), the bound of 256 on remembered packets, brightness and the pulse.

### QmkReports

`QmkLink` moves records; `QmkReports` checks that the bytes say what the records
say. Both ends' code is there byte by byte: `encode...` and `decode...` of the
host's codec, the adapter's handshake and `receive` down to what they learn from a
report, and `opencontrol_via_command`. The layout of a report is written once where
both languages write the same; the two readings of `TASK_STATES` are kept apart,
and `TwinsAgree` compares them. One exchange is on the cable at a time, and one
byte of it may change on the way. There is no checksum: a payload that changes into
another legal one is believed by both ends, and no property says otherwise
(`QmkLink`'s damaged report is one that is detected). A 32-bit time is the pair of
its halves, since TLC's integers are shorter. The range checks of the encoders
(`assertByte` and its like) are the sets the messages are taken from.

### TerminalDecoder, Gamepad, Controls

`TerminalDecoder` has the decoder's loop as the recursive function `Process`, and
beside it `RightDecoding`, which says what a decoding should be without that
loop. `Gamepad` has the router, the `Deduper` and the manager. `Controls`
puts hands on both. Bytes arrive on `line`, a process reads any part of it
(`Read`), its timer fires, perhaps early (`TimerFires`), and the events are
handled at once where the process hosts or are posted, and arrive in any order
or not at all (`PostArrives`, `PostFails`). A gamepad is plugged and pulled,
reports at any time, and may fail to open.

Time is `Tick`. Within one tick the line is read and a due timer runs, unless
`budget.stalls` pays for a stall, and a key that is held repeats. `owed` counts
the presses of each key and button that are still unanswered. A stalled line may
cut a sequence short, and what it has then is decoded as the control it begins
with: the docs accept that, and `Strike` owes the prefix as well. A button held
when a gamepad comes back counts as pressed (the code has no way to know), so one
press held over a dropout may act twice. The system's clock does not step back (behind
such a step `deliver` takes the next copy of a key for a press), and a report passes
its buttons before its axes, where the drivers differ.

A stick is put (`TiltStick`) in one of eight directions, where angles are eighths of
a turn and the code's doubles make no error; its axes are reported x before y, so
a move from left straight to down passes the centre for the router, and a flick
fires: the model has that, and `owed` grants a flick for each axis that leaves its
middle. A layer switch resets the tracker under a stick that is still out.
`Gesture` is `StickTracker.update` with its early returns in their order.

Left out: the decoding of a driver's report bytes, the ranking of candidates, layer
switches by keyboard control, thinking levels, the bytes an action sends, and
`KeyRepeater`, which has no caller.

### PrivateFiles

A file is an inode with a text; `path` is where the name leads and `durable`
where it leads after a power failure. Of a text this keeps whether it has what
OpenControl wants of it (its hook entries, the current schema) and which saves
of its users it contains. Three kinds of process share the read and the atomic
write: `updateHookFile` with its retries, `loadConfig` (which seeds or
migrates), and setup, which loads, asks, and saves what it loaded with the
answer. Each action is one system call. Others save by rename or in place,
remove the file, die, or the power fails, at any point. Inode numbers are given
out again, lowest first, because the code compares them.

`exposed` is the ghost of the gaps. A save slips past a process when it comes
between that process's read and its first look at the destination, between its
last check and its `rename`, or in place (or under a number given out again) in
the very inode it observed. Left out: permissions and ownership, file systems
without hard links and the Windows fallback, which depend on the operating
system; the schema and the merge of a hooks file as data.

## 3. What is checked

`Spec` without fairness, except where a liveness property is named. Deadlock is
not checked: every run ends at its bounds or budgets, and a closed host, a gone
process and a finished writer really stop. A module's `TypeOK` is proved for every
value of the constants (section 4) and is not repeated in a run, but in `qmk`, where
it says that sequence numbers stay in their range.

| Run | Question | Properties |
|---|---|---|
| `registry` | any sequence of calls by three interchangeable wrappers on three slots | `NoSharedSlot`, `SelectionOnHardware`, `NavigationCycles` (relative steps visit every selectable task and come back, both ways), `SelectionLostOnlyWhenEmpty` |
| `registry_revisions` | a clock that stands still | `RevisionOnChange` (every change of a record, and every gain of the selection, is stamped later), `LateCopyIsIgnored` (a second copy of a recovery registration reverts nothing) |
| `host` | two clients and a host, fresh or promoted, in every order of registration, retry, stream, drop, return, leave and timeout, with room for all or not | `ReachableOrLeased`, `RegistrationsAreCurrent`, `SelectionPresent`, `ClientViewFresh`, `WithinLimits`, `TimersSpareStreams` |
| `host_sessions` | two sessions claimed by two wrappers, one of them perhaps shown twice by the restored status; the timers under fairness | `SessionBooksAgree`, `SilentTasksSettle` |
| `host_late_hook` | a hook body that arrives after its wrapper went | `OwnersAreRegistered`, **violated** |
| `lease` | three wrappers, any of which may die anywhere; two that discover; with and without start ids | `OneLease` (on Linux no reclaimer, however long interrupted, unlinks a living owner's lock), `LeaseIsSingleton` (refinement of `Lease`, on Linux), `TakeoversSerialize` (one process past the guard of a lock), `DescriptorKept` (the descriptor of a live host is in place or about to be put back, but for a crash in between or another that was put back first, on Linux), `HostReturns` (somebody hosts again, on Linux) |
| `lease_elsewhere` | the same promise where no start id helps | `OneHost`, **violated** |
| `recovery` | three wrappers over successive hosts, with caches of different age | `SlotAsKnown` (no survivor's Agent key moves), `CrashIsInvisible` (slots, states, unread marks and selection are back when everybody agrees again), `OwnTaskNotReverted` (an older cache does not take back what a wrapper has seen of its own task), `SurvivorsReturn`, `GoneTasksGo` |
| `recovery_selection` | what `docs/architecture.md` says of how the selection changes, for a client that returns after its lease ran out | `StaleCacheStealsNothing`, **violated** |
| `qmk` | a link that loses, damages and delays reports and hands them over again, under two kinds of budgets: the feedback's and the fingers'; and the bytes of an exchange between the two implementations, any of which may change, for keyboards built at either end of the permitted range of timeouts | `TypeOK` (sequence numbers in their range among the rest), `AckNamesItsFrame`, `ReplaysDroppedUntilAnEdge` (a report that comes again does nothing until its control has changed sides), `StuckOnlyByMissedRelease`, `OverlayIsAFrame`, `HandlesAccounted`, `BoardEndsUpToDate`; of the bytes `ReportsArriveAsMeant` (a frame is on the board what `QmkLink`'s records are), `AnswersNameTheFrame`, `TwinsAgree` (a refused frame leaves no trace), `KeepAliveInTime` (two lost sendings do not cost a heartbeat) |
| `input` | keys struck, held and typed through a line that splits and stalls; a gamepad with layers and a stick that comes and goes | `DecodedInOrder`, `FreshPresses`, `InputSettles` |
| `files` | two writers of one file, one call at a time, and everything others may do | `FileWhole`, `LostOnlyUnseen` |

Every property of a passing run is shown to have teeth: the definition named in
`PROJECT.json` is replaced by a mutated form (kept in the module, marked
`Mutant:` or as a mistaken variant), and TLC then finds the property violated.

### Bounds

* Two or three slots instead of six. Sharing, moving, running out and overflow
  all need one slot and one task more than slots; navigation needs three slots,
  for a middle one that can be skipped.
* Three wrappers: one that holds, one that comes, and one that inherits the
  selection.
* `MaxStamp`: stamps of one task only ever grow by calls on it; two or three
  revisions reach every comparison (older, equal, newer) of a late copy. In
  `recovery` it is out of reach: the budgets end a behaviour first.
* `MaxGen = 3`: a registration, one that supersedes it, and one after a removal;
  enough for a timer or a `close` event two generations old.
* `MaxHooks = 1`: one hook whose body is awaited. Two hooks differ from one
  only by the order of their bodies, which is the order of two successive hooks.
* `Limits`: `MAX_TASKS` and `MAX_STREAMS` are 64 in the product and 1 to 3 here, so
  that two clients meet them; the code does not depend on the value.
* Three wrappers for the lease: a dead owner, a reclaimer that dies holding its
  guard, and one that must still get through. `GuardLimit = 2` is then exactly
  enough, so a guard number lost would shut everyone out. `MaxLocks = 1`: each
  process owns the lock once, so three owners follow each other.
* `SlowSteps = FALSE`: outside Linux 30 s do not pass in the middle of an
  acquisition or release. With slow steps two reclaimers could hold a guard,
  which the code accepts by design (its grace period bounds that doubt).
* `recovery`: five budgets, each a different mix of crashes or departures, stream
  breaks, reports and selections, failing hardware, lost answers and slow
  clients. `InOrderOfArrival` lets the wrappers start in one order only: they
  differ in nothing else, and nobody is obliged to start.
* `qmk`, a behaviour of records: six agents, two keys, one place in the held table (so that the second key
  is one too many), two sequence numbers (so that they wrap and run out with two
  reports waiting), one retry, and twelve budgets.
* `qmk`, a behaviour of bytes: all keycodes and phases; five lists of slots (in order, out of order with
  gaps, empty, and two that are refused); one sequence number; any of the 32 bytes
  replaced by one of four values, which together with what it was lie on both sides of
  every comparison in the code; one damaged report, with exchanges before and after it. `MCQmkLink` chooses the
  level of a behaviour at its start; the other level stands still.
* `input`: three controls, of which one is a prefix of another and one begins with
  the byte of ordinary text; two layers, two buttons and one stick, with an axis value in
  every band that a threshold of the code cuts out but 0.3 to 0.4 and 0.6 to 0.75; a
  patience of one tick, a guard and a flick window of one, a repeat window of three, so that a key is held for longer than
  the window and a decoding is later than a repeat.
* `files`: five inodes for two writers' temporaries, the file, a save and one
  number that comes back; one retry of three.

### Fairness

* `host_sessions`: `TimersFire` is weak fairness of the two timers of the host
  server and of nothing else: a timer set with `setTimeout` and not cleared
  fires while the process lives. No client, socket, user or agent is assumed to
  do anything.
* `lease`: a process that has begun an acquisition, a discovery or a
  release goes on (`WF` of `Step`: nothing in it waits on another process, the
  probe has a timeout), and a wrapper without a host tries again and again (`SF`
  of `Acquire`: the recovery loop of `src/cli.ts` calls `listenRuntime` in every
  round, with a lookup in between). Closing, failing and dying are never forced.
* `recovery`: programs go on, timers fire and sockets close. Nobody has to start,
  report, choose or end, and no status has to arrive.
* `qmk`: the event loop of the host process runs its timers and reads its handle,
  the keyboard reads its endpoint, and a copy under way comes. Faults are never forced, and the property
  asks for nothing until plug, host and machine stay.
* `input`: the clock ticks, the process reads and its timers fire, posts arrive or
  fail, a held key is let go of at last, and the poll goes on. Whether anybody
  touches an input is up to them.

### What the violated runs show

1. `host_late_hook`. `handleHook` asks whether the wrapper is registered, awaits
   the body, and files the session afterwards without asking again. If the
   wrapper was removed meanwhile, the session stays filed under a wrapper that
   nobody will remove again, and the same session resumed in another wrapper is
   answered 409 for the life of the host. `test/server.test.ts` ('rejects hooks
   for unregistered wrappers') asserts the opposite of the table.
2. `lease_elsewhere`. `safeUnlinkOwnedLock` reads the lock and unlinks whatever is
   there by then. On Linux a living owner's lock is safe in between. Elsewhere a
   closing host that has removed its descriptor has only the age of its lock to
   speak for it, and that is over 30 s: others may reclaim the lock, one makes its
   own and hosts, the late unlink removes it, and the next process hosts too.
3. `recovery_selection`. "Selection changes only through Agent controls, relative
   task controls, or selected-process exit", says `docs/architecture.md`.
   `register` (`src/state.ts`) compares ages only for a task it still has. In the
   run the host lives on: the stream of the selected task breaks, the user selects
   another, the 5 s lease of the first runs out and its record goes; its client
   registers as new with the status it kept, and its old `selected` undoes what the
   user chose since.

Three more divergences were met while modelling and have no run of their own:

* `docs/architecture.md` says of every task "Completion remains unread until
  that slot's Agent control is pressed." `selectRelative` goes through
  `selectRecord` (`src/state.ts`), which acknowledges a completion as an Agent key
  does.
* `restoreQuarantinedDescriptor` (`src/runtime.ts`) keeps the quarantined
  descriptor where it is when there is another in place, whichever is newer. With
  two removals of older descriptors under way, one can put back an older one just
  before the other would have restored the live host's.
* `installClaudeHooks` (`src/hooks-install.ts`) is said to preserve everything
  else, and drops groups of other people's hooks that are not well formed.

## 4. What is proved

`TaskRegistryProofs` proves, for any set of wrappers and sessions, any number
of slots and any clock values, from the assumptions named in `TaskOps` and
`TaskRegistry`:

* `RegistryInvariant`: `Spec => []Inv`, where `Inv` is the conjunction of
  `TypeOK`, `NoSharedSlot` and `SelectionOnHardware`. They are carried together:
  each method's lemma takes a registry with all three and returns one. A granted
  slot is free only in a registry that is well typed, and a fallback is a task
  in a slot only because it is chosen among registered ones.
* `TypeCorrect`, `SlotsNeverShared`, `SelectionAlwaysOnHardware`: its parts.
* `SelectionNeverDropped`: `Spec => SelectionLostOnlyWhenEmpty`, from the lemmas that
  say where a fallback may be found.
* `CopiesAreIgnored`: `Spec => LateCopyIsIgnored`. The first copy of a recovery
  registration leaves a revision that its snapshot does not exceed, so the second is
  an older one, and `RegisterAgain` with an older snapshot is the identity on all
  it could revert.
* `NavigationIsARing`: `Spec => []NavigationCycles`. `RelativeTarget` is the next
  selectable task by slot, or the first after the last; Left is the same over the
  slots counted down, so one argument serves both (`Follows`). A set of tasks that
  has, with every task, the one that follows is all of them (`ClosedIsAll`): a walk
  that has not been everywhere visits a new one with every press. The presses are
  counted by an induction that starts from the least number for which the claim fails
  (`EveryNatural`), since the library's induction theorem cannot be used.
* `RevisionsStampRecords`: `Spec => RevisionOnChange`. No `updatedAt` goes back, and
  a step that changes the record of a task which stays registered, or selects it,
  raises its `updatedAt`, by the `previous + 1` of `NextUpdatedAt` and whatever the
  clock says. (Promotion raises none: it rewrites the connection of every restored
  task and keeps their revisions. Losing the selection raises none either:
  `selectRecord` stamps the task that gains it alone, so two snapshots of one
  revision have one record and may differ in `selected`.)

The argument is laid out by operator: `TaskOpsProofs` has a lemma for each method
(what it returns is a registry, keeps slots exclusive, keeps the selection on a
slotted task), with `FallbackWrapper`, a `CHOOSE` over a possibly empty set, at
the bottom; `TaskRegistryProofs` has one step per action that cites them.

`HostServerProofs` proves, for any finite set of wrappers, any slots, sessions,
limits, registrations and hooks, from the assumptions named in `HostServer` (a
restored status is a registry with unshared slots and a selection in a slot, which
is what `TaskRegistryProofs` shows of the host that published it):

* `TasksReachableOrLeased`: `Spec => []ReachableOrLeased`;
* `OnlyCurrentRegistrations`, `ClientViewsAreFresh`, `LimitsHold` and
  `ServerTypeCorrect`: the invariants of those names;
* `SelectionIsPresent`: `Spec => []SelectionPresent`;
* `SessionBooksHold`: `Spec => []SessionBooksAgree`, with nothing assumed of the
  sessions in a restored status: several of its tasks may show one;
* `LateTimersSpareStreams`: `Spec => TimersSpareStreams`.

None is inductive alone. `Inv` adds `RegistrationBooks` (one registration per
wrapper, a client's; one that can still be streamed to belongs to a connected
task), `SocketBooks` (the `close` events to come are of generations already given
out, so that the next one is new, and of no stream still to open), `Phases` (a
restored host has only leased tasks until it registers its own) and `Room`, which
counts wrappers with a registration: `OnePerWrapper`, a bijection, makes that the
number of registrations, so the limit survives a retry that replaces one. There is
a lemma for each handler; those that touch neither registrations nor which tasks
there are share `AlikeStep`. That a registration is always current is also why
`CloseOnly`, the branch of `closeInstance` for a superseded one, is never taken.

`SelectionIsPresent` needs to know that no task is `disconnected`: `markDisconnected`
has no caller, so no report, snapshot or cached status has that state
(`StatesAssumption`). Then every task with a connection and a slot is a candidate
of the fallback, and what can be selected is found. `SessionBooksHold` adds that to
the books: five handlers write the three tables, and each is shown to move a session
out of the task it was in before filing it anew.

`HostRecoveryProofs` proves, for any wrappers, slots and budgets, over any number of
hosts that crash, fail to start or leave:

* `SlotsNeverMove`: `Spec => []SlotAsKnown`;
* `OwnStateIsNeverReverted`: `Spec => OwnTaskNotReverted`;
* `CrashesAreInvisible`: `Spec => CrashIsInvisible`;
* `RecoveryTypeCorrect`: the types.

A slot passes through many hands: the host's registry, the caches of clients that
were told of it, the registration a wrapper was answered with. `OneHome` says that
there is one slot per wrapper that all of them name, and is an existential because no
single place keeps it: after a crash it is only in the caches. `Kin` and `Placed` say
which of these a process has at its point of the program. `OwnIsLatest` says of the
copies of a task that two with one stamp are equal, and that none as late as its
wrapper's own shows anything else unless the wrapper has yet to be told. This is
where `Now` matters: a new stamp is past all copies, so it cannot meet an
older copy with the same number.

`CrashesAreInvisible` compares the registry with one of several hosts ago, which is in
none of the places above. A second invariant, `Since`, ties every copy to it: `settled`
is what everybody last agreed on, and while no agent reports and nobody chooses, each
copy of a survivor's task, at the host or in a cache, looks as it does there
(`KeptTask`), and a seeded registry and every cache name its selection (`KeptChoice`).
It holds whatever order the copies arrive in, because no step but a report or a choice
shows anything new: `QuietStep` says of each of the others that what a task shows
afterwards one of its copies showed before. `HostsItself` (a host is registered with itself) and
`ServedByHosts` (nobody was served by a process that does not host yet) bring the newcomer into line:
a process that has not started cannot be one of those that agreed. When everybody agrees again,
`Since` holds of the new registry, in which all survivors are connected, so it is the
old one on them.

`QmkProofs` proves of the link, for any keyboard, keymap, held table,
candidates, statuses, number of sequence numbers and retries, and whatever the
environment is given to spend:

* `ReplaysDropped`: `Spec => []ReplaysDroppedUntilAnEdge`;
* `StuckExplained`: `Spec => []StuckOnlyByMissedRelease`;
* `OverlayComposed`: `Spec => []OverlayIsAFrame`;
* `HandlesExplained`: `Spec => []HandlesAccounted`;
* `LinkTyped`: the types.

The parts of `LinkInv` are predicates of the values they relate, so that one lemma on
an operation serves every action it is a part of: `Fit` of the adapter's fields, with
the set of frames it may compose as a parameter; `Linked`, of the two ends and the
pipe between them; `Recorded`, of the pipe `up`, the copies still to come, the journal
and the remembered packets; `Accounted`, which follows each pressed control to a finger,
to a release in the pipe that will not be taken for a copy (`Fresh`) or to one that was
missed. `Recorded` does not rest on the order of the pipe, since a copy comes when it
likes: a report that was acted on and is still to come (`Settled`) is remembered, or is a
release of a control that is not pressed, or its control has changed sides since; and
every report under way or remembered has a number already given out (`Numbered`), so
that what a key sends next is no copy. The held
table, the keymap and the layer enter through `HeldAreDown` only.

It also proves of the reports, for any messages, numbers, keycodes, places, builds of the
keyboard and options of the host that the code admits, and any damage to the bytes
(`BytesSpec` is the specification of `QmkReports`; its `BytesInit` and `BytesNext` have
names of their own so that a module may extend it beside `QmkLink`):

* `ReportsAreUnderstood`: `BytesSpec => []ReportsArriveAsMeant`;
* `AnswersAreNamed`: `BytesSpec => []AnswersNameTheFrame`;
* `TwinsAlwaysAgree`: `BytesSpec => []TwinsAgree`, of all reports of 32 bytes, where the run
  changes one byte of a few;
* `KeptAliveInTime`: `BytesSpec => []KeepAliveInTime`, for every timeout that
  `opencontrol.h` permits;
* `CableIsKept`: the inductive invariant `CableInv` they follow from.

`CableInv` says of each report under way that it is what its sender encoded but for
the bytes that were damaged, of the keyboard's answer that it is the firmware's to what
arrived, and of what the host heard that it is the codec's reading of
that answer. The rest are lemmas on the operators: an encoded report has 32 bytes and is decoded to what
it was made of; an unread mask built bit by bit by one side is read bit by bit by the
other; the two readings of `TASK_STATES` refuse for the same reasons in a different
order. The assumptions are those of `QmkMessages` (`MessagesAssumption` to
`DamageAssumption`: each parameter is within the range its sender keeps to, such as bytes for
sequence numbers and the bounds of `opencontrol.h` for the timeout) and `NoneIsNoReport`.

`RuntimeLeaseProofs` proves, for any set of processes and any limits, where start
ids tell the living from the dead (Linux); nothing is assumed of time, so a
process may be interrupted between two calls for as long as it takes:

* `MutualExclusion`: `Spec => []OneLease`;
* `OneReclaimer`: `TakeoversSerialize`, and elsewhere too, where no step of an
  acquisition takes 30 s (`SlowSteps = FALSE`, as the property itself says);
* `DescriptorSurvives`: `Spec => []DescriptorKept`;
* `ImplementsLease`: `Spec => LeaseIsSingleton`, every step is one of `Lease` or a
  stutter;
* `TypeCorrect`, on every platform: what is written to a guard or an orphan has
  its type because of where the process is, so `TypeInv` adds that.

`OneLease` is not inductive: that a reclaimer unlinks a dead owner's lock and no
other depends on all it did before. `LinuxInv` says of each process what its
point entitles it to believe: past the first look the owner it saw is dead; under a
guard the lock is still that one; the guards below its own are dead; a living
process has guards only on its way through a reclaim. `GuardInv` says of the
guards that one number is made once, and only above dead ones. So a new guard
is made when nobody alive is past a guard of that lock: a living one below
would have stopped the count, and a living one above rests on a dead one at
this number, which is free. Two reclaimers of one lock can then not both be about to
unlink, and a lock made meanwhile is not the one that was seen. There is a
lemma for each kind of step: those that only look, those that make a guard,
and each that unlinks.

`OneReclaimer` rests on `Takeovers` alone, which counts guards and needs no start id:
below a process with a guard all numbers are taken by the dead, or by files that
look so. `DescriptorSurvives` rests on `Naming`: whatever name a process knows was
published before (`Past`), so a host's latest name is in nobody's hands until it
publishes; a process that removes a descriptor does not mean that of a serving host
(`Spared`); a quarantine is full only between the two steps of a removal, or for ever
if its owner died between them (`Parked`); and the descriptor of a host that serves
is in place, in a quarantine or left in one (`Somewhere`). A living process that has it
in its quarantine is therefore between the two steps and meant another, so it puts
this one back (`KeptSomewhere`). The two ways in which a living host does stay out of
sight are in the property, and no theorem says that it does not: who renamed its
descriptor died before putting it back, or found that another had been put back first.

`PrivateFilesProofs` proves, for any processes, inodes, retries and budgets,
from `FilesAssumption` and `NoneIsNoFile` (`None` is neither an inode nor a file):

* `ReadersFindWholeFiles`: `Spec => []FileWhole`;
* `SavesAreLostOnlyUnseen`: `Spec => LostOnlyUnseen`.

Both follow from `FilesInvariant`. Its `Inv` has, beside the types: `NamesSteady`
(where the name leads, now or after a power failure, is a file the power cannot
tear or somebody else's), `Prepared` (a temporary, from its creation to its
publication, is whole, synced from its fsync on, and not yet the file), `Apart`
(no two processes have one temporary, which rests on a number not being given out
while anybody refers to it) and `Covered`: a process that nothing slipped past
has, in what it read or wrote, every save of the file it is about to replace.
`Covered` is the one that needs care, since the file changes under the process:
it is stated for each point of the program, and every step that changes
a text or a name either keeps it or puts the process among the exposed.

`ControlsProofs` proves, for any table of bindings (of which one may be the beginning of
another), any typed text, any patience, and any way to split the line into reads:

* `ControlsAreDecodedInOrder`: `Spec => []DecodedInOrder`;
* `LineIsDecoded`: the inductive invariant `LineInv` it follows from.

`DecodedInOrder` is not inductive: that a decision was right for the bytes known says
nothing of those still on the line. `LineInv` adds that each decision since the last
flush is `Firm`: no control is longer than the bytes it was made from, so what follows
them can neither complete a longer one nor take the chosen one away
(`DecidedForGood`). It is the condition on which the loop of `process` goes on, and why
it holds bytes back. The loop is a recursive function on the decoder's states;
`LoopsEnd` shows that the equation of such a function has a solution when a measure
falls with every pass (here the pending bytes, of which each pass takes at least one),
so `ProcessUnfolds` may be used, and what all passes do (`ProcessWorks`) is an
induction on the number of pending bytes. `ByCounting` stands for the library's induction
theorem: a set of numbers with 0 and every successor is all of them, by the well-founded
order of finite sets. The same serves `FlattenSeq`, which spells tokens. The
assumptions are `BindingsAssumption` (no binding is empty; two controls have two),
`PatienceAssumption` and `ControlsAssumption`.

Assumptions on the constants, beside those named above: `NoneIsNoTask`,
`NoneIsNoCache`, `NoneIsNoFrame`, `NoneIsNoDevice` (`None` is a value of its own),
`StampsAssumption`, `StatusesAssumption` (a status is what the registry can show),
`KeymapAssumption` (a keymap has the keycodes of the layer), `CandidatesAssumption`
(the system lists an interface once, the keyboard among them). TLC evaluates each.

What proving changed in the models. `QmkLink` explained a stuck key by budgets left
over from anything; it now keeps the ghosts `finger` (which key holds which control)
and `missed` (whose release was lost), and the property names them. `Listed`, the
order of the candidates, is stated as what the filter does. `Promote` has the bound on
stamps that every other step had. `CrashIsInvisible` was true in the run only because
its budgets are small: a survivor whose stream breaks may outstay its lease, the host
then selects another task, and if the host dies next, that choice is what the survivors
go on with. A host that registers a newcomer before the selected task comes back does the same.
That is what the code means to do, so the ghost `settled` now forgets the
choice (and only the choice) when a host goes on without the selected task (`Forgets`),
and compares sessions as well. The parameters of `QmkReports` moved to
`QmkMessages`, with an assumption each, and a mask is the sum of the weights of its
bits. The rest are the assumptions above.

Only model-checked, and why:

* `AckNamesItsFrame`: it is not true of every instance. An ERROR retires a frame and
  leaves no tombstone, so its number may be given out while a slow answer to it is
  under way; with few numbers, and an environment that may be that slow more often
  than the run's, an old acknowledgement meets a new frame. With 256 numbers and the
  timeouts of the product this takes a report that is later than 200 others.
* `FreshPresses`: it is not true of every instance either. A process that is held up for
  longer than the repeat window takes the next copy of a held key for a press; so the run
  has one stall of one tick, and a window of three. That an event loop is never held up for
  `TERMINAL_REPEAT_WINDOW_MS` is nothing the code ensures.
* All liveness: `SilentTasksSettle`, `HostReturns`, `BoardEndsUpToDate`,
  `SurvivorsReturn`, `GoneTasksGo`, `InputSettles`.

## 5. Not modelled, and what could come next

The reasons are beside each component in `PROJECT.json`. Stateless tables and
parsers (harnesses, drivers' reports, keymaps, schemas, themes) have no
behaviour of their own; the PTY, logging, prompts and diagnostics are I/O;
permissions, ownership and filesystems without hard links depend on the operating
system. Rate limits, bearer tokens and routing of key bytes change none of the
modelled state.

Worth doing next, in this order: an assumption on the environment of `QmkLink` under
which `AckNamesItsFrame` can be proved; sessions in the run of `HostRecovery` (the
theorems have them, the run has none), so that TLC too sees two caches naming one session meet; the
queue and lock safety of the gamepad's `Deduper` as lemmas; a filesystem without hard
links in `RuntimeLease`.
