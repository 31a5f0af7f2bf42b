----------------------------- MODULE Controls ------------------------------
(***************************************************************************)
(* From the hand to the action, for the two inputs that share the host's   *)
(* TaskActionRouter.  A keyboard with stock VIA keycodes: its bytes are    *)
(* read by an "opencontrol run" process in chunks, decoded, classified as  *)
(* press or repeat (src/src/input/terminal-input-adapter.ts), timed out    *)
(* (terminal-input-relay.ts) and, where that process is not the host,      *)
(* posted to it (cli.ts).  A gamepad: found, opened, reporting and         *)
(* unplugged (Gamepad).  Time is a clock whose ticks age what is timed.    *)
(***************************************************************************)
EXTENDS TerminalDecoder, Gamepad, FiniteSets

CONSTANTS AgentKeys,   \* agent.1 to agent.6, of the bound controls
          Repeatable,  \* bound controls whose action accepts repeats
          Typed,       \* bytes of ordinary text
          Tilts,       \* values of an axis
          Window,      \* TERMINAL_REPEAT_WINDOW_MS, in ticks
          Budgets,     \* what the hands and the line may do in a behaviour
          None

ASSUME ControlsAssumption ==
  /\ AgentKeys \subseteq Bound /\ Repeatable \subseteq Bound \ AgentKeys
  /\ Typed \subseteq STRING /\ Window \in Nat

VARIABLES line,      \* bytes the terminal sent and nobody read yet
          decoder, timer,
          quiet,     \* lastControlAt: ticks since a control was last decoded
          isHost,    \* this process hosts the registry, or posts to the host
          posts,     \* control events on their way to the host
          holding,   \* the control key that is held down
          rested,    \* it has not repeated since the last tick
          plugged, down,  \* the gamepad: is it there, which buttons are down
          tilt,      \* where its sticks are
          gamepad,
          selected,  \* the host has a selected task
          budget,
          heard,     \* ghost: what was read since the line was last quiet for a tick
          owed       \* ghost: presses and tilts not yet answered

terminalVars == <<line, decoder, timer, quiet, posts, heard>>
handVars     == <<holding, rested>>
gamepadVars  == <<plugged, down, tilt, gamepad>>
fixedVars    == <<isHost, selected>>
vars == <<terminalVars, handVars, gamepadVars, fixedVars, budget, owed>>

Inputs == Bound \cup Buttons \cup Sticks

Centre == [x |-> 0, y |-> 0]

NothingHeard == [bytes |-> <<>>, tokens |-> <<>>, torn |-> 0]

Init ==
  /\ line = <<>> /\ decoder = EmptyDecoder /\ timer = FALSE
  /\ quiet = [c \in Bound |-> Window + 1]
  /\ isHost \in BOOLEAN /\ selected \in BOOLEAN /\ posts = <<>>
  /\ holding = None /\ rested = FALSE
  /\ plugged = FALSE /\ down = {} /\ tilt = [s \in Sticks |-> Centre]
  /\ gamepad = Attach(NewGamepad, FALSE, FALSE)
  /\ budget \in Budgets
  /\ heard = NothingHeard /\ owed = [x \in Inputs |-> 0]

Spend(what) == budget[what] > 0 /\ budget' = [budget EXCEPT ![what] = @ - 1]

-----------------------------------------------------------------------------
(***************************************************************************)
(* The hand on the keyboard.                                               *)
(***************************************************************************)
\* A sequence that a stalled line cuts short may be taken for the control it
\* begins with, so that one is owed too.
Strike(c) ==
  /\ holding = None /\ Spend("strikes")
  /\ holding' = c /\ rested' = FALSE
  /\ line' = line \o Bindings[c]
  /\ owed' = [x \in Inputs |-> IF x \in ExactPrefixes(Bindings[c]) THEN owed[x] + 1 ELSE owed[x]]
  /\ UNCHANGED <<decoder, timer, quiet, posts, heard, gamepadVars, fixedVars>>

\* A key held down repeats its bytes.
AutoRepeat ==
  /\ holding # None /\ line = <<>> /\ Spend("repeats")
  /\ line' = Bindings[holding] /\ rested' = FALSE
  /\ UNCHANGED <<decoder, timer, quiet, posts, heard, holding, gamepadVars, fixedVars, owed>>

LetGo ==
  /\ holding # None
  /\ holding' = None /\ rested' = FALSE
  /\ UNCHANGED <<terminalVars, gamepadVars, fixedVars, budget, owed>>

TypeText(byte) ==
  /\ Spend("keys")
  /\ line' = Append(line, byte)
  /\ UNCHANGED <<decoder, timer, quiet, posts, heard, handVars, gamepadVars, fixedVars, owed>>

-----------------------------------------------------------------------------
(***************************************************************************)
(* What a control event does on the host (dispatchControl and              *)
(* TaskActionRouter.handleControl): an agent key selects on a press, any   *)
(* other one acts on the selected task, on a repeat only if it may.        *)
(***************************************************************************)
Acts(event) ==
  \/ event.control \in AgentKeys /\ event.phase = "press"
  \/ /\ event.control \notin AgentKeys /\ selected
     /\ event.phase = "press" \/ event.control \in Repeatable

\* The presses still unanswered once the host has handled the events.
Answered(events) ==
  [x \in Inputs |->
     owed[x] - Cardinality({i \in DOMAIN events : events[i].control = x /\ Acts(events[i])})]

\* Mutant: only a press starts the quiet interval anew.
ClassifyFromPress(a, token) ==
  LET c == token.what IN
  [quiet  |-> [a.quiet EXCEPT ![c] = IF @ <= Window THEN @ ELSE 0],
   events |-> Append(a.events, [control |-> c,
                                phase |-> IF a.quiet[c] <= Window THEN "repeat" ELSE "press"])]

\* deliver: every copy of a control starts its quiet interval anew.  (The clock
\* does not step back here: behind such a step a copy would be a press.)
Classify(a, token) ==
  LET c == token.what IN
  [quiet  |-> [a.quiet EXCEPT ![c] = 0],
   events |-> Append(a.events, [control |-> c,
                                phase |-> IF a.quiet[c] <= Window THEN "repeat" ELSE "press"])]

IsControl(token) == token.kind = "control"

\* The adapter delivers what the decoder emitted; sendTerminalControl hands
\* each event to this process's own server, or posts it.
Deliver(d) ==
  \E a \in {FoldLeft(Classify, [quiet |-> quiet, events |-> <<>>],
                     SelectSeq(d.tokens, IsControl))} :
     /\ decoder' = [d EXCEPT !.tokens = <<>>]
     /\ quiet' = a.quiet
     /\ IF isHost THEN owed' = Answered(a.events) /\ UNCHANGED posts
                  ELSE posts' = posts \o a.events /\ UNCHANGED owed

\* Mutant: the timer fires once.
TimerSpent(d) == timer' = FALSE

\* armTimer: a timer runs while bytes are held back.
ArmTimer(d) == timer' = (d.pending # <<>>)

\* The process reads what has arrived of the line, all of it or a part.
Read(n) ==
  \E chunk \in {SubSeq(line, 1, n)} : \E d \in {Push(decoder, chunk)} :
    /\ line' = SubSeq(line, n + 1, Len(line))
    /\ Deliver(d) /\ ArmTimer(d)
    /\ heard' = [bytes  |-> heard.bytes \o chunk,
                 tokens |-> heard.tokens \o d.tokens,
                 torn   |-> IF Overdue(decoder) THEN Len(heard.tokens \o Flush(decoder).tokens)
                                                ELSE heard.torn]
    /\ UNCHANGED <<handVars, gamepadVars, fixedVars, budget>>

\* The timer fires, possibly a little early: then nothing is flushed yet.
TimerFires ==
  \E d \in {FlushExpired(decoder)} :
    /\ timer /\ decoder.age + 1 >= Patience
    /\ Deliver(d) /\ ArmTimer(d)
    /\ heard' = [heard EXCEPT !.tokens = @ \o d.tokens,
                              !.torn = IF d.tokens = <<>> THEN @ ELSE Len(heard.tokens \o d.tokens)]
    /\ UNCHANGED <<line, handVars, gamepadVars, fixedVars, budget>>

\* A post reaches the host, in any order.
PostArrives(i) ==
  /\ owed' = Answered(<<posts[i]>>)
  /\ posts' = RemoveAt(posts, i)
  /\ UNCHANGED <<line, decoder, timer, quiet, heard, handVars, gamepadVars, fixedVars, budget>>

\* A post fails or exceeds the rate limit: it is logged and not sent again.
PostFails(i) ==
  /\ Spend("losses")
  /\ posts' = RemoveAt(posts, i)
  /\ UNCHANGED <<line, decoder, timer, quiet, heard, handVars, gamepadVars, fixedVars, owed>>

-----------------------------------------------------------------------------
(***************************************************************************)
(* The hand on the gamepad, and the gamepad's cable or radio.              *)
(***************************************************************************)
PressButton(b) ==
  /\ plugged /\ b \notin down /\ Spend("presses")
  /\ down' = down \cup {b} /\ owed' = [owed EXCEPT ![b] = 1]
  /\ UNCHANGED <<terminalVars, handVars, plugged, tilt, gamepad, fixedVars>>

\* owed is below 0 once too much was done, and stays so.
ReleaseButton(b) ==
  /\ b \in down
  /\ down' = down \ {b} /\ owed' = [owed EXCEPT ![b] = IF @ > 0 THEN 0 ELSE @]
  /\ UNCHANGED <<terminalVars, handVars, plugged, tilt, gamepad, fixedVars, budget>>

\* An axis leaves its middle.
Leaves(v, w) == v \in -29 .. 29 /\ w \notin -29 .. 29

\* A stick is moved when its last place has been reported: places nobody read
\* make no difference.  One flick is owed for leaving the centre, and one more
\* whenever another axis leaves its middle.
TiltStick(s, x, y) ==
  /\ plugged /\ Spend("tilts")
  /\ gamepad.driver = "open" => gamepad.seen.axes[s] = tilt[s]
  /\ OnCompass(x, y) /\ OnCompass(x, tilt[s].y)
  /\ tilt' = [tilt EXCEPT ![s] = [x |-> x, y |-> y]]
  /\ owed' = [owed EXCEPT ![s] =
       IF ~(Leaves(tilt[s].x, x) \/ Leaves(tilt[s].y, y)) THEN @
       ELSE IF Within(tilt[s], 30) THEN 1 ELSE @ + 1]
  /\ UNCHANGED <<terminalVars, handVars, plugged, down, gamepad, fixedVars>>

\* What an input is still owed after these acts.
Remaining(x, acts) ==
  owed[x] - Cardinality({i \in DOMAIN acts :
                           acts[i] = x \/ (x \in Sticks /\ acts[i] \in Range(StickIds[x]))})

\* A report of the open device.  A layer switch leaves no press alive, and a
\* stick back in its middle is owed nothing.
Report ==
  \E g \in {HandleReport(gamepad, down, tilt, selected)} :
     /\ plugged /\ gamepad.driver = "open"
     /\ gamepad' = [g EXCEPT !.acts = <<>>, !.switched = FALSE]
     /\ owed' = [x \in Inputs |->
          CASE x \in Bound   -> owed[x]
            [] x \in Buttons -> IF g.switched /\ Remaining(x, g.acts) > 0
                                  THEN 0 ELSE Remaining(x, g.acts)
            [] x \in Sticks  -> IF Within(tilt[x], 30) /\ Remaining(x, g.acts) > 0
                                  THEN 0 ELSE Remaining(x, g.acts)]
     /\ UNCHANGED <<terminalVars, handVars, plugged, down, tilt, fixedVars, budget>>

\* Plugged in or woken: buttons held down meanwhile count as pressed.
Plug ==
  /\ ~plugged /\ Spend("plugs")
  /\ plugged' = TRUE
  /\ UNCHANGED <<terminalVars, handVars, down, tilt, gamepad, fixedVars, owed>>

Unplug ==
  /\ plugged
  /\ plugged' = FALSE
  /\ UNCHANGED <<terminalVars, handVars, down, tilt, gamepad, fixedVars, budget, owed>>

\* The error of the device that has gone; the buttons it had down are pressed
\* anew for the next one, and so are its sticks tilted.
DeviceGone ==
  /\ ~plugged /\ gamepad.driver = "open"
  /\ gamepad' = DeviceError(gamepad)
  /\ owed' = [x \in Inputs |-> IF x \in down \/ (x \in Sticks /\ ~Within(tilt[x], 30))
                               THEN 1 ELSE owed[x]]
  /\ UNCHANGED <<terminalVars, handVars, plugged, down, tilt, fixedVars, budget>>

\* The poll finds the device and opens it, or fails to.
Poll(opens) ==
  /\ gamepad.polling /\ plugged
  /\ IF opens THEN UNCHANGED budget ELSE Spend("failures")
  /\ gamepad' = Attach(gamepad, plugged, opens)
  /\ UNCHANGED <<terminalVars, handVars, plugged, down, tilt, fixedVars, owed>>

-----------------------------------------------------------------------------
\* A tick of the clock.  Within one the process reads the line and runs the
\* timer that is due, unless one of them stalls, and a held key repeats.
Older(n, bound) == IF n < bound THEN n + 1 ELSE n

Tick ==
  /\ ~(holding # None /\ rested)
  /\ IF line = <<>> /\ ~Overdue(decoder) THEN UNCHANGED budget ELSE Spend("stalls")
  /\ decoder' = [decoder EXCEPT !.age = IF decoder.pending = <<>> THEN 0
                                        ELSE Older(@, Patience)]
  /\ quiet' = [c \in Bound |-> Older(quiet[c], Window + 1)]
  /\ rested' = (holding # None)
  /\ gamepad' = [gamepad EXCEPT
       !.guard  = IF @ > 0 THEN @ - 1 ELSE 0,
       !.sticks = [s \in Sticks |-> IF @[s].flick = "none" THEN @[s]
                                    ELSE [@[s] EXCEPT !.age = Older(@, FlickWindow + 1)]]]
  /\ heard' = IF line \o decoder.pending = <<>> THEN NothingHeard ELSE heard
  /\ UNCHANGED <<line, timer, posts, holding, plugged, down, tilt, fixedVars, owed>>

Hand ==
  \/ \E c \in Bound : Strike(c)
  \/ AutoRepeat
  \/ LetGo
  \/ \E byte \in Typed : TypeText(byte)
  \/ \E b \in Buttons : PressButton(b) \/ ReleaseButton(b)
  \/ \E s \in Sticks, x, y \in Tilts : TiltStick(s, x, y)

Terminal ==
  \/ \E n \in DOMAIN line : Read(n)
  \/ TimerFires
  \/ \E i \in DOMAIN posts : PostArrives(i) \/ PostFails(i)

Pad == Report \/ Plug \/ Unplug \/ DeviceGone \/ \E opens \in BOOLEAN : Poll(opens)

Next == Hand \/ Terminal \/ Pad \/ Tick

\* The process reads, its timers fire, posts arrive or fail, a key is let go of
\* at last, the poll goes on and the device behaves; whether anybody touches an
\* input is up to them.
Spec == Init /\ [][Next]_vars

FairSpec ==
  /\ Spec
  /\ WF_vars(Tick) /\ WF_vars(LetGo) /\ WF_vars(TimerFires)
  /\ WF_vars(\E n \in DOMAIN line : Read(n)) /\ WF_vars(\E i \in DOMAIN posts : PostArrives(i))
  /\ WF_vars(DeviceGone) /\ WF_vars(\E opens \in BOOLEAN : Poll(opens))

-----------------------------------------------------------------------------
\* "Any byte not belonging to a configured control is passed to the local PTY
\* in original order" (docs/stock-via.md): however the bytes are split over
\* reads, what was passed on spells exactly what was read, up to what is held
\* back; and since the last flush it is the decoding a reader of the whole
\* text would choose, the longest configured match at every position.
DecodedInOrder ==
  /\ heard.bytes = Spelling(heard.tokens) \o decoder.pending
  /\ RightDecoding(SubSeq(heard.tokens, heard.torn + 1, Len(heard.tokens)), decoder.pending)

\* What must not happen twice, an approval or a prompt sent, happens at most
\* once for each time a key or button went down: a held key repeats for longer
\* than the window, a control may be decoded late, a post may be overtaken, a
\* gamepad reports the same state again and again, is unplugged with a button
\* down, and switches layers under a held button.
FreshPresses == \A x \in Inputs \ Repeatable : owed[x] >= 0

\* Bytes that might become a control are not withheld for ever, and a gamepad
\* that is there is found, also after it was lost.
InputSettles ==
  /\ decoder.pending # <<>> ~> decoder.pending = <<>>
  /\ (plugged /\ gamepad.driver = "none") ~> (~plugged \/ gamepad.driver # "none")
=============================================================================
