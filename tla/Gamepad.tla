------------------------------ MODULE Gamepad ------------------------------
(***************************************************************************)
(* The gamepad side of the input, as operations on the value of its        *)
(* fields: HidManager and its driver (src/src/controller/), which find the *)
(* enrolled controller, open it and turn its reports into events; the      *)
(* Deduper; and LayerRouter (src/src/router.ts), which turns the edges of  *)
(* buttons and the gestures of sticks into the actions of the current      *)
(* layer.  The events of one report are handled in one go.                 *)
(*                                                                         *)
(* An axis is in hundredths, y growing downwards, and an angle in eighths  *)
(* of a turn, clockwise from the right.  The sticks are put only in those  *)
(* eight directions, whose angles, differences and sums the code's doubles *)
(* represent without an error too.                                         *)
(***************************************************************************)
EXTENDS Integers, SequencesExt

CONSTANTS Modifier,      \* l1
          LayerButtons,  \* LAYER_SWITCH_BUTTONS: a layer for some buttons
          Layers,        \* the action each layer binds to each of its buttons
          ReportOrder,   \* the buttons in the order in which a report lists them
          StickIds,      \* LSTICK_IDS, RSTICK_IDS: the control of each gesture
          RepeatableActions,  \* isRepeatableAction: relative focus, thinking depth
          Guard,         \* GUARD_WINDOW_MS, in ticks
          FlickWindow    \* FLICK_WINDOW_MS, in ticks

ASSUME GuardAssumption == Guard \in Nat /\ FlickWindow \in Nat

Buttons == {ReportOrder[i] : i \in DOMAIN ReportOrder}
Sticks  == DOMAIN StickIds

\* Layers go by their numbers, "0" to "5"; a bound action that only switches the
\* layer is the number of that layer.
LayerIndices == DOMAIN Layers

Axes    == {"x", "y"}
Unseen  == 101         \* no value of an axis
NoAngle == 8           \* lastAngle: null

\* StickTracker: where the stick is thought to be; the armed flick and its age
\* (flickDirection, flickArmedAt); angleAccum, lastAngle, rotating.
RestingStick ==
  [x |-> 0, y |-> 0, flick |-> "none", age |-> 0,
   accum |-> 0, angle |-> NoAngle, rotating |-> FALSE]

RestingSticks == [s \in Sticks |-> RestingStick]

NothingSeen == [buttons |-> [b \in Buttons |-> "unknown"],
                axes    |-> [s \in Sticks |-> [c \in Axes |-> Unseen]]]

\* driver: HidManager.driver is null, has its device open, or could not open
\* it.  seen: what the Deduper saw last of each button and axis.  acts: the
\* controls whose actions, of those that must not repeat, were dispatched in
\* this step; switched: so was a layer switch.
NewGamepad ==
  [driver |-> "none", polling |-> FALSE, seen |-> NothingSeen,
   layer |-> "0", guard |-> 0, held |-> {}, ignored |-> {}, l1 |-> FALSE,
   sticks |-> RestingSticks, acts |-> <<>>, switched |-> FALSE]

-----------------------------------------------------------------------------
(***************************************************************************)
(* The router.                                                             *)
(***************************************************************************)
SwitchLayer(g, index) ==
  [g EXCEPT !.layer = index, !.guard = Guard, !.ignored = g.held,
            !.sticks = RestingSticks, !.switched = TRUE]

\* dispatchAction: a bound layer action acts by switching.
DispatchAction(g, id, action) ==
  [(IF action \in LayerIndices THEN SwitchLayer(g, action) ELSE g)
     EXCEPT !.acts = IF action \in RepeatableActions THEN @ ELSE Append(@, id)]

\* TaskActionRouter.dispatch: nothing without a selected task.
DispatchControl(g, id, selected) ==
  IF selected THEN DispatchAction(g, id, Layers[g.layer][id]) ELSE g

\* lookup, outside the guard window
Bindable(g, id) == g.guard = 0 /\ id \in DOMAIN Layers[g.layer]

\* A button that the last switch left alive.
Routes(g, b) == b \notin g.ignored /\ Bindable(g, b)

PressRouted(g, b, selected) ==
  LET h == [g EXCEPT !.held = @ \cup {b}] IN
  IF b \in g.held THEN g
  ELSE IF g.l1 /\ b \in DOMAIN LayerButtons THEN SwitchLayer(h, LayerButtons[b])
  ELSE IF Routes(h, b) THEN DispatchControl(h, b, selected)
  ELSE h

\* What a release routes to is dropped by the listener in cli.ts.
ReleaseRouted(g, b, selected) ==
  [g EXCEPT !.held = @ \ {b}, !.ignored = @ \ {b}]

ButtonEvent(g, b, pressed, selected) ==
  IF b = Modifier THEN [g EXCEPT !.l1 = pressed]
  ELSE IF pressed THEN PressRouted(g, b, selected)
  ELSE ReleaseRouted(g, b, selected)

ResetInputState(g) ==
  [g EXCEPT !.held = {}, !.ignored = {}, !.l1 = FALSE, !.sticks = RestingSticks]

-----------------------------------------------------------------------------
(***************************************************************************)
(* The gestures of a stick: a flick is out and back within its window; a   *)
(* rotation steps every quarter turn, and is no flick.                     *)
(***************************************************************************)
Sign(n) == CASE n > 0 -> 1 [] n < 0 -> -1 [] OTHER -> 0

\* The directions, by their angles as atan2 gives them.
Compass == [a \in -3 .. 4 |->
  CASE a = -3 -> <<-1, -1>> [] a = -2 -> <<0, -1>> [] a = -1 -> <<1, -1>> [] a = 0 -> <<1, 0>>
    [] a = 1 -> <<1, 1>> [] a = 2 -> <<0, 1>> [] a = 3 -> <<-1, 1>> [] a = 4 -> <<-1, 0>>]

OnCompass(x, y) == 0 \in {x, y} \/ x \in {y, -y}

AngleOf(t) == CHOOSE a \in DOMAIN Compass : Compass[a] = <<Sign(t.x), Sign(t.y)>>

Within(t, radius) == t.x * t.x + t.y * t.y < radius * radius
Beyond(t, radius) == t.x * t.x + t.y * t.y > radius * radius

\* The way from one angle to the next, around the shorter side; half a turn
\* keeps its sign.
AngleDelta(from, to) ==
  LET d == to - from IN CASE d > 4 -> d - 8 [] d < -4 -> d + 8 [] OTHER -> d

Turned(t) ==
  LET angle == AngleOf(t)
      accum == t.accum + (IF t.angle = NoAngle THEN 0 ELSE AngleDelta(t.angle, angle))
  IN CASE Beyond(t, 60) ->
            [t EXCEPT !.accum = accum, !.angle = angle,
                      !.rotating = @ \/ accum \notin -1 .. 1]
       [] Within(t, 40) ->
            [t EXCEPT !.accum = 0, !.angle = NoAngle, !.rotating = FALSE]
       [] OTHER -> t

CancelFlick(t) == [t EXCEPT !.flick = "none", !.age = 0]

FlickDirection(t) ==
  IF t.x * t.x >= t.y * t.y THEN IF t.x >= 0 THEN "right" ELSE "left"
                            ELSE IF t.y >= 0 THEN "down" ELSE "up"

\* update, after the angle: the tracker and the gesture it emits.
Gesture(t) ==
  CASE t.accum >= 2  -> [tracker |-> CancelFlick([t EXCEPT !.accum = @ - 2]), id |-> "cw"]
    [] t.accum <= -2 -> [tracker |-> CancelFlick([t EXCEPT !.accum = @ + 2]), id |-> "ccw"]
    [] t.accum \in -1 .. 1 /\ t.rotating -> [tracker |-> CancelFlick(t), id |-> "none"]
    [] OTHER ->
         CASE t.flick = "none" /\ ~Within(t, 75) ->
                [tracker |-> [t EXCEPT !.flick = FlickDirection(t)], id |-> "none"]
           [] t.flick # "none" /\ t.age > FlickWindow ->
                [tracker |-> CancelFlick(t), id |-> "none"]
           [] t.flick # "none" /\ t.age <= FlickWindow /\ Within(t, 30) ->
                [tracker |-> CancelFlick(t), id |-> t.flick]
           [] OTHER -> [tracker |-> t, id |-> "none"]

\* routeAxis: no gesture in the guard window, and a rotation only for actions
\* that accept repeats.
AxisEvent(g, s, axis, value, selected) ==
  LET moved   == IF axis = "x" THEN [g.sticks[s] EXCEPT !.x = value]
                               ELSE [g.sticks[s] EXCEPT !.y = value]
      gesture == Gesture(Turned(moved))
      h       == [g EXCEPT !.sticks[s] = gesture.tracker]
      routed  == /\ gesture.id # "none"
                 /\ Bindable(h, StickIds[s][gesture.id])
                 /\ gesture.id \in {"cw", "ccw"} =>
                      Layers[h.layer][StickIds[s][gesture.id]] \in RepeatableActions
  IN IF routed THEN DispatchControl(h, StickIds[s][gesture.id], selected) ELSE h

-----------------------------------------------------------------------------
(***************************************************************************)
(* The driver and the manager.                                             *)
(***************************************************************************)
Seen(pressed) == IF pressed THEN "down" ELSE "up"

\* One report: every button with its state, then every axis with its value;
\* those that changed pass the Deduper.  (The drivers differ in the order: axes
\* first, or each input as it changes.)
HandleReport(g, down, tilt, selected) ==
  LET PassButton(h, b) ==
        IF h.seen.buttons[b] = Seen(b \in down) THEN h
        ELSE ButtonEvent([h EXCEPT !.seen.buttons[b] = Seen(b \in down)], b, b \in down, selected)
      PassAxis(h, s, axis) ==
        IF h.seen.axes[s][axis] = tilt[s][axis] THEN h
        ELSE AxisEvent([h EXCEPT !.seen.axes[s][axis] = tilt[s][axis]],
                       s, axis, tilt[s][axis], selected)
      PassStick(h, s) == PassAxis(PassAxis(h, s, "x"), s, "y")
  IN FoldLeft(PassStick, FoldLeft(PassButton, g, ReportOrder), SetToSeq(Sticks))

\* attach: the device is there or is polled for; a device that cannot be
\* opened leaves its driver in place, and nothing polls.
Attach(g, plugged, opens) ==
  CASE ~plugged -> [g EXCEPT !.driver = "none", !.polling = TRUE]
    [] plugged /\ opens -> [g EXCEPT !.driver = "open", !.polling = FALSE,
                                     !.seen = NothingSeen]
    [] OTHER -> [g EXCEPT !.driver = "failed", !.polling = FALSE,
                          !.seen = NothingSeen]

\* The device reports an error: disconnected.
DeviceError(g) ==
  [ResetInputState(g) EXCEPT !.driver = "none", !.polling = TRUE,
                             !.seen = NothingSeen]
=============================================================================
