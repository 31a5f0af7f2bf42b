---------------------------- MODULE MCControls -----------------------------
(***************************************************************************)
(* Three controls, one a prefix of another and one that begins like text,  *)
(* and a gamepad with a modifier and two buttons over two layers.          *)
(***************************************************************************)
EXTENDS Controls

MCBindings ==
  [c \in {"agent.1", "command.send", "dial.cw"} |->
     CASE c = "agent.1"      -> <<"ESC", "x">>
       [] c = "command.send" -> <<"ESC", "x", "x">>
       [] c = "dial.cw"      -> <<"t", "ESC">>]

MCLayerButtons == [south |-> "0", east |-> "1"]

\* Layer 0: approve, and bindings that switch to layer 1; a rotation to the
\* right would approve too.  Layer 1: approve, and a rotation that may repeat.
MCLayers ==
  "0" :> [south |-> "approve", east |-> "1", lstick_right |-> "approve",
          lstick_left |-> "1", lstick_cw |-> "approve"] @@
  "1" :> [south |-> "approve", lstick_down |-> "approve", lstick_cw |-> "think"]

\* One stick.
MCStickIds ==
  [lstick |-> [up |-> "lstick_up", down |-> "lstick_down", left |-> "lstick_left",
               right |-> "lstick_right", cw |-> "lstick_cw", ccw |-> "lstick_ccw"]]

MCTilts == {-100, 0, 20, 50, 100}

MCReportOrder == <<"south", "east", "l1">>

Nothing == [strikes |-> 0, repeats |-> 0, keys |-> 0, stalls |-> 0, losses |-> 0,
            presses |-> 0, plugs |-> 0, failures |-> 0, tilts |-> 0]

\* A key held for longer than the window, two keys and then text over a bad
\* line, and a gamepad.
MCBudgets == {[Nothing EXCEPT !.strikes = 1, !.repeats = 4],
              [Nothing EXCEPT !.strikes = 2, !.repeats = 1, !.stalls = 1],
              [Nothing EXCEPT !.strikes = 1, !.keys = 2, !.stalls = 1, !.losses = 1],
              [Nothing EXCEPT !.presses = 4, !.plugs = 2, !.failures = 1],
              [Nothing EXCEPT !.presses = 1, !.plugs = 1, !.tilts = 2],
              [Nothing EXCEPT !.plugs = 1, !.tilts = 3]}
=============================================================================
