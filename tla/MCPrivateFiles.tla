--------------------------- MODULE MCPrivateFiles ---------------------------
(***************************************************************************)
(* Two installers of hooks on one file, or two runs that load a config and *)
(* a setup; and what may happen to them meanwhile.                         *)
(***************************************************************************)
EXTENDS PrivateFiles

MCBudgets ==
  LET Nothing == [saves |-> 0, edits |-> 0, removals |-> 0, crashes |-> 0, failures |-> 0,
                  next |-> 1]
  IN {[Nothing EXCEPT !.saves = 2],
      [Nothing EXCEPT !.saves = 1, !.edits = 1],
      [Nothing EXCEPT !.removals = 1, !.saves = 1],
      [Nothing EXCEPT !.saves = 1, !.crashes = 1, !.failures = 1]}
=============================================================================
