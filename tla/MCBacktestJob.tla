---------------------------- MODULE MCBacktestJob ----------------------------
(* Small instances of BacktestJob: one job and one or two callers. *)
EXTENDS BacktestJob

CONSTANTS j1, q1, q2

OneJob     == {j1}
OneCaller  == {q1}
TwoCallers == {q1, q2}

=============================================================================
