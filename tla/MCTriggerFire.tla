---------------------------- MODULE MCTriggerFire ----------------------------
(* Small instances of TriggerFire: every quarter of the clock a signal scan *)
(* and, once, a trade.                                                      *)
EXTENDS TriggerFire

CONSTANTS signals, once

MCTriggers == {signals, once}
MCKind     == [g \in MCTriggers |-> IF g = signals THEN "cron" ELSE "at"]
MCPeriod   == [g \in MCTriggers |-> 1]
MCAtTime   == [g \in MCTriggers |-> 1]
MCIntent   == [g \in MCTriggers |-> IF g = signals THEN "signal_only" ELSE "trade"]
MCOneTime  == {once}
MCModes    == {"live", "paper"}

=============================================================================
