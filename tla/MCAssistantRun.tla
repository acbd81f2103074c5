---------------------------- MODULE MCAssistantRun ----------------------------
(* Small instances of AssistantRun: a command whose rule can be remembered,  *)
(* one whose rule is asked each time, and a question, which no rule gates.  *)
(* One prefix matches both gated commands, one only the second.              *)
EXTENDS AssistantRun, TLC

CONSTANTS a, b, trade, graph, ask, tradeRule, graphRule, prefix, other

TwoAttempts == {a, b}
TheCommands == {trade, graph, ask}
TheRules    == {tradeRule, graphRule}
TheRuleOf   == (ask :> None) @@ (trade :> tradeRule) @@ (graph :> graphRule)
TheOneTime  == {graphRule}
Asking      == {ask}
Decides(action, p) == [action |-> action, prefix |-> p]
TheAnswers  == {Decides("approve_once", None), Decides("reject", None),
                Decides("approve_always", None), Decides("approve_always", other),
                Decides("approve_persist", prefix)}
Plan(mine, n, other_, m) == (a :> [menu |-> mine, calls |-> n]) @@ (b :> [menu |-> other_, calls |-> m])
ThePlans    == {Plan({trade, ask}, 1, {trade}, 1), Plan({ask}, 1, {ask}, 1), Plan({trade}, 1, {graph}, 1),
                Plan({trade, graph, ask}, 2, {}, 0)}
ThePrefixes == {prefix, other}
TheCovers   == (prefix :> {trade, graph}) @@ (other :> {graph})

=============================================================================
