------------------------------ MODULE MCSwarmRun ------------------------------
(* Small instances of SwarmRun: a join of two tasks, a fork, a chain, a   *)
(* chain with a task beside it, no edges, and a cycle, which is refused.      *)
EXTENDS SwarmRun, TLC

CONSTANTS a, b, c, x, y, z

ThreeTasks  == {a, b, c}
ThreeAgents == {x, y, z}
Own         == (a :> x) @@ (b :> y) @@ (c :> z)
Depends(da, db, dc) == (a :> da) @@ (b :> db) @@ (c :> dc)
Join  == Depends({}, {}, {a, b})
Fork  == Depends({}, {a}, {a})
Chain == Depends({}, {a}, {b})
Beside == Depends({}, {a}, {})
Apart == Depends({}, {}, {})
Cycle == Depends({b}, {a}, {})

\* In one preset a task names an agent that is missing, in one two tasks share
\* an agent.
ThePresets ==
  {[deps |-> d, agent |-> Own] : d \in {Join, Fork, Chain, Beside, Apart, Cycle}}
    \cup {[deps |-> Fork, agent |-> [Own EXCEPT ![c] = None]],
          [deps |-> Join, agent |-> [Own EXCEPT ![b] = x]]}

=============================================================================
