--------------------------------- MODULE Dag ---------------------------------
(***************************************************************************)
(* The graph algorithms of the swarm: which task graphs are accepted and   *)
(* how they are cut into layers (swarm/dag.py).  A graph is the function   *)
(* deps from each task to the tasks it depends on.                         *)
(***************************************************************************)
EXTENDS Naturals, Sequences, FiniteSets

\* validate_dag walks the graph in depth and raises at an unknown dependency or
\* at a node it is still in the middle of: it accepts graphs without a cycle.
Valid(deps) ==
  LET T == DOMAIN deps
  IN /\ UNION {deps[t] : t \in T} \subseteq T
     /\ ~\E S \in (SUBSET T) \ {{}} : \A t \in S : deps[t] \cap S # {}

\* One round of topological_layers: the queue becomes a layer, every edge out of
\* it is taken from the in-degrees, and what has none left is queued.
Drop(deps, degree, layer) ==
  [t \in DOMAIN deps |-> degree[t] - Cardinality(deps[t] \cap layer)]

Round(deps, s) ==
  IF s.queue = {} THEN s
  ELSE LET degree == Drop(deps, s.degree, s.queue)
       IN [degree |-> degree,
           queue  |-> {t \in DOMAIN deps : degree[t] = 0 /\ s.degree[t] > 0},
           layers |-> Append(s.layers, s.queue)]

\* The rounds: after at most as many of them as there are tasks nothing is queued.
Rounds(deps) ==
  LET T == DOMAIN deps
      degree == [t \in T |-> Cardinality(deps[t])]
      run[k \in 0..Cardinality(T)] ==
        IF k = 0 THEN [degree |-> degree, queue |-> {t \in T : degree[t] = 0},
                       layers |-> <<>>]
        ELSE Round(deps, run[k - 1])
  IN run

\* topological_layers
Layers(deps) == Rounds(deps)[Cardinality(DOMAIN deps)].layers

=============================================================================
