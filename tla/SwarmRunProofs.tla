----------------------------- MODULE SwarmRunProofs -----------------------------
(***************************************************************************)
(* Proofs about SwarmRun for any task graphs, any number of workers,       *)
(* retries and failures, and about the layers its graphs are cut into.     *)
(*                                                                         *)
(* First the layers: after k rounds the in-degree of a task is the number  *)
(* of its dependencies not yet cut, and k tasks are cut or none is queued, *)
(* so the layers of a graph without a cycle are all its tasks in order.    *)
(* The invariant then says where the body is in the layers (LayerInv) and  *)
(* what a task is before, in and after its layer (TaskInv).  A worker that *)
(* gather gave up on goes on while the body ends the run, so what is known *)
(* of a worker (WorkerInv) does not depend on where the body is, and the   *)
(* end (EndInv) is clean only if no write failed, which is the only way    *)
(* out of a layer with workers left.                                       *)
(***************************************************************************)
EXTENDS SwarmRun, FiniteSetTheorems, WellFoundedInduction, TLAPS

\* A set of numbers that is not empty has a least one.
LEMMA Least ==
  ASSUME NEW S, S \subseteq Nat, S # {}
  PROVE  \E x \in S : \A y \in S : x <= y
<1>1. PICK x \in S : \A y \in S : ~(<<y, x>> \in OpToRel(<, Nat))
  BY NatLessThanWellFounded, WFMin
<1>2. \A y \in S : ~(y < x)
  BY <1>1 DEF OpToRel
<1> QED  BY <1>2

\* The state topological_layers begins with.
First(G) ==
  [degree |-> [t \in DOMAIN G |-> Cardinality(G[t])],
   queue  |-> {t \in DOMAIN G : [u \in DOMAIN G |-> Cardinality(G[u])][t] = 0},
   layers |-> <<>>]

\* The first n rounds of a graph.
Unfolds(G, n, g) ==
  g = [k \in 0 .. n |-> IF k = 0 THEN First(G) ELSE Round(G, g[k - 1])]

\* The recursion of the rounds is well defined.
LEMMA Unfolding ==
  ASSUME NEW G, NEW N \in Nat
  PROVE  \E g : Unfolds(G, N, g)
<1> DEFINE Bad == {n \in Nat : ~\E g : Unfolds(G, n, g)}
<1> SUFFICES ASSUME Bad # {} PROVE FALSE
  OBVIOUS
<1>1. PICK n \in Bad : \A m \in Bad : n <= m
  BY Least
<1>2. CASE n = 0
  <2>1. Unfolds(G, 0, [k \in 0 .. 0 |-> First(G)])
    BY DEF Unfolds
  <2> QED  BY <1>2, <2>1
<1>3. CASE n # 0
  <2>1. n - 1 \in Nat /\ n - 1 \notin Bad
    BY <1>1, <1>3
  <2>2. PICK g : Unfolds(G, n - 1, g)
    BY <2>1
  <2> DEFINE h == [k \in 0 .. n |-> IF k = n THEN Round(G, g[n - 1]) ELSE g[k]]
  <2>3. ASSUME NEW k \in 0 .. n
        PROVE  h[k] = IF k = 0 THEN First(G) ELSE Round(G, h[k - 1])
    BY <1>3, <2>1, <2>2 DEF Unfolds
  <2>4. Unfolds(G, n, h)
    BY <2>3 DEF Unfolds
  <2> QED  BY <2>4
<1> QED  BY <1>2, <1>3

\* So the rounds are what their recursion says.
LEMMA RoundsUnfold ==
  ASSUME NEW G, Cardinality(DOMAIN G) \in Nat
  PROVE  Unfolds(G, Cardinality(DOMAIN G), Rounds(G))
<1>1. Rounds(G) = CHOOSE g : Unfolds(G, Cardinality(DOMAIN G), g)
  BY DEF Rounds, Unfolds, First
<1> QED  BY <1>1, Unfolding

-----------------------------------------------------------------------------
(* The layers of a graph                                                   *)

Graph(G) == IsFiniteSet(DOMAIN G) /\ \A t \in DOMAIN G : G[t] \subseteq DOMAIN G

\* The tasks in the layers so far.
Cut(s) == UNION {s.layers[i] : i \in 1 .. Len(s.layers)}

\* A layer is never empty, and what its tasks depend on is in earlier layers.
Ordered(G, ls) ==
  /\ ls \in Seq(SUBSET DOMAIN G)
  /\ \A i \in 1 .. Len(ls) : ls[i] # {}
  /\ \A i, j \in 1 .. Len(ls) : i # j => ls[i] \cap ls[j] = {}
  /\ \A i \in 1 .. Len(ls) : \A t \in ls[i] : \A d \in G[t] :
       \E j \in 1 .. Len(ls) : j < i /\ d \in ls[j]

\* What holds after k rounds.
Rounded(G, s, k) ==
  /\ Ordered(G, s.layers)
  /\ s.degree \in [DOMAIN G -> Nat]
  /\ \A t \in DOMAIN G : s.degree[t] = Cardinality(G[t] \ Cut(s))
  /\ s.queue \subseteq DOMAIN G \ Cut(s)
  /\ \A t \in DOMAIN G : s.degree[t] = 0 <=> t \in Cut(s) \cup s.queue
  /\ s.queue # {} => Cardinality(Cut(s)) >= k

\* It holds before the first round.
LEMMA FirstRounded ==
  ASSUME NEW G, Graph(G)
  PROVE  Rounded(G, First(G), 0)
<1> DEFINE s == First(G)
<1>1. /\ s.layers = <<>> /\ Len(s.layers) = 0 /\ Cut(s) = {}
      /\ s.degree = [t \in DOMAIN G |-> Cardinality(G[t])]
      /\ s.queue = {t \in DOMAIN G : s.degree[t] = 0}
  BY DEF First, Cut
<1>2. \A t \in DOMAIN G : IsFiniteSet(G[t]) /\ Cardinality(G[t]) \in Nat
  BY FS_Subset, FS_CardinalityType DEF Graph
<1>3. \A t \in DOMAIN G : G[t] \ Cut(s) = G[t]
  BY <1>1
<1>4. Ordered(G, s.layers)
  BY <1>1 DEF Ordered
<1>5. Cardinality(Cut(s)) = 0
  BY <1>1, FS_EmptySet
<1> HIDE DEF s
<1>6. Rounded(G, s, 0)
  BY <1>1, <1>2, <1>3, <1>4, <1>5 DEF Rounded
<1> QED  BY <1>6 DEF s

\* What is cut is in the graph.
LEMMA CutInGraph ==
  ASSUME NEW G, NEW s, Ordered(G, s.layers)
  PROVE  Cut(s) \subseteq DOMAIN G
<1>1. \A i \in 1 .. Len(s.layers) : s.layers[i] \in SUBSET DOMAIN G
  BY DEF Ordered
<1> QED  BY <1>1 DEF Cut

\* A round appends its queue to what is cut.
LEMMA CutAppend ==
  ASSUME NEW s, NEW r, NEW Q, NEW T, s.layers \in Seq(SUBSET T), Q \subseteq T,
         r.layers = Append(s.layers, Q)
  PROVE  Cut(r) = Cut(s) \cup Q
<1>1. /\ Len(r.layers) = Len(s.layers) + 1 /\ Len(s.layers) \in Nat
      /\ r.layers[Len(s.layers) + 1] = Q
      /\ \A i \in 1 .. Len(s.layers) : r.layers[i] = s.layers[i]
  OBVIOUS
<1>2. ASSUME NEW t \in Cut(r) PROVE t \in Cut(s) \cup Q
  <2>1. PICK i \in 1 .. Len(r.layers) : t \in r.layers[i]
    BY <1>2 DEF Cut
  <2> QED  BY <1>1, <2>1 DEF Cut
<1>3. ASSUME NEW t \in Cut(s) PROVE t \in Cut(r)
  <2>1. PICK i \in 1 .. Len(s.layers) : t \in s.layers[i]
    BY <1>3 DEF Cut
  <2>2. i \in 1 .. Len(r.layers) /\ t \in r.layers[i]
    BY <1>1, <2>1
  <2> QED  BY <2>2 DEF Cut
<1>4. ASSUME NEW t \in Q PROVE t \in Cut(r)
  <2>1. Len(s.layers) + 1 \in 1 .. Len(r.layers)
    BY <1>1
  <2> QED  BY <1>1, <1>4, <2>1 DEF Cut
<1> QED  BY <1>2, <1>3, <1>4

\* A round keeps it.
LEMMA RoundRounded ==
  ASSUME NEW G, Graph(G), NEW k \in Nat, NEW s, Rounded(G, s, k)
  PROVE  Rounded(G, Round(G, s), k + 1)
<1>0. CASE s.queue = {}
  <2>1. Round(G, s) = s
    BY <1>0 DEF Round
  <2> QED  BY <1>0, <2>1 DEF Rounded
<1>n. CASE s.queue # {}
  <2> DEFINE r == Round(G, s)
             Q == s.queue
  <2>1. /\ r.degree = [t \in DOMAIN G |-> s.degree[t] - Cardinality(G[t] \cap Q)]
        /\ r.queue = {t \in DOMAIN G : r.degree[t] = 0 /\ s.degree[t] > 0}
        /\ r.layers = Append(s.layers, Q)
    BY <1>n DEF Round, Drop
  <2>s. /\ Ordered(G, s.layers) /\ s.layers \in Seq(SUBSET DOMAIN G)
        /\ s.degree \in [DOMAIN G -> Nat] /\ Cut(s) \subseteq DOMAIN G
        /\ \A t \in DOMAIN G : s.degree[t] = Cardinality(G[t] \ Cut(s))
        /\ Q \subseteq DOMAIN G \ Cut(s) /\ Q \subseteq DOMAIN G
        /\ \A t \in DOMAIN G : s.degree[t] = 0 <=> t \in Cut(s) \cup Q
        /\ Cardinality(Cut(s)) >= k /\ Q # {}
    <3>1. Ordered(G, s.layers) /\ s.layers \in Seq(SUBSET DOMAIN G)
      BY DEF Rounded, Ordered
    <3>2. Cut(s) \subseteq DOMAIN G
      BY <3>1, CutInGraph
    <3> QED  BY <1>n, <3>1, <3>2 DEF Rounded
  <2> HIDE DEF r, Q
  <2>2. Cut(r) = Cut(s) \cup Q
    BY <2>1, <2>s, CutAppend
  <2>3. ASSUME NEW t \in DOMAIN G
        PROVE  /\ r.degree[t] \in Nat /\ r.degree[t] = Cardinality(G[t] \ Cut(r))
               /\ r.degree[t] = 0 => G[t] \subseteq Cut(r)
               /\ s.degree[t] = 0 => r.degree[t] = 0 /\ G[t] \subseteq Cut(s)
    <3>1. IsFiniteSet(G[t]) /\ IsFiniteSet(G[t] \ Cut(s)) /\ IsFiniteSet(G[t] \ Cut(r))
      BY FS_Subset DEF Graph
    <3>2. /\ (G[t] \ Cut(s)) \cap Q = G[t] \cap Q
          /\ (G[t] \ Cut(s)) \ Q = G[t] \ Cut(r)
      BY <2>2, <2>s
    <3>3. Cardinality(G[t] \ Cut(r)) = Cardinality(G[t] \ Cut(s)) - Cardinality(G[t] \cap Q)
      BY <3>1, <3>2, FS_Difference
    <3>4. r.degree[t] = Cardinality(G[t] \ Cut(r))
      BY <2>1, <2>s, <3>3
    <3>5. /\ Cardinality(G[t] \ Cut(r)) \in Nat
          /\ Cardinality(G[t] \ Cut(r)) = 0 <=> G[t] \ Cut(r) = {}
          /\ Cardinality(G[t] \ Cut(s)) = 0 <=> G[t] \ Cut(s) = {}
      BY <3>1, FS_CardinalityType, FS_EmptySet
    <3>6. s.degree[t] = 0 => G[t] \ Cut(s) = {}
      BY <3>5, <2>s
    <3>7. s.degree[t] = 0 => G[t] \ Cut(r) = {}
      BY <3>6, <2>2
    <3> QED  BY <3>4, <3>5, <3>6, <3>7
  <2>4. Ordered(G, r.layers)
    <3>1. /\ r.layers \in Seq(SUBSET DOMAIN G)
          /\ Len(r.layers) = Len(s.layers) + 1 /\ Len(s.layers) \in Nat
          /\ r.layers[Len(s.layers) + 1] = Q
          /\ \A i \in 1 .. Len(s.layers) : r.layers[i] = s.layers[i]
      BY <2>1, <2>s
    <3>2. ASSUME NEW i \in 1 .. Len(r.layers)
          PROVE  i \in 1 .. Len(s.layers) \/ i = Len(s.layers) + 1
      BY <3>1
    <3>3. \A i \in 1 .. Len(r.layers) : r.layers[i] # {}
      BY <3>1, <3>2, <2>s DEF Ordered
    <3>4. \A i \in 1 .. Len(s.layers) : s.layers[i] \cap Q = {}
      BY <2>s DEF Cut
    <3>5. ASSUME NEW i \in 1 .. Len(r.layers), NEW j \in 1 .. Len(r.layers), i # j
          PROVE  r.layers[i] \cap r.layers[j] = {}
      <4>1. CASE i \in 1 .. Len(s.layers) /\ j \in 1 .. Len(s.layers)
        <5>1. s.layers[i] \cap s.layers[j] = {}
          BY <4>1, <3>5, <2>s DEF Ordered
        <5> QED  BY <4>1, <5>1, <3>1
      <4>2. CASE i \in 1 .. Len(s.layers) /\ j = Len(s.layers) + 1
        BY <4>2, <3>1, <3>4
      <4>3. CASE i = Len(s.layers) + 1 /\ j \in 1 .. Len(s.layers)
        BY <4>3, <3>1, <3>4
      <4> QED  BY <3>2, <3>5, <4>1, <4>2, <4>3
    <3>6. ASSUME NEW i \in 1 .. Len(r.layers), NEW t \in r.layers[i], NEW d \in G[t]
          PROVE  \E j \in 1 .. Len(r.layers) : j < i /\ d \in r.layers[j]
      <4>1. CASE i \in 1 .. Len(s.layers)
        <5>1. PICK j \in 1 .. Len(s.layers) : j < i /\ d \in s.layers[j]
          BY <4>1, <3>1, <3>6, <2>s DEF Ordered
        <5>2. j \in 1 .. Len(r.layers) /\ d \in r.layers[j]
          BY <5>1, <3>1
        <5> QED  BY <5>1, <5>2
      <4>2. CASE i = Len(s.layers) + 1
        <5>1. t \in Q /\ t \in DOMAIN G /\ s.degree[t] = 0
          BY <4>2, <3>1, <3>6, <2>s
        <5>2. d \in Cut(s)
          BY <5>1, <2>3, <3>6
        <5>3. PICK j \in 1 .. Len(s.layers) : d \in s.layers[j]
          BY <5>2 DEF Cut
        <5>4. j \in 1 .. Len(r.layers) /\ d \in r.layers[j] /\ j < i
          BY <5>3, <3>1, <4>2
        <5> QED  BY <5>4
      <4> QED  BY <3>2, <4>1, <4>2
    <3> QED  BY <3>1, <3>3, <3>5, <3>6 DEF Ordered
  <2>5. Cardinality(Cut(r)) >= k + 1
    <3>1. IsFiniteSet(Cut(s)) /\ IsFiniteSet(Q)
      BY <2>s, FS_Subset DEF Graph
    <3>2. Cardinality(Cut(s) \cup Q) =
            Cardinality(Cut(s)) + Cardinality(Q) - Cardinality(Cut(s) \cap Q)
      BY <3>1, FS_Union
    <3>3. Cut(s) \cap Q = {}
      BY <2>s
    <3>4. /\ Cardinality(Cut(s)) \in Nat /\ Cardinality(Q) \in Nat /\ Cardinality(Q) # 0
          /\ Cardinality(Cut(s) \cap Q) = 0
      BY <3>1, <3>3, <2>s, FS_CardinalityType, FS_EmptySet
    <3> QED  BY <2>2, <2>s, <3>2, <3>4
  <2>6. r.degree \in [DOMAIN G -> Nat]
    BY <2>1, <2>3
  <2>7. r.queue \subseteq DOMAIN G \ Cut(r)
    BY <2>1, <2>2, <2>s
  <2>8. ASSUME NEW t \in DOMAIN G
        PROVE  r.degree[t] = 0 <=> t \in Cut(r) \cup r.queue
    <3>1. s.degree[t] \in Nat /\ r.degree[t] \in Nat
      BY <2>3, <2>s
    <3>2. t \in r.queue <=> r.degree[t] = 0 /\ s.degree[t] > 0
      BY <2>1
    <3>3. t \in Cut(r) <=> s.degree[t] = 0
      BY <2>2, <2>s
    <3>4. s.degree[t] = 0 => r.degree[t] = 0
      BY <2>3
    <3> QED  BY <3>1, <3>2, <3>3, <3>4
  <2>9. Rounded(G, r, k + 1)
    BY <2>3, <2>4, <2>5, <2>6, <2>7, <2>8 DEF Rounded
  <2> QED  BY <2>9 DEF r
<1> QED  BY <1>0, <1>n

\* So it holds after every round.
LEMMA AllRounded ==
  ASSUME NEW G, Graph(G), NEW n \in 0 .. Cardinality(DOMAIN G)
  PROVE  Rounded(G, Rounds(G)[n], n)
<1> DEFINE N == Cardinality(DOMAIN G)
<1>1. N \in Nat
  BY FS_CardinalityType DEF Graph
<1>2. Unfolds(G, N, Rounds(G))
  BY <1>1, RoundsUnfold
<1>3. \A k \in 0 .. N : Rounds(G)[k] = IF k = 0 THEN First(G) ELSE Round(G, Rounds(G)[k - 1])
  BY <1>2 DEF Unfolds
<1> HIDE DEF N
<1> DEFINE Bad == {k \in 0 .. N : ~Rounded(G, Rounds(G)[k], k)}
<1>4. SUFFICES ASSUME Bad # {} PROVE FALSE
  BY DEF N
<1>5. PICK k \in Bad : \A m \in Bad : k <= m
  <2>1. Bad \subseteq Nat
    BY <1>1
  <2> QED  BY <1>4, <2>1, Least
<1>6. CASE k = 0
  BY <1>1, <1>3, <1>5, <1>6, FirstRounded
<1>7. CASE k # 0
  <2>1. k - 1 \in Nat /\ k - 1 \in 0 .. N /\ k - 1 \notin Bad /\ (k - 1) + 1 = k
    BY <1>1, <1>5, <1>7
  <2>2. Rounded(G, Round(G, Rounds(G)[k - 1]), k)
    BY <2>1, RoundRounded
  <2>3. Rounds(G)[k] = Round(G, Rounds(G)[k - 1])
    BY <1>3, <1>5, <1>7
  <2> QED  BY <1>5, <2>2, <2>3
<1> QED  BY <1>6, <1>7

\* topological_layers: the layers of a graph without a cycle hold every task
\* once, and every task after all that it depends on.
THEOREM LayersInOrder ==
  ASSUME NEW G, IsFiniteSet(DOMAIN G), Valid(G)
  PROVE  /\ Ordered(G, Layers(G))
         /\ UNION {Layers(G)[i] : i \in 1 .. Len(Layers(G))} = DOMAIN G
<1> DEFINE N == Cardinality(DOMAIN G)
           s == Rounds(G)[N]
<1>1. Graph(G)
  BY DEF Graph, Valid
<1>2. N \in Nat /\ N \in 0 .. N
  BY FS_CardinalityType
<1>3. Rounded(G, s, N)
  BY <1>1, <1>2, AllRounded
<1>4. Layers(G) = s.layers
  BY DEF Layers
<1> HIDE DEF N, s
<1>5. Cut(s) \subseteq DOMAIN G
  BY <1>3, CutInGraph DEF Rounded
<1>6. s.queue = {}
  <2> SUFFICES ASSUME s.queue # {} PROVE FALSE
    OBVIOUS
  <2>1. Cardinality(Cut(s)) >= Cardinality(DOMAIN G)
    BY <1>3 DEF Rounded, N
  <2>2. Cut(s) = DOMAIN G
    BY <1>2, <1>5, <2>1, FS_Subset, FS_CardinalityType DEF N
  <2> QED  BY <1>3, <2>2 DEF Rounded
<1>7. Cut(s) = DOMAIN G
  <2> DEFINE S == DOMAIN G \ Cut(s)
  <2> SUFFICES ASSUME S # {} PROVE FALSE
    BY <1>5
  <2>1. ASSUME NEW t \in S PROVE G[t] \cap S # {}
    <3>1. s.degree[t] # 0 /\ s.degree[t] = Cardinality(G[t] \ Cut(s))
      BY <1>3, <1>6, <2>1 DEF Rounded
    <3>2. G[t] \ Cut(s) # {}
      BY <3>1, FS_EmptySet
    <3> QED  BY <1>1, <2>1, <3>2 DEF Graph
  <2>2. S \in (SUBSET DOMAIN G) \ {{}}
    OBVIOUS
  <2> QED  BY <2>1, <2>2 DEF Valid
<1> QED  BY <1>3, <1>4, <1>7 DEF Rounded, Cut

-----------------------------------------------------------------------------
(* The inductive invariant                                                 *)

Looping == {"begin", "layer", "gate", "workers", "results", "progress"}
Alive   == Looping \cup {"cancel", "finish", "write"}

\* The tasks of the layers the body has begun.
Begun(t) == \E i \in 1 .. layer : t \in Layers(deps)[i]
Idle(t)  == worker[t].at \in {"none", "done"}
Waiting(t) == task[t] \in {"pending", "blocked"}

\* How the body, the row, the chosen end and the cancellation relate.
BodyInv ==
  /\ body = "none" => row = "none" /\ todo = {}
  /\ body \in Alive => row = "running" /\ Valid(deps)
  /\ row = "running" => body \in Alive \cup {"lost", "dead"}
  /\ row \in Over => row = final /\ body \in {"pop", "over", "dead"}
  /\ final # "none" => body \in {"write", "pop", "over", "lost", "dead"}
  /\ body = "write" => final # "none"
  /\ early => cancel
  /\ early /\ final # "none" => final = "cancelled"

\* Where the body is in the layers.
LayerInv ==
  /\ body \in Alive => layer <= Len(Layers(deps))
  /\ body \in {"none", "begin"} => layer = 0
  /\ body \in {"begin", "layer", "progress"} => todo = {}
  /\ body \in {"gate", "workers", "results"} =>
       layer # 0 /\ todo \subseteq Layers(deps)[layer]

\* A task before, in and after its layer.
TaskFor(t) ==
  /\ body \in {"none"} \cup Looping /\ (Begun(t) => body = "gate" /\ t \in todo) =>
       Waiting(t) /\ worker[t].at = "none"
  /\ body \in Looping /\ Begun(t) /\ t \notin todo =>
       /\ task[t] \in {"completed", "failed", "blocked"} /\ Idle(t)
       /\ good => task[t] = "completed"
  /\ body \in {"workers", "results"} /\ t \in todo =>
       /\ Waiting(t) \/ task[t] = "in_progress"
       /\ body = "results" => worker[t].at = "done"
  /\ body = "cancel" =>
       /\ IF t \in todo THEN Waiting(t) ELSE task[t] \in {"completed", "failed", "cancelled"}
       /\ Idle(t)

TaskInv == \A t \in Tasks : TaskFor(t)

\* A worker and its task, also when the body is past them.
WorkerFor(t) ==
  /\ worker[t].at = "wait" => Waiting(t) /\ Ready(t)
  /\ worker[t].at \in {"try", "create", "send"} =>
       task[t] = "in_progress" /\ AgentOf[t] # None
  /\ worker[t].ok => worker[t].at = "done" /\ task[t] \in {"in_progress", "completed"}

WorkerInv == \A t \in Tasks : WorkerFor(t)

\* The rows follow the memory as long as no write failed.
StoreInv ==
  /\ ~broken /\ row # "none" => rows = task
  /\ body \in {"none", "cancel"} \cup Looping => ~broken

\* What the body leaves when it is past its layers.
EndInv ==
  /\ (body = "finish" /\ good) \/ final = "completed" =>
       /\ rows = task
       /\ \A t \in Tasks : task[t] = "completed" /\ Idle(t)
  /\ (body = "finish" \/ final # "none") /\ ~broken =>
       \A t \in Tasks : task[t] \in Over \cup {"blocked"} /\ Idle(t)
  /\ row = "completed" => (Tasks # {} => report)
  /\ body = "cancel" => ~good

IInv == /\ TypeOK /\ BodyInv /\ LayerInv /\ TaskInv /\ WorkerInv /\ StoreInv
        /\ EndInv /\ WorkersBounded

-----------------------------------------------------------------------------
(* Every step keeps the types                                              *)

\* The graph of the preset is over the tasks.
LEMMA Preset ==
  ASSUME TypeOK
  PROVE  /\ deps \in [Tasks -> SUBSET Tasks] /\ DOMAIN deps = Tasks
         /\ AgentOf \in [Tasks -> Agents \cup {None}]
<1>1. preset \in [deps : [Tasks -> SUBSET Tasks], agent : [Tasks -> Agents \cup {None}]]
  BY SwarmAssumption DEF TypeOK
<1> QED  BY <1>1 DEF deps, AgentOf

\* The layers of an accepted preset are in order and hold every task.
LEMMA Layered ==
  ASSUME TypeOK, Valid(deps)
  PROVE  /\ Ordered(deps, Layers(deps))
         /\ Layers(deps) \in Seq(SUBSET Tasks)
         /\ \A t \in Tasks : \E i \in 1 .. Len(Layers(deps)) : t \in Layers(deps)[i]
<1>1. DOMAIN deps = Tasks /\ IsFiniteSet(DOMAIN deps)
  BY Preset, SwarmAssumption
<1>2. /\ Ordered(deps, Layers(deps))
      /\ UNION {Layers(deps)[i] : i \in 1 .. Len(Layers(deps))} = DOMAIN deps
  BY <1>1, LayersInOrder
<1> QED  BY <1>1, <1>2 DEF Ordered

\* What becomes of a worker that moves.
LEMMA MoveEffect ==
  ASSUME NEW t \in Tasks, NEW at, worker \in [Tasks -> Workers], Moves(t, at)
  PROVE  /\ worker'[t].at = at /\ worker'[t].ok = worker[t].ok
         /\ worker'[t].tries = worker[t].tries
         /\ \A u \in Tasks : u # t => worker'[u] = worker[u]
         /\ at \in {"none", "wait", "try", "create", "send", "done", "raised"} =>
              worker' \in [Tasks -> Workers]
<1>1. worker[t] \in Workers
  OBVIOUS
<1>2. worker' = [worker EXCEPT ![t] = [worker[t] EXCEPT !.at = at]]
  BY DEF Moves
<1>3. worker'[t] = [worker[t] EXCEPT !.at = at] /\ \A u \in Tasks : u # t => worker'[u] = worker[u]
  BY <1>2
<1>4. /\ worker'[t].at = at /\ worker'[t].ok = worker[t].ok
      /\ worker'[t].tries = worker[t].tries
  BY <1>1, <1>3 DEF Workers
<1>5. ASSUME at \in {"none", "wait", "try", "create", "send", "done", "raised"}
      PROVE  worker' \in [Tasks -> Workers]
  <2>1. [worker[t] EXCEPT !.at = at] \in Workers
    BY <1>1, <1>5 DEF Workers
  <2> QED  BY <1>2, <2>1
<1> QED  BY <1>3, <1>4, <1>5

\* What the steps of a worker do to it.
LEMMA WorkEffect ==
  ASSUME NEW t \in Tasks, worker \in [Tasks -> Workers], Work(t)
  PROVE  /\ worker' \in [Tasks -> Workers]
         /\ \A u \in Tasks : u # t => worker'[u] = worker[u]
         /\ worker[t].at \in {"wait", "try", "create", "send"}
         /\ worker'[t].at \in {"try", "create", "send", "done", "raised"}
         /\ worker'[t].ok # worker[t].ok =>
              worker[t].at = "send" /\ worker'[t].at = "done"
         /\ worker[t].at = "wait" /\ ~WorkerStarts(t) => worker'[t].at = "done"
<1>1. CASE WorkerStarts(t)
  <2>1. PICK at \in {"try", "raised"} : Moves(t, at)
    BY <1>1 DEF WorkerStarts
  <2> QED  BY <1>1, <2>1, MoveEffect DEF WorkerStarts
<1>2. CASE NoSuchAgent(t)
  BY <1>2, MoveEffect DEF NoSuchAgent
<1>3. CASE WorkerTries(t)
  <2>1. CASE cancel
    <3>1. Moves(t, "done")
      BY <1>3, <2>1 DEF WorkerTries, Moves
    <3> QED  BY <1>3, <3>1, MoveEffect DEF WorkerTries
  <2>2. CASE ~cancel
    <3> DEFINE w == [at |-> "create", tries |-> worker[t].tries + 1, ok |-> worker[t].ok]
    <3>1. worker[t] \in Workers
      OBVIOUS
    <3>2. worker' = [worker EXCEPT ![t] = w]
      BY <1>3, <2>2, <3>1 DEF WorkerTries, Workers
    <3>3. w \in Workers
      BY <3>1 DEF Workers
    <3>4. worker'[t] = w /\ \A u \in Tasks : u # t => worker'[u] = worker[u]
      BY <3>2
    <3> QED  BY <1>3, <3>2, <3>3, <3>4 DEF WorkerTries
  <2> QED  BY <2>1, <2>2
<1>4. CASE WorkerCreates(t)
  <2>1. PICK at \in {"send", "try", "done"} : Moves(t, at)
    BY <1>4 DEF WorkerCreates, AttemptFails
  <2> QED  BY <1>4, <2>1, MoveEffect DEF WorkerCreates
<1>5. CASE WorkerAnswers(t)
  <2>1. CASE AttemptFails(t)
    <3>1. PICK at \in {"try", "done"} : Moves(t, at)
      BY <2>1 DEF AttemptFails
    <3> QED  BY <1>5, <3>1, MoveEffect DEF WorkerAnswers
  <2>2. CASE ~AttemptFails(t)
    <3>1. PICK ok \in BOOLEAN : worker' = [worker EXCEPT ![t].at = "done", ![t].ok = ok]
      BY <1>5, <2>2 DEF WorkerAnswers
    <3> DEFINE w == [[worker[t] EXCEPT !.at = "done"] EXCEPT !.ok = ok]
    <3>2. worker[t] \in Workers
      OBVIOUS
    <3>3. worker' = [worker EXCEPT ![t] = w]
      BY <3>1
    <3>4. w \in Workers /\ w.at = "done"
      BY <3>2 DEF Workers
    <3> HIDE DEF w
    <3>5. worker'[t] = w /\ \A u \in Tasks : u # t => worker'[u] = worker[u]
      BY <3>3
    <3> QED  BY <1>5, <3>3, <3>4, <3>5 DEF WorkerAnswers
  <2> QED  BY <2>1, <2>2
<1> QED  BY <1>1, <1>2, <1>3, <1>4, <1>5 DEF Work

\* What dispatching a layer does to the workers.
LEMMA DispatchEffect ==
  ASSUME worker \in [Tasks -> Workers], Dispatches
  PROVE  /\ worker' \in [Tasks -> Workers]
         /\ \A u \in Tasks : IF u \in todo THEN worker'[u].at = "wait" /\ ~worker'[u].ok
                             ELSE worker'[u] = worker[u]
<1> DEFINE w == [NoWorker EXCEPT !.at = "wait"]
<1>1. w \in Workers /\ w.at = "wait" /\ w.ok = FALSE
  BY DEF NoWorker, Workers
<1>2. worker' = [u \in Tasks |-> IF u \in todo THEN w ELSE worker[u]]
  BY DEF Dispatches
<1> HIDE DEF w
<1> QED  BY <1>1, <1>2

\* What a task's new status, and its row, do to the statuses.
LEMMA SetEffect ==
  ASSUME NEW t \in Tasks, NEW s \in Statuses, task \in [Tasks -> Statuses], SetTask(t, s)
  PROVE  /\ task' \in [Tasks -> Statuses] /\ task'[t] = s
         /\ \A u \in Tasks : u # t => task'[u] = task[u]
BY DEF SetTask

\* The same for the rows.
LEMMA SaveEffect ==
  ASSUME NEW t \in Tasks, NEW s \in Statuses, rows \in [Tasks -> Statuses \cup {"none"}],
         SaveTask(t, s)
  PROVE  /\ rows' \in [Tasks -> Statuses \cup {"none"}] /\ rows'[t] = s
         /\ \A u \in Tasks : u # t => rows'[u] = rows[u]
BY DEF SaveTask

\* A worker's step changes its task only when it starts.
LEMMA WorkTask ==
  ASSUME NEW t \in Tasks, Work(t)
  PROVE  /\ WorkerStarts(t) \/ (task' = task /\ rows' = rows /\ UNCHANGED <<body, good, broken>>)
         /\ UNCHANGED <<preset, row, report, layer, todo, final, known, cancel, early>>
BY DEF Work, WorkerStarts, NoSuchAgent, WorkerTries, WorkerCreates, WorkerAnswers,
       InWorker, people, Unbroken

\* What the start of a worker does to its task.
LEMMA StartEffect ==
  ASSUME NEW t \in Tasks, WorkerStarts(t), TypeOK
  PROVE  /\ worker[t].at = "wait"
         /\ task' \in [Tasks -> Statuses] /\ task'[t] = "in_progress"
         /\ \A u \in Tasks : u # t => task'[u] = task[u]
         /\ rows' \in [Tasks -> Statuses \cup {"none"}]
         /\ \/ /\ broken' = broken /\ body' = body /\ good' = good
               /\ rows'[t] = "in_progress"
               /\ \A u \in Tasks : u # t => rows'[u] = rows[u]
            \/ /\ broken' = TRUE /\ rows' = rows
               /\ IF body = "workers" THEN body' = "finish" /\ good' = FALSE
                  ELSE body' = body /\ good' = good
<1>1. SetTask(t, "in_progress") /\ "in_progress" \in Statuses
  BY DEF WorkerStarts, Statuses
<1>2. /\ task' \in [Tasks -> Statuses] /\ task'[t] = "in_progress"
      /\ \A u \in Tasks : u # t => task'[u] = task[u]
  BY <1>1, SetEffect DEF TypeOK
<1>3. CASE SaveTask(t, "in_progress") /\ Written /\ UNCHANGED <<body, good>>
  BY <1>1, <1>2, <1>3, SaveEffect DEF WorkerStarts, Written, TypeOK
<1>4. CASE Unwritten /\ rows' = rows /\ IF body = "workers" THEN Raises ELSE UNCHANGED <<body, good>>
  BY <1>2, <1>4 DEF WorkerStarts, Unwritten, Raises, TypeOK
<1> QED  BY <1>3, <1>4 DEF WorkerStarts

\* What a step of the body that sets the status of a task does.
LEMMA MarkEffect ==
  ASSUME NEW t \in Tasks, TypeOK, CancelsTask(t) \/ Blocks(t) \/ AppliesResult(t)
  PROVE  /\ t \in todo /\ todo' = todo \ {t}
         /\ UNCHANGED <<preset, row, report, layer, final, worker, agents, known, cancel, early>>
         /\ task' \in [Tasks -> Statuses]
         /\ \A u \in Tasks : u # t => task'[u] = task[u]
         /\ rows' \in [Tasks -> Statuses \cup {"none"}]
         /\ \/ /\ broken' = broken /\ rows'[t] = task'[t]
               /\ \A u \in Tasks : u # t => rows'[u] = rows[u]
               /\ body' = body \/ (body = "results" /\ todo' = {} /\ body' = "progress")
            \/ broken' = TRUE /\ rows' = rows /\ body' = "finish" /\ good' = FALSE
         /\ CASE CancelsTask(t) -> /\ body = "cancel" /\ task'[t] = "cancelled"
                                   /\ body' = body => good' = good
              [] Blocks(t) -> body = "gate" /\ task'[t] = "blocked" /\ good' = FALSE
              [] AppliesResult(t) ->
                   /\ body = "results" /\ task'[t] = ResultOf(t)
                   /\ good' => good /\ task'[t] = "completed"
<1>1. CASE CancelsTask(t)
  <2>1. SetTask(t, "cancelled") /\ "cancelled" \in Statuses
    BY <1>1 DEF CancelsTask, Statuses, Over
  <2>2. /\ task' \in [Tasks -> Statuses] /\ task'[t] = "cancelled"
        /\ \A u \in Tasks : u # t => task'[u] = task[u]
    BY <2>1, SetEffect DEF TypeOK
  <2>3. \/ /\ broken' = broken /\ rows'[t] = task'[t] /\ body' = body /\ good' = good
           /\ \A u \in Tasks : u # t => rows'[u] = rows[u]
           /\ rows' \in [Tasks -> Statuses \cup {"none"}]
        \/ /\ broken' = TRUE /\ rows' = rows /\ body' = "finish" /\ good' = FALSE
    BY <1>1, <2>1, <2>2, SaveEffect DEF CancelsTask, Written, Unwritten, Raises, TypeOK
  <2>4. /\ body = "cancel" /\ t \in todo /\ todo' = todo \ {t}
        /\ UNCHANGED <<preset, row, report, layer, final, worker, agents, known, cancel, early>>
    BY <1>1 DEF CancelsTask, InBody, people
  <2>5. ~Blocks(t) /\ ~AppliesResult(t)
    BY <2>4 DEF Blocks, AppliesResult
  <2> QED  BY <1>1, <2>2, <2>3, <2>4, <2>5 DEF TypeOK
<1>2. CASE Blocks(t)
  <2>1. SetTask(t, "blocked") /\ "blocked" \in Statuses
    BY <1>2 DEF Blocks, Statuses
  <2>2. /\ task' \in [Tasks -> Statuses] /\ task'[t] = "blocked"
        /\ \A u \in Tasks : u # t => task'[u] = task[u]
    BY <2>1, SetEffect DEF TypeOK
  <2>3. /\ good' = FALSE
        /\ \/ /\ broken' = broken /\ rows'[t] = task'[t] /\ body' = body
              /\ \A u \in Tasks : u # t => rows'[u] = rows[u]
              /\ rows' \in [Tasks -> Statuses \cup {"none"}]
           \/ /\ broken' = TRUE /\ rows' = rows /\ body' = "finish"
    BY <1>2, <2>1, <2>2, SaveEffect DEF Blocks, Written, Unwritten, Raises, TypeOK
  <2>4. /\ body = "gate" /\ t \in todo /\ todo' = todo \ {t}
        /\ UNCHANGED <<preset, row, report, layer, final, worker, agents, known, cancel, early>>
    BY <1>2 DEF Blocks, InBody, people
  <2>5. ~CancelsTask(t) /\ ~AppliesResult(t)
    BY <2>4 DEF CancelsTask, AppliesResult
  <2> QED  BY <1>2, <2>2, <2>3, <2>4, <2>5 DEF TypeOK
<1>3. CASE AppliesResult(t)
  <2>1. SetTask(t, ResultOf(t)) /\ ResultOf(t) \in Statuses
    BY <1>3 DEF AppliesResult, Statuses, Over, ResultOf
  <2>2. /\ task' \in [Tasks -> Statuses] /\ task'[t] = ResultOf(t)
        /\ \A u \in Tasks : u # t => task'[u] = task[u]
    BY <2>1, SetEffect DEF TypeOK
  <2>3. \/ /\ broken' = broken /\ rows'[t] = task'[t]
           /\ body' = IF todo = {t} THEN "progress" ELSE body
           /\ good' = (good /\ worker[t].ok)
           /\ \A u \in Tasks : u # t => rows'[u] = rows[u]
           /\ rows' \in [Tasks -> Statuses \cup {"none"}]
        \/ /\ broken' = TRUE /\ rows' = rows /\ body' = "finish" /\ good' = FALSE
    BY <1>3, <2>1, <2>2, SaveEffect DEF AppliesResult, Written, Unwritten, Raises, TypeOK
  <2>4. /\ body = "results" /\ t \in todo /\ todo' = todo \ {t}
        /\ UNCHANGED <<preset, row, report, layer, final, worker, agents, known, cancel, early>>
    BY <1>3 DEF AppliesResult, InBody, people
  <2>5. ~CancelsTask(t) /\ ~Blocks(t)
    BY <2>4 DEF CancelsTask, Blocks
  <2>6. good' => good /\ task'[t] = "completed"
    BY <2>2, <2>3 DEF ResultOf
  <2>7. \/ /\ broken' = broken /\ rows'[t] = task'[t]
           /\ \A u \in Tasks : u # t => rows'[u] = rows[u]
           /\ rows' \in [Tasks -> Statuses \cup {"none"}]
           /\ body' = body \/ (body = "results" /\ todo' = {} /\ body' = "progress")
        \/ /\ broken' = TRUE /\ rows' = rows /\ body' = "finish" /\ good' = FALSE
    BY <2>3, <2>4
  <2> QED  BY <1>3, <2>2, <2>4, <2>5, <2>6, <2>7 DEF TypeOK
<1> QED  BY <1>1, <1>2, <1>3

\* The body's steps that set no task.
Turns == \/ StartBody \/ NextLayer \/ Cancelled \/ Dispatches \/ Gathered
         \/ SavesProgress \/ Finishes \/ WritesFinal \/ Pops

\* The steps of a run.
LEMMA Steps ==
  ASSUME Next
  PROVE  \/ Start \/ Turns \/ Cancel \/ Rejects \/ Dies
         \/ \E t \in Tasks : CancelsTask(t) \/ Blocks(t) \/ AppliesResult(t)
         \/ \E t \in Tasks : Work(t)
BY DEF Next, Body, Turns

\* Failures are counted, and a failed write is not forgotten.
LEMMA FaultsTyped ==
  ASSUME TypeOK, Next
  PROVE  faults' \in Nat /\ broken' \in BOOLEAN
<1>1. faults' = faults \/ faults' = faults + 1
  <2>1. Written \/ Unwritten \/ Fault \/ Unbroken => faults' = faults \/ faults' = faults + 1
    BY DEF Written, Unwritten, Fault, Unbroken
  <2>2. ASSUME NEW t \in Tasks, Work(t) PROVE faults' = faults \/ faults' = faults + 1
    BY <2>1, <2>2 DEF Work, WorkerStarts, NoSuchAgent, WorkerTries, WorkerCreates, WorkerAnswers
  <2>3. CASE Turns
    BY <2>1, <2>3 DEF Turns, StartBody, NextLayer, Cancelled, Dispatches, Gathered,
                      SavesProgress, Finishes, WritesFinal, Pops
  <2>4. ASSUME NEW t \in Tasks, CancelsTask(t) \/ Blocks(t) \/ AppliesResult(t)
        PROVE  faults' = faults \/ faults' = faults + 1
    BY <2>1, <2>4 DEF CancelsTask, Blocks, AppliesResult
  <2>5. CASE Start \/ Cancel \/ Rejects \/ Dies
    BY <2>1, <2>5 DEF Start, Cancel, Rejects, Dies
  <2> QED  BY Steps, <2>2, <2>3, <2>4, <2>5
<1>2. broken' = broken \/ broken' = TRUE
  <2>1. Written \/ Unwritten \/ Unbroken => broken' = broken \/ broken' = TRUE
    BY DEF Written, Unwritten, Unbroken
  <2>2. ASSUME NEW t \in Tasks, Work(t) PROVE broken' = broken \/ broken' = TRUE
    BY <2>1, <2>2 DEF Work, WorkerStarts, NoSuchAgent, WorkerTries, WorkerCreates, WorkerAnswers
  <2>3. CASE Turns
    BY <2>1, <2>3 DEF Turns, StartBody, NextLayer, Cancelled, Dispatches, Gathered,
                      SavesProgress, Finishes, WritesFinal, Pops
  <2>4. ASSUME NEW t \in Tasks, CancelsTask(t) \/ Blocks(t) \/ AppliesResult(t)
        PROVE  broken' = broken \/ broken' = TRUE
    BY <2>1, <2>4 DEF CancelsTask, Blocks, AppliesResult
  <2>5. CASE Start \/ Cancel \/ Rejects \/ Dies
    BY <2>1, <2>5 DEF Start, Cancel, Rejects, Dies
  <2> QED  BY Steps, <2>2, <2>3, <2>4, <2>5
<1>3. faults \in Nat /\ broken \in BOOLEAN
  BY DEF TypeOK
<1>4. faults' \in Nat
  BY <1>1, <1>3
<1>5. broken' \in BOOLEAN
  BY <1>2, <1>3
<1> QED  BY <1>4, <1>5

\* The start of a run keeps the types.
LEMMA StartTyped ==
  ASSUME TypeOK, Start
  PROVE  TypeOK'
<1>1. /\ preset' \in Presets /\ task' \in [Tasks -> Statuses]
      /\ rows' \in [Tasks -> Statuses \cup {"none"}]
      /\ row' \in {"none", "running"} \cup Over /\ body' \in Places
  BY DEF TypeOK, Start, Places
<1>2. /\ layer' \in Nat /\ todo' \subseteq Tasks /\ good' \in BOOLEAN
      /\ final' \in Over \cup {"none"} /\ report' \in BOOLEAN /\ agents' \subseteq Agents
      /\ worker' \in [Tasks -> Workers]
      /\ known' \in BOOLEAN /\ cancel' \in BOOLEAN /\ early' \in BOOLEAN
  BY DEF TypeOK, Start, people
<1>3. faults' \in Nat /\ broken' \in BOOLEAN
  BY FaultsTyped DEF Next
<1> QED  BY <1>1, <1>2, <1>3 DEF TypeOK

\* A step of the body that sets no task keeps the types.
LEMMA TurnsTyped ==
  ASSUME TypeOK, BodyInv, LayerInv, Turns
  PROVE  TypeOK'
<1>1. /\ preset' \in Presets /\ task' \in [Tasks -> Statuses]
      /\ rows' \in [Tasks -> Statuses \cup {"none"}]
      /\ agents' \subseteq Agents
  BY DEF TypeOK, Turns, StartBody, NextLayer, Cancelled, Dispatches, Gathered,
         SavesProgress, Finishes, WritesFinal, Pops, InBody, store
<1>2. row' \in {"none", "running"} \cup Over
  BY DEF TypeOK, BodyInv, Turns, StartBody, NextLayer, Cancelled, Dispatches, Gathered,
         SavesProgress, Finishes, WritesFinal, Pops, InBody, store
<1>3. body' \in Places
  BY DEF Turns, StartBody, NextLayer, Cancelled, Dispatches, Gathered,
         SavesProgress, Finishes, WritesFinal, Pops, Places, Raises
<1>4. layer' \in Nat /\ todo' \subseteq Tasks
  <2>1. CASE NextLayer
    <3>1. CASE body' = "gate"
      <4>1. /\ layer' = layer + 1 /\ todo' = Layers(deps)[layer + 1] /\ layer # Len(Layers(deps))
        BY <2>1, <3>1 DEF NextLayer
      <4>2. /\ Valid(deps) /\ layer <= Len(Layers(deps)) /\ layer \in Nat
        BY <2>1 DEF NextLayer, BodyInv, LayerInv, Alive, Looping, TypeOK
      <4>3. Layers(deps) \in Seq(SUBSET Tasks)
        BY <4>2, Layered
      <4>4. layer + 1 \in 1 .. Len(Layers(deps)) /\ layer' \in Nat
        BY <4>1, <4>2, <4>3
      <4>5. Layers(deps)[layer + 1] \in SUBSET Tasks
        BY <4>3, <4>4
      <4> QED  BY <4>1, <4>4, <4>5
    <3>2. CASE body' # "gate"
      BY <2>1, <3>2 DEF NextLayer, TypeOK
    <3> QED  BY <3>1, <3>2
  <2>2. CASE ~NextLayer
    BY <2>2 DEF TypeOK, Turns, StartBody, Cancelled, Dispatches, Gathered,
                SavesProgress, Finishes, WritesFinal, Pops
  <2> QED  BY <2>1, <2>2
<1>5. good' \in BOOLEAN /\ final' \in Over \cup {"none"}
  BY DEF TypeOK, Over, Turns, StartBody, NextLayer, Cancelled, Dispatches, Gathered,
         SavesProgress, Finishes, WritesFinal, Pops, ChosenFinal, Raises
<1>6. report' \in BOOLEAN
  BY DEF TypeOK, Turns, StartBody, NextLayer, Cancelled, Dispatches, Gathered,
         SavesProgress, Finishes, WritesFinal, Pops, InBody, store
<1>7. worker' \in [Tasks -> Workers]
  <2>1. CASE Dispatches
    BY <2>1, DispatchEffect DEF TypeOK
  <2>2. CASE ~Dispatches
    BY <2>2 DEF TypeOK, Turns, StartBody, NextLayer, Cancelled, Gathered,
                SavesProgress, Finishes, WritesFinal, Pops
  <2> QED  BY <2>1, <2>2
<1>8. known' \in BOOLEAN /\ cancel' \in BOOLEAN /\ early' \in BOOLEAN
  BY DEF TypeOK, Turns, StartBody, NextLayer, Cancelled, Dispatches, Gathered,
         SavesProgress, Finishes, WritesFinal, Pops, InBody, people
<1>9. faults' \in Nat /\ broken' \in BOOLEAN
  BY FaultsTyped DEF Next, Body, Turns
<1> QED  BY <1>1, <1>2, <1>3, <1>4, <1>5, <1>6, <1>7, <1>8, <1>9 DEF TypeOK

\* A step of the body that sets a task keeps them.
LEMMA MarksTyped ==
  ASSUME NEW t \in Tasks, TypeOK, CancelsTask(t) \/ Blocks(t) \/ AppliesResult(t)
  PROVE  TypeOK'
<1>1. /\ UNCHANGED <<preset, row, report, layer, final, worker, agents, known, cancel, early>>
      /\ task' \in [Tasks -> Statuses] /\ rows' \in [Tasks -> Statuses \cup {"none"}]
      /\ todo' = todo \ {t}
      /\ body' \in {body, "progress", "finish"}
  BY MarkEffect
<1>2. faults' \in Nat /\ broken' \in BOOLEAN
  BY FaultsTyped DEF Next, Body
<1>4. good' \in BOOLEAN
  <2>1. good \in BOOLEAN
    BY DEF TypeOK
  <2> QED  BY <2>1 DEF CancelsTask, Blocks, AppliesResult, Raises
<1>3. body' \in Places
  BY <1>1 DEF TypeOK, Places
<1> QED  BY <1>1, <1>2, <1>3, <1>4 DEF TypeOK

\* A worker's step keeps them.
LEMMA WorkTyped ==
  ASSUME NEW t \in Tasks, TypeOK, WorkerInv, Work(t)
  PROVE  TypeOK'
<1>1. worker' \in [Tasks -> Workers]
  BY WorkEffect DEF TypeOK
<1>2. /\ task' \in [Tasks -> Statuses] /\ rows' \in [Tasks -> Statuses \cup {"none"}]
      /\ body' \in Places /\ good' \in BOOLEAN
  BY WorkTask, StartEffect DEF TypeOK, Places
<1>3. UNCHANGED <<preset, row, report, layer, todo, final, known, cancel, early>>
  BY WorkTask
<1>4. agents' \subseteq Agents
  <2>1. CASE WorkerCreates(t)
    <3>1. AgentOf[t] # None
      BY <2>1 DEF WorkerCreates, WorkerInv, WorkerFor
    <3> QED  BY <2>1, <3>1, Preset DEF TypeOK, WorkerCreates
  <2>2. CASE ~WorkerCreates(t)
    BY <2>2 DEF TypeOK, Work, WorkerStarts, NoSuchAgent, WorkerTries, WorkerAnswers
  <2> QED  BY <2>1, <2>2
<1>5. faults' \in Nat /\ broken' \in BOOLEAN
  BY FaultsTyped DEF Next
<1> QED  BY <1>1, <1>2, <1>3, <1>4, <1>5 DEF TypeOK

\* Cancelling, refusing and dying keep them.
LEMMA OthersTyped ==
  ASSUME TypeOK, Cancel \/ Rejects \/ Dies
  PROVE  TypeOK'
<1>1. CASE Cancel
  BY <1>1 DEF TypeOK, Cancel, store
<1>2. CASE Rejects
  BY <1>2 DEF TypeOK, Rejects, store, people, Places
<1>3. CASE Dies
  <2>1. NoWorker \in Workers
    BY DEF NoWorker, Workers
  <2>2. worker' \in [Tasks -> Workers]
    BY <1>3, <2>1 DEF Dies
  <2>3. faults' \in Nat /\ broken' \in BOOLEAN
    BY <1>3, FaultsTyped DEF Next
  <2> QED  BY <1>3, <2>2, <2>3 DEF TypeOK, Dies, store, Places
<1> QED  BY <1>1, <1>2, <1>3

\* Every step keeps the types.
LEMMA TypeKept ==
  ASSUME TypeOK, BodyInv, LayerInv, WorkerInv, Next
  PROVE  TypeOK'
BY Steps, StartTyped, TurnsTyped, MarksTyped, WorkTyped, OthersTyped

-----------------------------------------------------------------------------
(* Every step keeps the relation of body, row and layers                   *)

\* The preset, and so the graph, stays.
LEMMA GraphStays ==
  ASSUME Next
  PROVE  preset' = preset /\ deps' = deps /\ AgentOf' = AgentOf
<1>1. preset' = preset
  BY DEF Next, Body, Work, Start, Rejects, Cancel, Dies, StartBody, NextLayer, Cancelled,
         Dispatches, Gathered, SavesProgress, Finishes, WritesFinal, Pops, CancelsTask, Blocks,
         AppliesResult, WorkerStarts, NoSuchAgent, WorkerTries, WorkerCreates, WorkerAnswers,
         InBody, InWorker
<1> QED  BY <1>1 DEF deps, AgentOf

\* The chosen end is the row's.
LEMMA BodyKept ==
  ASSUME TypeOK, BodyInv, Next
  PROVE  BodyInv'
<1>0. deps' = deps
  BY GraphStays
<1>1. CASE Start \/ Rejects
  BY <1>0, <1>1 DEF BodyInv, TypeOK, Start, Rejects, Written, Unwritten, Alive, Looping, Over,
                    store, people
<1>2. CASE Cancel
  BY <1>0, <1>2 DEF BodyInv, TypeOK, Cancel, store, Alive, Looping, Over
<1>3. CASE Dies
  BY <1>0, <1>3 DEF BodyInv, TypeOK, Dies, store, Alive, Looping, Over
<1>4. ASSUME NEW t \in Tasks, CancelsTask(t) \/ Blocks(t) \/ AppliesResult(t)
      PROVE  BodyInv'
  <2>1. /\ UNCHANGED <<row, final, cancel, early>>
        /\ body' = body \/ body' \in {"progress", "finish"}
        /\ body \in {"cancel", "gate", "results"}
    BY <1>4, MarkEffect DEF CancelsTask, Blocks, AppliesResult
  <2> QED  BY <1>0, <2>1 DEF BodyInv, TypeOK, Alive, Looping, Over
<1>5. ASSUME NEW t \in Tasks, Work(t)
      PROVE  BodyInv'
  <2>1. /\ UNCHANGED <<row, final, cancel, early, layer, todo>>
        /\ body' = body \/ (body = "workers" /\ body' = "finish")
    BY <1>5, WorkTask, StartEffect
  <2> QED  BY <1>0, <2>1 DEF BodyInv, TypeOK, Alive, Looping, Over
<1>6. CASE Finishes
  <2>1. /\ body = "finish" /\ body' = "write" /\ UNCHANGED <<row, cancel, early>>
        /\ final' = ChosenFinal
    BY <1>6 DEF Finishes, InBody, people
  <2>2. ChosenFinal \in Over /\ (cancel => ChosenFinal = "cancelled")
    BY DEF ChosenFinal, Over
  <2>3. row = "running" /\ Valid(deps) /\ (early => cancel)
    BY <2>1 DEF BodyInv, Alive
  <2> QED  BY <1>0, <2>1, <2>2, <2>3 DEF BodyInv, Alive, Looping, Over
<1>7. CASE WritesFinal
  BY <1>0, <1>7 DEF BodyInv, TypeOK, WritesFinal, people, Alive, Looping, Over
<1>8. CASE Turns /\ ~Finishes /\ ~WritesFinal
  BY <1>0, <1>8 DEF BodyInv, TypeOK, Alive, Looping, Over, Turns, StartBody, NextLayer,
            Cancelled, Dispatches, Gathered, SavesProgress, Pops, Raises, InBody, store, people
<1> QED  BY Steps, <1>1, <1>2, <1>3, <1>4, <1>5, <1>6, <1>7, <1>8

\* The body stays within the layers, and its tasks are of its layer.
LEMMA LayerKept ==
  ASSUME TypeOK, BodyInv, LayerInv, Next
  PROVE  LayerInv'
<1>0. deps' = deps /\ Layers(deps)' = Layers(deps)
  BY GraphStays
<1>1. CASE Start \/ Rejects
  <2>1. /\ layer' = 0 /\ todo' = {} /\ body' \in {"begin", "over"}
        /\ body' = "begin" => Valid(deps)
    BY <1>1 DEF BodyInv, LayerInv, Start, Rejects
  <2>2. Valid(deps) => Len(Layers(deps)) \in Nat
    BY Layered
  <2> QED  BY <1>0, <2>1, <2>2 DEF LayerInv, Alive, Looping
<1>2. CASE Cancel
  BY <1>0, <1>2 DEF LayerInv, Cancel
<1>3. CASE Dies
  BY <1>0, <1>3 DEF LayerInv, Dies, Alive, Looping
<1>4. ASSUME NEW t \in Tasks, CancelsTask(t) \/ Blocks(t) \/ AppliesResult(t)
      PROVE  LayerInv'
  <2>1. /\ layer' = layer /\ todo' = todo \ {t}
        /\ \/ body' = body
           \/ body' = "progress" /\ todo' = {}
           \/ body' = "finish"
        /\ body \in {"cancel", "gate", "results"}
    BY <1>4, MarkEffect DEF CancelsTask, Blocks, AppliesResult
  <2> QED  BY <1>0, <2>1 DEF LayerInv, Alive, Looping
<1>5. ASSUME NEW t \in Tasks, Work(t)
      PROVE  LayerInv'
  <2>1. /\ UNCHANGED <<layer, todo>>
        /\ body' = body \/ (body = "workers" /\ body' = "finish")
    BY <1>5, WorkTask, StartEffect
  <2> QED  BY <1>0, <2>1 DEF LayerInv, Alive, Looping
<1>6. CASE NextLayer
  <2>1. /\ body = "layer" /\ layer <= Len(Layers(deps)) /\ layer \in Nat /\ todo = {}
        /\ Layers(deps) \in Seq(SUBSET Tasks)
    BY <1>6, Layered DEF NextLayer, LayerInv, BodyInv, TypeOK, Alive, Looping
  <2>2. CASE layer = Len(Layers(deps))
    BY <1>0, <1>6, <2>1, <2>2 DEF NextLayer, LayerInv
  <2>3. CASE layer # Len(Layers(deps)) /\ cancel
    BY <1>0, <1>6, <2>1, <2>3 DEF NextLayer, LayerInv
  <2>4. CASE layer # Len(Layers(deps)) /\ ~cancel
    <3>1. body' = "gate" /\ layer' = layer + 1 /\ todo' = Layers(deps)[layer + 1]
      BY <1>6, <2>4 DEF NextLayer
    <3>2. layer + 1 <= Len(Layers(deps)) /\ layer + 1 # 0
      BY <2>1, <2>4
    <3> QED  BY <1>0, <3>1, <3>2 DEF LayerInv
  <2> QED  BY <2>2, <2>3, <2>4
<1>7. CASE Turns /\ ~NextLayer
  BY <1>0, <1>7 DEF LayerInv, Alive, Looping, Turns, StartBody,
            Cancelled, Dispatches, Gathered, SavesProgress, Finishes, WritesFinal, Pops, Raises
<1> QED  BY Steps, <1>1, <1>2, <1>3, <1>4, <1>5, <1>6, <1>7

-----------------------------------------------------------------------------
(* Every step keeps what is known of tasks and workers                     *)

\* While the body is in its layers, only workers of its layer move.
LEMMA WorkPlace ==
  ASSUME NEW t \in Tasks, TypeOK, LayerInv, TaskInv, Work(t),
         body \in {"none", "cancel"} \cup Looping
  PROVE  body = "workers" /\ t \in todo /\ Begun(t)
<1>1. worker[t].at \in {"wait", "try", "create", "send"}
  BY WorkEffect DEF TypeOK
<1>2. TaskFor(t)
  BY DEF TaskInv
<1>3. body # "cancel" /\ body \in {"none"} \cup Looping
  BY <1>1, <1>2 DEF TaskFor, Idle
<1>4. Begun(t) /\ ~(body = "gate" /\ t \in todo)
  BY <1>1, <1>2, <1>3 DEF TaskFor
<1>5. body # "none" => t \in todo
  BY <1>1, <1>2, <1>3, <1>4 DEF TaskFor, Idle
<1>6. body # "none"
  <2> SUFFICES ASSUME body = "none" PROVE FALSE
    OBVIOUS
  <2>1. layer = 0
    BY DEF LayerInv
  <2>2. ~Begun(t)
    BY <2>1 DEF Begun
  <2> QED  BY <1>4, <2>2
<1>7. body \notin {"begin", "layer", "progress", "gate"}
  BY <1>4, <1>5, <1>6 DEF LayerInv
<1>8. body # "results"
  BY <1>1, <1>2, <1>5, <1>6 DEF TaskFor
<1> QED  BY <1>3, <1>4, <1>5, <1>6, <1>7, <1>8 DEF Looping

\* What is still to do is of the layer that was begun last.
LEMMA TodoBegun ==
  ASSUME NEW t \in todo, TypeOK, LayerInv, body \in {"gate", "workers", "results"}
  PROVE  Begun(t)
<1>1. layer \in 1 .. layer /\ t \in Layers(deps)[layer]
  BY DEF TypeOK, LayerInv
<1> QED  BY <1>1 DEF Begun

\* A task the body sets was not completed, and its worker is idle.
LEMMA Marked ==
  ASSUME NEW t \in Tasks, TypeOK, LayerInv, TaskInv,
         CancelsTask(t) \/ Blocks(t) \/ AppliesResult(t)
  PROVE  /\ Idle(t)
         /\ CancelsTask(t) \/ Blocks(t) => Waiting(t)
         /\ AppliesResult(t) => worker[t].at = "done" /\ (Waiting(t) \/ task[t] = "in_progress")
<1>1. TaskFor(t) /\ t \in todo
  BY MarkEffect DEF TaskInv
<1>2. CASE CancelsTask(t)
  <2>1. body = "cancel"
    BY <1>2 DEF CancelsTask
  <2> QED  BY <1>1, <1>2, <2>1 DEF TaskFor, AppliesResult
<1>3. CASE Blocks(t)
  <2>1. body = "gate"
    BY <1>3 DEF Blocks
  <2> QED  BY <1>1, <1>3, <2>1 DEF TaskFor, AppliesResult, Idle, Looping
<1>4. CASE AppliesResult(t)
  <2>1. body = "results"
    BY <1>4 DEF AppliesResult
  <2> QED  BY <1>1, <1>4, <2>1 DEF TaskFor, CancelsTask, Blocks, Idle
<1> QED  BY <1>2, <1>3, <1>4

\* The steps that set no task and move no worker.
Calm == \/ Start \/ Rejects \/ Cancel
        \/ Turns /\ ~Dispatches

\* The steps, those that leave tasks and workers alone taken together.
LEMMA CalmSteps ==
  ASSUME Next
  PROVE  \/ Calm \/ Dispatches \/ Dies
         \/ \E t \in Tasks : CancelsTask(t) \/ Blocks(t) \/ AppliesResult(t)
         \/ \E t \in Tasks : Work(t)
BY Steps DEF Calm

\* A calm step is calm.
LEMMA CalmEffect ==
  ASSUME Calm
  PROVE  task' = task /\ worker' = worker
BY DEF Calm, Start, Rejects, Cancel, Turns, StartBody, NextLayer, Cancelled, Gathered,
       SavesProgress, Finishes, WritesFinal, Pops

\* A completed task stays completed.
LEMMA CompletedStays ==
  ASSUME TypeOK, LayerInv, TaskInv, WorkerInv, Next, NEW u \in Tasks, task[u] = "completed"
  PROVE  task'[u] = "completed"
<1>1. CASE Calm \/ Dispatches \/ Dies
  BY <1>1, CalmEffect DEF Dispatches, Dies
<1>2. ASSUME NEW t \in Tasks, CancelsTask(t) \/ Blocks(t) \/ AppliesResult(t)
      PROVE  task'[u] = "completed"
  BY <1>2, Marked, MarkEffect DEF Waiting
<1>3. ASSUME NEW t \in Tasks, Work(t)
      PROVE  task'[u] = "completed"
  <2>1. CASE WorkerStarts(t)
    BY <2>1, StartEffect DEF WorkerInv, WorkerFor, Waiting
  <2> QED  BY <1>3, <2>1, WorkTask
<1> QED  BY CalmSteps, <1>1, <1>2, <1>3

\* So what was ready stays ready.
LEMMA ReadyStays ==
  ASSUME TypeOK, LayerInv, TaskInv, WorkerInv, Next, NEW u \in Tasks, Ready(u)
  PROVE  Ready(u)'
<1>1. deps' = deps /\ deps[u] \subseteq Tasks
  BY GraphStays, Preset
<1> QED  BY <1>1, CompletedStays DEF Ready

\* Every step keeps what is known of a worker and its task.
LEMMA WorkerKept ==
  ASSUME TypeOK, LayerInv, TaskInv, WorkerInv, Next
  PROVE  WorkerInv'
<1> SUFFICES ASSUME NEW u \in Tasks PROVE WorkerFor(u)'
  BY DEF WorkerInv
<1>0. /\ WorkerFor(u) /\ TaskFor(u) /\ worker[u] \in Workers
      /\ Ready(u) => Ready(u)'
      /\ AgentOf' = AgentOf
  BY GraphStays, ReadyStays DEF WorkerInv, TaskInv, TypeOK
<1>1. CASE Calm
  BY <1>0, <1>1, CalmEffect DEF WorkerFor, Waiting
<1>2. CASE Dispatches
  <2>1. task' = task /\ body = "gate" /\ \A t \in todo : Ready(t)
    BY <1>2 DEF Dispatches
  <2>2. IF u \in todo THEN worker'[u].at = "wait" /\ ~worker'[u].ok ELSE worker'[u] = worker[u]
    BY <1>2, DispatchEffect DEF TypeOK
  <2>3. u \in todo => Waiting(u) /\ Ready(u)
    BY <1>0, <2>1 DEF TaskFor, Looping
  <2> QED  BY <1>0, <2>1, <2>2, <2>3 DEF WorkerFor, Waiting
<1>3. CASE Dies
  <2>1. worker'[u].at = "none" /\ worker'[u].ok = FALSE
    BY <1>3 DEF Dies, NoWorker
  <2> QED  BY <2>1 DEF WorkerFor
<1>4. ASSUME NEW t \in Tasks, CancelsTask(t) \/ Blocks(t) \/ AppliesResult(t)
      PROVE  WorkerFor(u)'
  <2>1. worker' = worker /\ (u # t => task'[u] = task[u])
    BY <1>4, MarkEffect
  <2>2. CASE u = t
    <3>1. CASE CancelsTask(t) \/ Blocks(t)
      <4>1. ~worker[u].ok /\ Idle(u)
        BY <1>0, <1>4, <2>2, <3>1, Marked DEF WorkerFor, Waiting
      <4> QED  BY <2>1, <4>1 DEF WorkerFor, Idle
    <3>2. CASE AppliesResult(t)
      <4>1. worker[u].at = "done" /\ (worker[u].ok => task'[u] = "completed")
        BY <1>4, <2>2, <3>2, Marked, MarkEffect DEF ResultOf, AppliesResult, CancelsTask, Blocks
      <4> QED  BY <2>1, <4>1 DEF WorkerFor
    <3> QED  BY <1>4, <3>1, <3>2
  <2>3. CASE u # t
    BY <1>0, <2>1, <2>3 DEF WorkerFor, Waiting
  <2> QED  BY <2>2, <2>3
<1>5. ASSUME NEW t \in Tasks, Work(t)
      PROVE  WorkerFor(u)'
  <2>1. CASE u = t
    <3>0. /\ worker[u].at \in {"wait", "try", "create", "send"}
          /\ worker'[u].at \in {"try", "create", "send", "done", "raised"}
          /\ worker'[u].ok # worker[u].ok => worker[u].at = "send" /\ worker'[u].at = "done"
          /\ worker[u].at = "wait" /\ ~WorkerStarts(u) => worker'[u].at = "done"
      BY <1>5, <2>1, WorkEffect DEF TypeOK
    <3>1. ~worker[u].ok
      BY <1>0, <3>0 DEF WorkerFor
    <3>2. CASE WorkerStarts(u)
      <4>1. /\ worker[u].at = "wait" /\ task'[u] = "in_progress" /\ AgentOf[u] # None
        BY <3>2, StartEffect DEF WorkerStarts
      <4>2. ~worker'[u].ok
        BY <3>0, <3>1, <4>1
      <4> QED  BY <1>0, <3>0, <4>1, <4>2 DEF WorkerFor
    <3>3. CASE ~WorkerStarts(u)
      <4>1. task' = task
        BY <1>5, <2>1, <3>3, WorkTask
      <4>2. worker'[u].ok => worker[u].at = "send" /\ worker'[u].at = "done"
        BY <3>0, <3>1
      <4>3. worker'[u].at # "wait"
        BY <3>0
      <4>4. worker'[u].at \in {"try", "create", "send"} =>
              task'[u] = "in_progress" /\ AgentOf'[u] # None
        BY <1>0, <3>0, <3>3, <4>1 DEF WorkerFor
      <4>5. worker'[u].ok => worker'[u].at = "done" /\ task'[u] = "in_progress"
        BY <1>0, <4>1, <4>2 DEF WorkerFor
      <4> QED  BY <4>3, <4>4, <4>5 DEF WorkerFor
    <3> QED  BY <3>2, <3>3
  <2>2. CASE u # t
    <3>1. worker'[u] = worker[u] /\ task'[u] = task[u]
      BY <1>5, <2>2, WorkEffect, WorkTask, StartEffect DEF TypeOK
    <3> QED  BY <1>0, <3>1 DEF WorkerFor, Waiting
  <2> QED  BY <2>1, <2>2
<1> QED  BY CalmSteps, <1>1, <1>2, <1>3, <1>4, <1>5

\* No task is in a layer before the first, and each is in one layer only.
LEMMA BegunNext ==
  ASSUME NEW u \in Tasks, TypeOK, Valid(deps), layer + 1 <= Len(Layers(deps))
  PROVE  Begun(u) => u \notin Layers(deps)[layer + 1]
<1>1. Ordered(deps, Layers(deps)) /\ Layers(deps) \in Seq(SUBSET Tasks) /\ layer \in Nat
  BY Layered DEF TypeOK
<1>2. ASSUME NEW i \in 1 .. layer, u \in Layers(deps)[i]
      PROVE  u \notin Layers(deps)[layer + 1]
  <2>1. i \in 1 .. Len(Layers(deps)) /\ layer + 1 \in 1 .. Len(Layers(deps)) /\ i # layer + 1
    BY <1>1
  <2>2. Layers(deps)[i] \cap Layers(deps)[layer + 1] = {}
    BY <1>1, <2>1 DEF Ordered
  <2> QED  BY <1>2, <2>2
<1> QED  BY <1>2 DEF Begun

\* After the last layer every task was begun.
LEMMA AllBegun ==
  ASSUME NEW u \in Tasks, TypeOK, Valid(deps), layer = Len(Layers(deps))
  PROVE  Begun(u)
BY Layered DEF Begun

\* Every step keeps what is known of a task.
LEMMA TaskKept ==
  ASSUME TypeOK, BodyInv, LayerInv, TaskInv, WorkerInv, Next
  PROVE  TaskInv'
<1> SUFFICES ASSUME NEW u \in Tasks PROVE TaskFor(u)'
  BY DEF TaskInv
<1>0. TaskFor(u) /\ WorkerFor(u) /\ Layers(deps)' = Layers(deps)
  BY GraphStays DEF TaskInv, WorkerInv
<1>1. CASE Start \/ Rejects
  <2>1. /\ body = "none" /\ body' \in {"begin", "over"} /\ layer = 0 /\ layer' = 0
        /\ task' = task /\ worker' = worker
    BY <1>1 DEF LayerInv, Start, Rejects
  <2>2. ~Begun(u) /\ ~Begun(u)'
    BY <2>1 DEF Begun
  <2> QED  BY <1>0, <2>1, <2>2 DEF TaskFor, Waiting, Idle, Looping
<1>2. CASE Cancel
  BY <1>0, <1>2 DEF TaskFor, Cancel, Waiting, Idle, Begun
<1>3. CASE Dies
  BY <1>3 DEF TaskFor, Dies, Looping
<1>4. CASE NextLayer
  <2>1. /\ body = "layer" /\ todo = {} /\ task' = task /\ worker' = worker
        /\ layer <= Len(Layers(deps)) /\ Valid(deps) /\ layer \in Nat
    BY <1>4 DEF NextLayer, LayerInv, BodyInv, Alive, Looping, TypeOK
  <2>2. IF Begun(u) THEN /\ task[u] \in {"completed", "failed", "blocked"} /\ Idle(u)
                         /\ good => task[u] = "completed"
        ELSE Waiting(u) /\ worker[u].at = "none"
    BY <1>0, <2>1 DEF TaskFor, Looping
  <2>3. CASE body' = "finish"
    BY <2>3 DEF TaskFor, Looping
  <2>4. CASE body' = "cancel"
    <3>1. todo' = {t \in Tasks : task[t] \notin {"completed", "failed"}}
      BY <1>4, <2>4 DEF NextLayer
    <3>2. IF u \in todo' THEN Waiting(u) ELSE task[u] \in {"completed", "failed", "cancelled"}
      BY <2>2, <3>1 DEF Waiting
    <3>3. Idle(u)
      BY <2>2 DEF Idle
    <3> QED  BY <2>1, <2>4, <3>2, <3>3 DEF TaskFor, Looping, Waiting, Idle
  <2>5. CASE body' = "gate"
    <3>1. /\ layer' = layer + 1 /\ good' = good /\ todo' = Layers(deps)[layer + 1]
          /\ layer + 1 <= Len(Layers(deps))
      <4>1. Len(Layers(deps)) \in Nat
        BY <2>1, Layered
      <4> QED  BY <1>4, <2>1, <2>5, <4>1 DEF NextLayer
    <3>2. Begun(u)' <=> Begun(u) \/ u \in todo'
      <4>1. \A i : i \in 1 .. layer + 1 <=> i \in 1 .. layer \/ i = layer + 1
        BY <2>1
      <4> QED  BY <1>0, <3>1, <4>1 DEF Begun
    <3>3. ~(Begun(u) /\ u \in todo')
      BY <2>1, <3>1, BegunNext
    <3> QED  BY <2>1, <2>2, <2>5, <3>1, <3>2, <3>3 DEF TaskFor, Looping, Waiting, Idle
  <2> QED  BY <1>4, <2>3, <2>4, <2>5 DEF NextLayer
<1>5. CASE Dispatches
  <2>1. /\ body = "gate" /\ task' = task /\ todo' = todo /\ layer' = layer /\ good' = good
        /\ body' = IF todo = {} THEN "layer" ELSE "workers"
    BY <1>5 DEF Dispatches
  <2>2. IF u \in todo THEN worker'[u].at = "wait" ELSE worker'[u] = worker[u]
    BY <1>5, DispatchEffect DEF TypeOK
  <2>3. Begun(u)' <=> Begun(u)
    BY <1>0, <2>1 DEF Begun
  <2>4. u \in todo => Begun(u)
    BY <2>1, TodoBegun
  <2> QED  BY <1>0, <2>1, <2>2, <2>3, <2>4 DEF TaskFor, Looping, Waiting, Idle
<1>6. CASE Gathered
  <2>1. /\ body = "workers" /\ body' = "results" /\ \A t \in todo : worker[t].at = "done"
        /\ UNCHANGED <<task, todo, layer, good, worker>>
    BY <1>6 DEF Gathered
  <2>2. Begun(u)' <=> Begun(u)
    BY <1>0, <2>1 DEF Begun
  <2>3. u \in todo => worker[u].at = "done"
    BY <2>1
  <2> QED  BY <1>0, <2>1, <2>2, <2>3 DEF TaskFor, Looping, Waiting, Idle
<1>7. CASE StartBody \/ SavesProgress
  <2>1. /\ body \in {"begin", "progress"} /\ body' \in {"layer", "finish"} /\ todo = {}
        /\ UNCHANGED <<task, todo, layer, worker>> /\ (body' = "layer" => good' = good)
    BY <1>7 DEF StartBody, SavesProgress, LayerInv, Raises
  <2>2. Begun(u)' <=> Begun(u)
    BY <1>0, <2>1 DEF Begun
  <2> QED  BY <1>0, <2>1, <2>2 DEF TaskFor, Looping, Waiting, Idle
<1>8. CASE Cancelled \/ Finishes \/ WritesFinal \/ Pops
  <2>1. body' \in {"finish", "write", "pop", "lost", "over"}
    BY <1>8 DEF Cancelled, Finishes, WritesFinal, Pops
  <2> QED  BY <2>1 DEF TaskFor, Looping
<1>9. ASSUME NEW t \in Tasks, CancelsTask(t) \/ Blocks(t) \/ AppliesResult(t)
      PROVE  TaskFor(u)'
  <2>1. /\ t \in todo /\ todo' = todo \ {t} /\ worker' = worker /\ layer' = layer
        /\ u # t => task'[u] = task[u]
        /\ body' = body \/ (body = "results" /\ body' = "progress" /\ todo' = {}) \/ body' = "finish"
    BY <1>9, MarkEffect
  <2>2. Begun(u)' <=> Begun(u)
    BY <1>0, <2>1 DEF Begun
  <2>3. /\ Idle(t)
        /\ CancelsTask(t) => body = "cancel" /\ task'[t] = "cancelled"
        /\ Blocks(t) => body = "gate" /\ task'[t] = "blocked" /\ good' = FALSE
        /\ AppliesResult(t) => /\ body = "results" /\ task'[t] \in {"completed", "failed"}
                               /\ good' => good /\ task'[t] = "completed"
    BY <1>9, Marked, MarkEffect DEF ResultOf, CancelsTask, Blocks, AppliesResult
  <2>4. CASE u = t
    <3>1. CASE CancelsTask(t)
      BY <2>1, <2>3, <2>4, <3>1 DEF TaskFor, Looping, Idle
    <3>2. CASE Blocks(t) \/ AppliesResult(t)
      <4>1. body \in {"gate", "results"}
        BY <2>3, <3>2
      <4>2. Begun(t)
        BY <2>1, <4>1, TodoBegun
      <4>3. Begun(u)' /\ u \notin todo' /\ Idle(u)' /\ body' # "cancel"
        BY <2>1, <2>2, <2>3, <2>4, <4>1, <4>2 DEF Idle
      <4>4. /\ task'[u] \in {"completed", "failed", "blocked"}
            /\ good' => task'[u] = "completed"
        BY <2>3, <2>4, <3>2
      <4> QED  BY <4>3, <4>4 DEF TaskFor
    <3> QED  BY <1>9, <3>1, <3>2
  <2>5. CASE u # t
    <3>1. u \in todo' <=> u \in todo
      BY <2>1, <2>5
    <3>2. CASE CancelsTask(t)
      BY <1>0, <2>1, <2>3, <2>5, <3>1, <3>2 DEF TaskFor, Looping, Waiting, Idle
    <3>3. CASE Blocks(t)
      BY <1>0, <2>1, <2>2, <2>3, <2>5, <3>1, <3>3 DEF TaskFor, Looping, Waiting, Idle
    <3>4. CASE AppliesResult(t)
      <4>1. (good' => good) /\ body = "results" /\ body' \in {"results", "progress", "finish"}
        BY <2>1, <2>3, <3>4
      <4> QED  BY <1>0, <2>1, <2>2, <2>5, <3>1, <4>1 DEF TaskFor, Looping, Waiting, Idle
    <3> QED  BY <1>9, <3>2, <3>3, <3>4
  <2> QED  BY <2>4, <2>5
<1>10. ASSUME NEW t \in Tasks, Work(t)
       PROVE  TaskFor(u)'
  <2>1. body' = body \/ (body = "workers" /\ body' = "finish")
    BY <1>10, WorkTask, StartEffect
  <2>2. CASE body \in {"none", "cancel"} \cup Looping
    <3>1. body = "workers" /\ t \in todo /\ Begun(t)
      BY <1>10, <2>2, WorkPlace
    <3>2. CASE body' = "finish"
      BY <3>2 DEF TaskFor, Looping
    <3>3. CASE body' = body
      <4>1. todo' = todo /\ layer' = layer /\ good' = good
        BY <1>10, <3>1, <3>3, WorkTask, StartEffect
      <4>2. Begun(u)' <=> Begun(u)
        BY <1>0, <4>1 DEF Begun
      <4>3. CASE u = t
        <5>1. task'[u] = task[u] \/ task'[u] = "in_progress"
          BY <1>10, <4>3, WorkTask, StartEffect
        <5>2. Waiting(u)' \/ task'[u] = "in_progress"
          BY <1>0, <3>1, <4>3, <5>1 DEF TaskFor, Waiting
        <5> QED  BY <3>1, <3>3, <4>1, <4>2, <4>3, <5>2 DEF TaskFor
      <4>4. CASE u # t
        <5>1. task'[u] = task[u]
          BY <1>10, <4>4, WorkTask, StartEffect
        <5>2. worker'[u] = worker[u]
          BY <1>10, <4>4, WorkEffect DEF TypeOK
        <5> QED  BY <1>0, <3>3, <4>1, <4>2, <5>1, <5>2 DEF TaskFor, Waiting, Idle
      <4> QED  BY <4>3, <4>4
    <3> QED  BY <2>1, <3>2, <3>3
  <2>3. CASE body \notin {"none", "cancel"} \cup Looping
    <3>1. body' \notin {"none", "cancel"} \cup Looping
      BY <2>1, <2>3 DEF Looping
    <3> QED  BY <3>1 DEF TaskFor, Looping
  <2> QED  BY <2>2, <2>3
<1> QED
  BY Steps, <1>1, <1>2, <1>3, <1>4, <1>5, <1>6, <1>7, <1>8, <1>9, <1>10 DEF Turns

-----------------------------------------------------------------------------
(* Every step keeps the rows, the end and the number of workers            *)

\* The rows follow the memory.
LEMMA StoreKept ==
  ASSUME TypeOK, BodyInv, LayerInv, TaskInv, StoreInv, Next
  PROVE  StoreInv'
<1>1. CASE Start
  BY <1>1 DEF StoreInv, Start, Written, Unwritten, Looping
<1>2. CASE Rejects
  BY <1>2 DEF StoreInv, Rejects, store, Looping
<1>3. CASE Cancel
  BY <1>3 DEF StoreInv, Cancel, store
<1>4. CASE Dies
  BY <1>4 DEF StoreInv, Dies, store, Looping
<1>5. CASE Turns
  <2>1. /\ rows' = rows /\ task' = task
        /\ \/ broken' = broken
           \/ broken' = TRUE /\ body' \in {"finish", "lost"}
    BY <1>5 DEF Turns, StartBody, NextLayer, Cancelled, Dispatches, Gathered, SavesProgress,
                Finishes, WritesFinal, Pops, Written, Unwritten, Unbroken, store, Raises
  <2>2. row' # "none" => row # "none"
    BY <1>5 DEF BodyInv, Turns, StartBody, NextLayer, Cancelled, Dispatches, Gathered, SavesProgress,
                Finishes, WritesFinal, Pops, store, Alive
  <2>3. body' \in {"none", "cancel"} \cup Looping => body \in {"none", "cancel"} \cup Looping
    BY <1>5 DEF Turns, StartBody, NextLayer, Cancelled, Dispatches, Gathered, SavesProgress,
                Finishes, WritesFinal, Pops, Raises, Looping
  <2> QED  BY <2>1, <2>2, <2>3 DEF StoreInv, Looping
<1>6. ASSUME NEW t \in Tasks, CancelsTask(t) \/ Blocks(t) \/ AppliesResult(t)
      PROVE  StoreInv'
  <2>1. /\ row' = row /\ \A u \in Tasks : u # t => task'[u] = task[u]
        /\ task' \in [Tasks -> Statuses] /\ rows' \in [Tasks -> Statuses \cup {"none"}]
        /\ \/ /\ broken' = broken /\ rows'[t] = task'[t]
              /\ \A u \in Tasks : u # t => rows'[u] = rows[u]
           \/ broken' = TRUE /\ body' = "finish"
    BY <1>6, MarkEffect
  <2>2. body \in {"none", "cancel"} \cup Looping
    BY <1>6 DEF CancelsTask, Blocks, AppliesResult, Looping
  <2>3. CASE broken' = TRUE /\ body' = "finish"
    BY <2>3 DEF StoreInv, Looping
  <2>4. CASE /\ broken' = broken /\ rows'[t] = task'[t]
             /\ \A u \in Tasks : u # t => rows'[u] = rows[u]
    <3>1. ASSUME row # "none" PROVE rows' = task'
      <4>1. rows = task
        BY <2>2, <3>1 DEF StoreInv
      <4>2. \A u \in Tasks : rows'[u] = task'[u]
        BY <2>1, <2>4, <4>1
      <4> QED  BY <2>1, <4>2
    <3> QED  BY <2>1, <2>2, <2>4, <3>1 DEF StoreInv
  <2> QED  BY <2>1, <2>3, <2>4
<1>7. ASSUME NEW t \in Tasks, Work(t)
      PROVE  StoreInv'
  <2>1. CASE ~WorkerStarts(t)
    BY <1>7, <2>1, WorkTask DEF StoreInv
  <2>2. CASE WorkerStarts(t)
    <3>1. row' = row
      BY <1>7, WorkTask
    <3>2. /\ task' \in [Tasks -> Statuses] /\ task'[t] = "in_progress"
          /\ \A u \in Tasks : u # t => task'[u] = task[u]
          /\ rows' \in [Tasks -> Statuses \cup {"none"}]
      BY <2>2, StartEffect
    <3>3. CASE /\ broken' = broken /\ body' = body /\ rows'[t] = "in_progress"
               /\ \A u \in Tasks : u # t => rows'[u] = rows[u]
      <4>1. ASSUME row # "none", ~broken PROVE rows' = task'
        <5>1. rows = task
          BY <4>1 DEF StoreInv
        <5>2. \A u \in Tasks : rows'[u] = task'[u]
          BY <3>2, <3>3, <5>1
        <5> QED  BY <3>2, <5>2
      <4> QED  BY <3>1, <3>3, <4>1 DEF StoreInv
    <3>4. CASE broken' = TRUE /\ IF body = "workers" THEN body' = "finish" ELSE body' = body
      <4>1. body' \notin {"none", "cancel"} \cup Looping
        BY <1>7, <3>4, WorkPlace DEF Looping
      <4> QED  BY <3>4, <4>1 DEF StoreInv
    <3> QED  BY <2>2, <3>3, <3>4, StartEffect
  <2> QED  BY <2>1, <2>2
<1> QED  BY Steps, <1>1, <1>2, <1>3, <1>4, <1>5, <1>6, <1>7

\* What the body leaves when it is past its layers.
Left(t)  == task[t] \in Over \cup {"blocked"} /\ Idle(t)
Ended(t) == task[t] = "completed" /\ Idle(t)

\* The end of the layers and of a cancellation leave nothing behind.
LEMMA LeavesLayers ==
  ASSUME IInv, NextLayer \/ Cancelled, body' = "finish"
  PROVE  /\ good' => rows' = task' /\ \A t \in Tasks : Ended(t)'
         /\ \A t \in Tasks : Left(t)'
<1>1. task' = task /\ worker' = worker /\ rows' = rows /\ good' = good
  BY DEF NextLayer, Cancelled
<1>2. CASE NextLayer
  <2>1. /\ body = "layer" /\ todo = {} /\ layer = Len(Layers(deps)) /\ Valid(deps)
        /\ rows = task
    BY <1>2 DEF NextLayer, IInv, LayerInv, BodyInv, StoreInv, Alive, Looping
  <2>2. ASSUME NEW t \in Tasks
        PROVE  Left(t) /\ (good => task[t] = "completed")
    <3>1. Begun(t)
      BY <2>1, AllBegun DEF IInv
    <3> QED  BY <2>1, <3>1 DEF IInv, TaskInv, TaskFor, Looping, Left, Over
  <2> QED  BY <1>1, <2>1, <2>2 DEF Left, Ended, Idle
<1>3. CASE Cancelled
  <2>1. body = "cancel" /\ todo = {} /\ ~good
    BY <1>3 DEF Cancelled, IInv, EndInv
  <2>2. \A t \in Tasks : Left(t)
    BY <2>1 DEF IInv, TaskInv, TaskFor, Left, Over
  <2> QED  BY <1>1, <2>1, <2>2 DEF Left, Idle
<1> QED  BY <1>2, <1>3

\* Every step keeps what an end says.
LEMMA EndKept ==
  ASSUME IInv, Next
  PROVE  EndInv'
<1>0. /\ TypeOK /\ BodyInv /\ LayerInv /\ TaskInv /\ StoreInv
      /\ (body = "finish" /\ good) \/ final = "completed" =>
           rows = task /\ \A t \in Tasks : Ended(t)
      /\ (body = "finish" \/ final # "none") /\ ~broken => \A t \in Tasks : Left(t)
      /\ row = "completed" => (Tasks # {} => report)
      /\ body = "cancel" => ~good
  BY DEF IInv, EndInv, Ended, Left
<1>g. SUFFICES
        /\ (body' = "finish" /\ good') \/ final' = "completed" =>
             rows' = task' /\ \A t \in Tasks : Ended(t)'
        /\ (body' = "finish" \/ final' # "none") /\ ~broken' => \A t \in Tasks : Left(t)'
        /\ row' = "completed" => (Tasks # {} => report')
        /\ body' = "cancel" => ~good'
  BY DEF EndInv, Ended, Left
<1>1. CASE Start \/ Rejects
  <2>1. body' \in {"begin", "over"} /\ final' = "none" /\ row' # "completed"
    BY <1>0, <1>1 DEF BodyInv, Start, Rejects, store, Over
  <2> QED  BY <2>1
<1>2. CASE Cancel
  <2>1. UNCHANGED <<body, good, final, rows, task, worker, row, report, broken>>
    BY <1>2 DEF Cancel, store
  <2> QED  BY <1>0, <2>1 DEF Ended, Left, Idle
<1>3. CASE Dies
  <2>1. body' = "dead" /\ UNCHANGED <<final, rows, task, row, report, broken>>
    BY <1>3 DEF Dies, store
  <2>2. \A t \in Tasks : worker'[t].at = "none"
    BY <1>3 DEF Dies, NoWorker
  <2> QED  BY <1>0, <2>1, <2>2 DEF Ended, Left, Idle
<1>4. CASE NextLayer \/ Cancelled
  <2>1. /\ final' = "none" /\ row' # "completed"
        /\ body' \in {"finish", "cancel", "gate"} /\ (body' = "cancel" => ~good')
    BY <1>0, <1>4 DEF NextLayer, Cancelled, BodyInv, Over
  <2> QED  BY <1>4, <2>1, LeavesLayers
<1>5. CASE Finishes
  <2>1. /\ body = "finish" /\ body' = "write" /\ final' = ChosenFinal
        /\ UNCHANGED <<good, rows, task, worker, row, report, broken>>
    BY <1>5 DEF Finishes, Unbroken, InBody
  <2>2. ChosenFinal = "completed" => good
    BY DEF ChosenFinal
  <2> QED  BY <1>0, <2>1, <2>2 DEF Ended, Left, Idle
<1>6. CASE WritesFinal
  <2>1. /\ body = "write" /\ body' \in {"pop", "lost"} /\ final # "none"
        /\ UNCHANGED <<final, rows, task, worker>>
        /\ broken' = broken \/ broken' = TRUE
    BY <1>0, <1>6 DEF WritesFinal, BodyInv, Written, Unwritten
  <2>2. CASE row' = final /\ report' = (Layers(deps) # <<>> /\
               \E t \in Layers(deps)[Len(Layers(deps))] : task[t] = "completed")
    <3>1. ASSUME row' = "completed", Tasks # {} PROVE report'
      <4>1. \A t \in Tasks : task[t] = "completed"
        BY <1>0, <2>2, <3>1 DEF Ended
      <4>2. /\ Ordered(deps, Layers(deps)) /\ Layers(deps) \in Seq(SUBSET Tasks)
            /\ \A t \in Tasks : \E i \in 1 .. Len(Layers(deps)) : t \in Layers(deps)[i]
        BY <1>0, <2>1, Layered DEF BodyInv, Alive
      <4>3. Len(Layers(deps)) \in 1 .. Len(Layers(deps))
        BY <3>1, <4>2
      <4>4. PICK t : t \in Layers(deps)[Len(Layers(deps))]
        BY <4>2, <4>3 DEF Ordered
      <4>5. t \in Tasks
        BY <4>2, <4>3, <4>4
      <4>6. Layers(deps) # <<>>
        BY <4>3
      <4> QED  BY <2>2, <4>1, <4>4, <4>5, <4>6
    <3> QED  BY <1>0, <2>1, <3>1 DEF Ended, Left, Idle
  <2>3. CASE row' = row /\ report' = report
    BY <1>0, <2>1, <2>3 DEF Ended, Left, Idle
  <2> QED  BY <1>6, <2>2, <2>3 DEF WritesFinal
<1>7. CASE Turns /\ ~NextLayer /\ ~Cancelled /\ ~Finishes /\ ~WritesFinal
  <2>1. /\ UNCHANGED <<final, rows, task, row, report>>
        /\ body' \notin {"cancel"} /\ (body' = "finish" => ~good' /\ broken' = TRUE)
        /\ body # "finish"
        /\ broken' = broken \/ broken' = TRUE
        /\ worker' = worker \/ body = "gate"
    BY <1>7 DEF Turns, StartBody, Dispatches, Gathered, SavesProgress, Pops, Written, Unwritten,
                Unbroken, Raises, InBody, store
  <2>2. final # "none" => worker' = worker
    BY <1>0, <2>1 DEF BodyInv
  <2> QED  BY <1>0, <2>1, <2>2 DEF Ended, Left, Idle
<1>8. ASSUME NEW t \in Tasks, CancelsTask(t) \/ Blocks(t) \/ AppliesResult(t)
      PROVE  EndInv'
  <2>3. /\ body \in {"cancel", "gate", "results"}
        /\ CancelsTask(t) \/ body # "cancel"
    BY <1>8 DEF CancelsTask, Blocks, AppliesResult
  <2>4. /\ UNCHANGED <<final, row, report>>
        /\ body' = "finish" => ~good' /\ broken' = TRUE
        /\ body' = body \/ body' \in {"progress", "finish"}
    BY <1>0, <1>8, <2>3, MarkEffect
  <2>5. CancelsTask(t) /\ body' = body => good' = good
    BY DEF CancelsTask, Raises
  <2>1. /\ body \in {"cancel", "gate", "results"}
        /\ UNCHANGED <<final, row, report>>
        /\ body' = "finish" => ~good' /\ broken' = TRUE
        /\ body' = "cancel" => body = "cancel" /\ good' = good
    BY <2>3, <2>4, <2>5
  <2>2. final = "none"
    BY <1>0, <2>1 DEF BodyInv
  <2> QED  BY <1>0, <1>g, <2>1, <2>2 DEF EndInv
<1>9. ASSUME NEW t \in Tasks, Work(t)
      PROVE  EndInv'
  <2>1. /\ UNCHANGED <<final, row, report>>
        /\ \/ body' = body /\ good' = good
           \/ body' = "finish" /\ ~good' /\ broken' = TRUE /\ body = "workers"
        /\ broken' = broken \/ broken' = TRUE
    BY <1>9, WorkTask, StartEffect, <1>0
  <2>2. ~Idle(t)
    BY <1>0, <1>9, WorkEffect DEF Idle, TypeOK
  <2>3. ~(body = "finish" /\ good) /\ final # "completed"
    BY <1>0, <2>2 DEF Ended
  <2>4. (body = "finish" \/ final # "none") => broken
    BY <1>0, <2>2 DEF Left
  <2> QED  BY <1>0, <2>1, <2>3, <2>4 DEF EndInv
<1> QED  BY Steps, <1>1, <1>2, <1>3, <1>4, <1>5, <1>6, <1>7, <1>8, <1>9, <1>g DEF Turns, EndInv, Ended, Left

\* The semaphore of a layer bounds the busy workers.
LEMMA BoundKept ==
  ASSUME TypeOK, WorkersBounded, Next
  PROVE  WorkersBounded'
<1>0. /\ IsFiniteSet(Tasks) /\ MaxWorkers \in Nat /\ MaxWorkers # 0
      /\ Active \subseteq Tasks /\ IsFiniteSet(Active) /\ Cardinality(Active) \in Nat
  <2>1. Active \subseteq Tasks
    BY DEF Active
  <2>2. IsFiniteSet(Tasks) /\ MaxWorkers \in Nat /\ MaxWorkers # 0
    BY SwarmAssumption
  <2> QED  BY <2>1, <2>2, FS_Subset, FS_CardinalityType
<1>1. ASSUME Active' \subseteq Active
      PROVE  WorkersBounded'
  <2>1. Cardinality(Active') \in Nat /\ Cardinality(Active') <= Cardinality(Active)
    BY <1>0, <1>1, FS_Subset, FS_CardinalityType
  <2> QED  BY <1>0, <2>1 DEF WorkersBounded
<1>2. CASE Calm \/ \E t \in Tasks : CancelsTask(t) \/ Blocks(t) \/ AppliesResult(t)
  <2>1. worker' = worker
    BY <1>2, CalmEffect, MarkEffect
  <2> QED  BY <1>1, <2>1 DEF Active
<1>3. CASE Dispatches
  <2>1. \A u \in Tasks : worker'[u].at = "wait" \/ worker'[u] = worker[u]
    BY <1>3, DispatchEffect DEF TypeOK
  <2> QED  BY <1>1, <2>1 DEF Active
<1>4. CASE Dies
  <2>1. \A u \in Tasks : worker'[u].at = "none"
    BY <1>4 DEF Dies, NoWorker
  <2> QED  BY <1>1, <2>1 DEF Active
<1>5. ASSUME NEW t \in Tasks, Work(t)
      PROVE  WorkersBounded'
  <2>1. /\ \A u \in Tasks : u # t => worker'[u] = worker[u]
        /\ worker[t].at \in {"wait", "try", "create", "send"}
        /\ worker[t].at = "wait" /\ ~WorkerStarts(t) => worker'[t].at = "done"
    BY <1>5, WorkEffect DEF TypeOK
  <2>2. CASE ~WorkerStarts(t)
    BY <1>1, <2>1, <2>2 DEF Active
  <2>3. CASE WorkerStarts(t)
    <3>1. Cardinality(Active) < MaxWorkers
      BY <2>3 DEF WorkerStarts
    <3>2. Active' \subseteq Active \cup {t}
      BY <2>1 DEF Active
    <3>3. /\ IsFiniteSet(Active \cup {t}) /\ Cardinality(Active \cup {t}) <= Cardinality(Active) + 1
      <4>1. /\ IsFiniteSet(Active \cup {t})
            /\ Cardinality(Active \cup {t}) =
                 IF t \in Active THEN Cardinality(Active) ELSE Cardinality(Active) + 1
        BY <1>0, FS_AddElement
      <4> QED  BY <1>0, <4>1
    <3>4. Cardinality(Active') \in Nat /\ Cardinality(Active') <= Cardinality(Active \cup {t})
      BY <3>2, <3>3, FS_Subset, FS_CardinalityType
    <3>5. Cardinality(Active \cup {t}) \in Nat
      BY <3>3, FS_CardinalityType
    <3>6. Cardinality(Active)' <= MaxWorkers
      BY <1>0, <3>1, <3>3, <3>4, <3>5
    <3> QED  BY <3>6 DEF WorkersBounded
  <2> QED  BY <2>2, <2>3
<1> QED  BY CalmSteps, <1>2, <1>3, <1>4, <1>5

-----------------------------------------------------------------------------
(* The invariant                                                           *)

\* A run that is built has a waiting task for each node, and no worker.
LEMMA InitInv ==
  ASSUME Init
  PROVE  IInv
<1>1. TypeOK
  <2>1. NoWorker \in Workers
    BY DEF NoWorker, Workers
  <2>2. worker \in [Tasks -> Workers]
    BY <2>1 DEF Init
  <2>3. task \in [Tasks -> Statuses] /\ rows \in [Tasks -> Statuses \cup {"none"}]
    BY DEF Init, Statuses
  <2> QED  BY <2>2, <2>3 DEF Init, TypeOK, Places
<1>2. BodyInv /\ LayerInv
  BY DEF Init, BodyInv, LayerInv, Alive, Looping, Over
<1>3. \A t \in Tasks : Waiting(t) /\ worker[t].at = "none" /\ worker[t].ok = FALSE
  BY DEF Init, Waiting, NoWorker
<1>4. TaskInv /\ WorkerInv
  <2>1. body = "none"
    BY DEF Init
  <2> QED  BY <1>3, <2>1 DEF TaskInv, TaskFor, WorkerInv, WorkerFor, Looping
<1>5. StoreInv /\ EndInv
  BY DEF Init, StoreInv, EndInv
<1>6. WorkersBounded
  <2>1. Active = {}
    BY <1>3 DEF Active
  <2>2. MaxWorkers \in Nat
    BY SwarmAssumption
  <2> QED  BY <2>1, <2>2, FS_EmptySet DEF WorkersBounded
<1> QED  BY <1>1, <1>2, <1>4, <1>5, <1>6 DEF IInv

\* A step that changes nothing keeps it.
LEMMA StutterInv ==
  ASSUME IInv, UNCHANGED vars
  PROVE  IInv'
<1>1. TypeOK'
  BY DEF IInv, TypeOK, vars, store, people
<1>2. deps' = deps /\ AgentOf' = AgentOf
  BY DEF vars, deps, AgentOf
<1>3. BodyInv' /\ LayerInv' /\ StoreInv'
  BY <1>2 DEF IInv, BodyInv, LayerInv, StoreInv, vars, store, people
<1>4. TaskInv' /\ WorkerInv'
  BY <1>2 DEF IInv, TaskInv, TaskFor, Begun, Idle, Waiting, WorkerInv, WorkerFor, Ready,
              vars, store, people
<1>5. EndInv' /\ WorkersBounded'
  BY DEF IInv, EndInv, Idle, WorkersBounded, Active, vars, store, people
<1> QED  BY <1>1, <1>3, <1>4, <1>5 DEF IInv

\* The invariant is inductive.
LEMMA Inductive ==
  ASSUME IInv, [Next]_vars
  PROVE  IInv'
<1>1. CASE Next
  BY <1>1, TypeKept, BodyKept, LayerKept, TaskKept, WorkerKept, StoreKept, EndKept, BoundKept
     DEF IInv
<1> QED  BY <1>1, StutterInv

\* The invariant holds in every state of every run.
THEOREM Invariant == Spec => []IInv
BY InitInv, Inductive, PTL DEF Spec

\* Every variable keeps its type: the layers of the graph are sets of its tasks,
\* and only agents that exist get an ephemeral row.
THEOREM TypeCorrect == Spec => []TypeOK
<1>1. IInv => TypeOK
  BY DEF IInv
<1> QED  BY Invariant, <1>1, PTL

\* The semaphore works also past a gather that gave up: its workers keep their
\* places until they are done.
THEOREM WorkersStayBounded == Spec => []WorkersBounded
<1>1. IInv => WorkersBounded
  BY DEF IInv
<1> QED  BY Invariant, <1>1, PTL

\* The stored end of a run is true, whatever the graph, the failures and the
\* moment of the cancellation.
THEOREM EndsAreTrue == Spec => []EndIsTrue
<1>1. IInv => EndIsTrue
  <2> SUFFICES ASSUME IInv PROVE EndIsTrue
    OBVIOUS
  <2>1. early /\ row \in Over => row = "cancelled"
    BY DEF IInv, BodyInv, Over
  <2>2. row = "completed" => final = "completed" /\ (Tasks # {} => report)
    BY DEF IInv, BodyInv, EndInv, Over
  <2>3. final = "completed" => \A t \in Tasks : rows[t] = "completed"
    BY DEF IInv, EndInv
  <2> QED  BY <2>1, <2>2, <2>3 DEF EndIsTrue
<1> QED  BY Invariant, <1>1, PTL

\* Nothing is left behind a run that ended without a failed write.
THEOREM NothingIsLeft == Spec => []NothingLeftBehind
<1>1. IInv => NothingLeftBehind
  <2> SUFFICES ASSUME IInv, row \in Over, ~broken
               PROVE  /\ \A t \in Tasks : worker[t].at \in {"none", "done"}
                      /\ \A t \in Tasks : rows[t] \in Over \cup {"blocked"}
    BY DEF NothingLeftBehind
  <2>1. final # "none" /\ rows = task
    BY DEF IInv, BodyInv, StoreInv, Over
  <2> QED  BY <2>1 DEF IInv, EndInv, Idle
<1> QED  BY Invariant, <1>1, PTL

-----------------------------------------------------------------------------
(* The promise                                                             *)

\* What the promise sees of one status.
View(s) == CASE s \in {"pending", "blocked"} -> "waiting"
             [] s = "in_progress" -> "working"
             [] s = "completed" -> "completed"
             [] s \in {"failed", "cancelled"} -> "failed"

\* It sees the statuses of all tasks, before and after a step.
LEMMA SeenViews ==
  /\ Seen  = [t \in Tasks |-> View(task[t])]
  /\ Seen' = [t \in Tasks |-> View(task'[t])]
BY DEF Seen, View

\* What it sees of a task before a step.
LEMMA SeenOne ==
  ASSUME NEW t \in Tasks, task \in [Tasks -> Statuses]
  PROVE  /\ Seen \in [Tasks -> {"waiting", "working", "completed", "failed"}]
         /\ Waiting(t) => Seen[t] = "waiting"
         /\ task[t] = "in_progress" => Seen[t] = "working"
         /\ task[t] = "completed" => Seen[t] = "completed"
         /\ task[t] \in {"failed", "cancelled"} => Seen[t] = "failed"
<1>1. \A u \in Tasks : task[u] \in {"pending", "blocked", "in_progress", "completed", "failed", "cancelled"}
  BY DEF Statuses, Over
<1>2. \A u \in Tasks : Seen[u] \in {"waiting", "working", "completed", "failed"}
  BY <1>1 DEF Seen
<1>3. Seen = [u \in Tasks |-> Seen[u]]
  BY SeenViews
<1>4. Seen \in [Tasks -> {"waiting", "working", "completed", "failed"}]
  BY <1>2, <1>3
<1> QED  BY <1>1, <1>4 DEF Seen, Waiting

\* The same after a step.
LEMMA SeenNext ==
  ASSUME NEW t \in Tasks, task' \in [Tasks -> Statuses]
  PROVE  /\ Seen' \in [Tasks -> {"waiting", "working", "completed", "failed"}]
         /\ Waiting(t)' => Seen'[t] = "waiting"
         /\ task'[t] = "in_progress" => Seen'[t] = "working"
         /\ task'[t] = "completed" => Seen'[t] = "completed"
         /\ task'[t] \in {"failed", "cancelled"} => Seen'[t] = "failed"
<1>1. \A u \in Tasks : task'[u] \in {"pending", "blocked", "in_progress", "completed", "failed", "cancelled"}
  BY DEF Statuses, Over
<1>2. \A u \in Tasks : Seen'[u] \in {"waiting", "working", "completed", "failed"}
  BY <1>1 DEF Seen
<1>3. Seen' = [u \in Tasks |-> Seen'[u]]
  BY SeenViews
<1>4. Seen' \in [Tasks -> {"waiting", "working", "completed", "failed"}]
  BY <1>2, <1>3
<1> QED  BY <1>1, <1>4 DEF Seen, Waiting

\* When one task gets a status, the promise sees one task move.
LEMMA SeenMove ==
  ASSUME NEW t \in Tasks, task \in [Tasks -> Statuses], task' \in [Tasks -> Statuses],
         \A u \in Tasks : u # t => task'[u] = task[u]
  PROVE  Seen' = [Seen EXCEPT ![t] = Seen'[t]]
<1>1. \A u \in Tasks : u # t => Seen'[u] = Seen[u]
  BY SeenViews
<1>2. /\ Seen \in [Tasks -> {"waiting", "working", "completed", "failed"}]
      /\ Seen' \in [Tasks -> {"waiting", "working", "completed", "failed"}]
  BY SeenOne, SeenNext
<1> QED  BY <1>1, <1>2

\* A step that sets one task to a status that follows is a step of the promise.
LEMMA TaskPromised ==
  ASSUME TypeOK, NEW t \in Tasks, deps' = deps, row' = row, task' \in [Tasks -> Statuses],
         \A u \in Tasks : u # t => task'[u] = task[u],
         \/ Waiting(t) /\ Waiting(t)'
         \/ Waiting(t) /\ Ready(t) /\ task'[t] = "in_progress"
         \/ task[t] = "in_progress" /\ task'[t] = "completed"
         \/ (Waiting(t) \/ task[t] = "in_progress") /\ task'[t] \in {"failed", "cancelled"}
  PROVE  [Promise!Next]_(Promise!vars)
<1>1. /\ task \in [Tasks -> Statuses]
      /\ Outcome' = Outcome /\ Seen' = [Seen EXCEPT ![t] = Seen'[t]]
  BY SeenMove DEF TypeOK, Outcome
<1>2. CASE Waiting(t) /\ Waiting(t)'
  <2>1. Seen[t] = "waiting" /\ Seen'[t] = "waiting"
    BY <1>1, <1>2, SeenOne, SeenNext
  <2>2. Seen \in [Tasks -> {"waiting", "working", "completed", "failed"}]
    BY <1>1, SeenOne
  <2>3. Seen' = Seen
    BY <1>1, <2>1, <2>2
  <2> QED  BY <1>1, <2>3 DEF Promise!vars
<1>3. CASE Waiting(t) /\ Ready(t) /\ task'[t] = "in_progress"
  <2>1. Seen[t] = "waiting" /\ Seen'[t] = "working"
    BY <1>1, <1>3, SeenOne, SeenNext
  <2>2. \A d \in deps[t] : Seen[d] = "completed"
    <3>1. deps[t] \subseteq Tasks
      BY Preset
    <3>2. \A d \in deps[t] : d \in Tasks /\ task[d] = "completed"
      BY <1>3, <3>1 DEF Ready
    <3> QED  BY <1>1, <3>2, SeenOne
  <2>3. Promise!Begin(t)
    BY <1>1, <2>1, <2>2 DEF Promise!Begin
  <2> QED  BY <2>3 DEF Promise!Next
<1>4. CASE task[t] = "in_progress" /\ task'[t] = "completed"
  <2>1. Seen[t] = "working" /\ Seen'[t] = "completed"
    BY <1>1, <1>4, SeenOne, SeenNext
  <2>2. Promise!Complete(t)
    BY <1>1, <2>1 DEF Promise!Complete
  <2> QED  BY <2>2 DEF Promise!Next
<1>5. CASE (Waiting(t) \/ task[t] = "in_progress") /\ task'[t] \in {"failed", "cancelled"}
  <2>1. Seen[t] \in {"waiting", "working"} /\ Seen'[t] = "failed"
    BY <1>1, <1>5, SeenOne, SeenNext
  <2>2. Promise!GiveUp(t)
    BY <1>1, <2>1 DEF Promise!GiveUp
  <2> QED  BY <2>2 DEF Promise!Next
<1> QED  BY <1>2, <1>3, <1>4, <1>5

\* A step that sets no task and ends no run is none of the promise.
LEMMA QuietPromised ==
  ASSUME deps' = deps, task' = task, Outcome' = Outcome
  PROVE  [Promise!Next]_(Promise!vars)
<1>1. Seen' = Seen
  BY DEF Seen
<1> QED  BY <1>1 DEF Promise!vars

\* Every step of the run is a step of the promise, or none.
LEMMA NextPromised ==
  ASSUME IInv, Next
  PROVE  [Promise!Next]_(Promise!vars)
<1>0. /\ TypeOK /\ LayerInv /\ TaskInv /\ WorkerInv /\ BodyInv /\ deps' = deps
  BY GraphStays DEF IInv
<1>1. CASE WritesFinal
  <2>1. task' = task /\ body = "write"
    BY <1>1 DEF WritesFinal
  <2>2. row = "running" /\ final \in Over
    BY <1>0, <2>1 DEF BodyInv, Alive, TypeOK
  <2>3. Outcome = "open" /\ Seen' = Seen
    BY <2>1, <2>2 DEF Outcome, Over, Seen
  <2>4. CASE row' = final
    <3>1. Outcome' = final
      BY <2>2, <2>4 DEF Outcome
    <3>2. final = "completed" => \A t \in Tasks : Seen[t] = "completed"
      <4>1. final = "completed" => \A t \in Tasks : task[t] = "completed"
        BY DEF IInv, EndInv
      <4>2. task \in [Tasks -> Statuses]
        BY <1>0 DEF TypeOK
      <4> QED  BY <4>1, <4>2, SeenOne
    <3>3. Promise!End(final)
      BY <1>0, <2>3, <3>1, <3>2 DEF Promise!End
    <3> QED  BY <2>2, <3>3 DEF Promise!Next, Over
  <2>5. CASE row' = row
    BY <1>0, <2>1, <2>5, QuietPromised DEF Outcome
  <2> QED  BY <1>1, <2>4, <2>5 DEF WritesFinal
<1>2. CASE ~WritesFinal /\ (Calm \/ Dispatches \/ Dies)
  <2>1. task' = task
    BY <1>2, CalmEffect DEF Dispatches, Dies
  <2>2. Outcome' = Outcome
    BY <1>0, <1>2 DEF Outcome, Over, BodyInv, Calm, Start, Rejects, Cancel, Turns, StartBody,
       NextLayer, Cancelled, Dispatches, Gathered, SavesProgress, Finishes, Pops, Dies, store
  <2> QED  BY <1>0, <2>1, <2>2, QuietPromised
<1>3. ASSUME NEW t \in Tasks, CancelsTask(t) \/ Blocks(t) \/ AppliesResult(t)
      PROVE  [Promise!Next]_(Promise!vars)
  <2>1. /\ row' = row /\ task' \in [Tasks -> Statuses]
        /\ \A u \in Tasks : u # t => task'[u] = task[u]
    BY <1>0, <1>3, MarkEffect
  <2>2. CASE CancelsTask(t)
    <3>1. Waiting(t) /\ task'[t] = "cancelled"
      BY <1>0, <2>2, Marked DEF CancelsTask, SetTask, TypeOK
    <3> QED  BY <1>0, <2>1, <3>1, TaskPromised
  <2>3. CASE Blocks(t)
    <3>1. Waiting(t) /\ task'[t] = "blocked"
      BY <1>0, <2>3, Marked DEF Blocks, SetTask, TypeOK
    <3>2. Waiting(t)'
      BY <3>1 DEF Waiting
    <3> QED  BY <1>0, <2>1, <3>1, <3>2, TaskPromised
  <2>4. CASE AppliesResult(t)
    <3>1. /\ Waiting(t) \/ task[t] = "in_progress"
          /\ task'[t] = ResultOf(t)
      BY <1>0, <2>4, Marked DEF AppliesResult, SetTask, TypeOK
    <3>2. worker[t].ok => task[t] = "in_progress" \/ task[t] = "completed"
      BY <1>0 DEF WorkerInv, WorkerFor
    <3>3. \/ task[t] = "in_progress" /\ task'[t] = "completed"
          \/ task'[t] = "failed"
      BY <3>1, <3>2 DEF ResultOf, Waiting
    <3> QED  BY <1>0, <2>1, <3>1, <3>3, TaskPromised
  <2> QED  BY <1>3, <2>2, <2>3, <2>4
<1>4. ASSUME NEW t \in Tasks, Work(t)
      PROVE  [Promise!Next]_(Promise!vars)
  <2>1. row' = row
    BY <1>4, WorkTask
  <2>2. CASE WorkerStarts(t)
    <3>1. /\ worker[t].at = "wait" /\ task'[t] = "in_progress"
          /\ task' \in [Tasks -> Statuses]
          /\ \A u \in Tasks : u # t => task'[u] = task[u]
      BY <1>0, <2>2, StartEffect
    <3>2. Waiting(t) /\ Ready(t)
      BY <1>0, <3>1 DEF WorkerInv, WorkerFor
    <3> QED  BY <1>0, <2>1, <3>1, <3>2, TaskPromised
  <2>3. CASE ~WorkerStarts(t)
    <3>1. task' = task
      BY <1>4, <2>3, WorkTask
    <3> QED  BY <1>0, <2>1, <3>1, QuietPromised DEF Outcome
  <2> QED  BY <2>2, <2>3
<1> QED  BY CalmSteps, <1>1, <1>2, <1>3, <1>4 DEF Calm

\* The body, its layers and its workers implement the promise of a run, for any
\* graph and any failures: a task is begun only when all it depends on is
\* complete, results are final, and the run ends once.
THEOREM PromiseKept == Spec => KeepsPromise
<1>1. Init => Promise!Init
  <2> SUFFICES ASSUME Init PROVE Promise!Init
    OBVIOUS
  <2>1. TypeOK
    BY InitInv DEF IInv
  <2>2. deps \in [Tasks -> SUBSET Tasks]
    BY <2>1, Preset
  <2>3. Outcome = "open"
    BY DEF Init, Outcome, Over
  <2>4. Seen = [t \in Tasks |-> "waiting"]
    <3>1. \A t \in Tasks : task[t] \in {"pending", "blocked"}
      BY DEF Init
    <3> QED  BY <3>1 DEF Seen
  <2> QED  BY <2>2, <2>3, <2>4 DEF Promise!Init
<1>2. IInv /\ [Next]_vars => [Promise!Next]_(Promise!vars)
  <2>1. ASSUME UNCHANGED vars PROVE [Promise!Next]_(Promise!vars)
    <3>1. deps' = deps /\ task' = task /\ Outcome' = Outcome
      BY <2>1 DEF vars, deps, Outcome, store
    <3> QED  BY <3>1, QuietPromised
  <2> QED  BY <2>1, NextPromised
<1> QED  BY <1>1, <1>2, Invariant, PTL DEF Spec, KeepsPromise, Promise!Spec

=============================================================================
