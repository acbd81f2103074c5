----------------------------- MODULE MCWorkerCycles -----------------------------
(* A bounded instance of WorkerCycles for TLC. *)
EXTENDS WorkerCycles

CONSTANTS a, b

MCSymbols  == {a, b}
MCUniverse == <<a, b>>

\* No position, or one the account's settings list without its availability.
MCOpenings == {Flat(100), [Flat(30) EXCEPT !.qty[a] = 7, !.avail[a] = Unstated, !.cost[a] = 10]}

Asks(what, n) == [kind |-> what, of |-> n]
MCAsks == {Asks("none", 0), Asks("enter", 0), Asks("exit", 50),
           Asks("exposure", 30), Asks("exposure", 0), Asks("quantity", 3)}
MCSignals == [MCSymbols -> MCAsks]

\* One market falls by a fifth and comes back, the other hardly moves.
At(x, y) == a :> x @@ b :> y
MCMarkets == {0 :> At(10, 9) @@ 1 :> At(9, 9) @@ 2 :> At(10, 11) @@ 3 :> At(10, 10),
              0 :> At(10, 10) @@ 1 :> At(8, 10) @@ 2 :> At(9, 8) @@ 3 :> At(10, 12)}

Anything == {s \in [MCSymbols -> {0, 2}] : s[b] = 0}

Amount == {70}
PerOrder == {40}
ThreeQuarters == {75}
===============================================================================
