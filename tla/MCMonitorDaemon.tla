--------------------------- MODULE MCMonitorDaemon ---------------------------
(* Small instances of MonitorDaemon: two rules on one symbol and a client    *)
(* that may watch another one.                                               *)
EXTENDS MonitorDaemon

CONSTANTS r1, r2, s, o, c1, acc, n1, n2, n3

TheRules == <<r1, r2>>
OneRule  == <<r1>>
OnS      == [r \in RuleSet |-> {s}]
TheSymbols == {s, o}
\* The client watches the other symbol, or nothing.
TheAsks == {{o}, {}}
OneClient == {c1}
OneAccount == {acc}
TheStreams == {n1, n2, n3}

\* What a behaviour of the run combines: one rule with three of the edits, the new
\* day, the change of the account, the client and the fault, at most two of them
\* the first three; or two rules on one symbol, with the new day and the fault.
One  == /\ r2 \notin rules \cup index /\ ~cond[<<r2, s>>]
        /\ edits + days + moves <= 2 /\ edits + days + moves + sockets + faults <= 3
Both == r2 \in rules /\ edits = 0 /\ sockets = 0 /\ moves = 0
Combined == One \/ Both
=============================================================================
