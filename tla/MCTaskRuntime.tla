---------------------------- MODULE MCTaskRuntime ----------------------------
(* Small instances of TaskRuntime: two tasks and two calls at once. *)
EXTENDS TaskRuntime, TLC

CONSTANTS t1, t2, c1, c2

TwoTasks   == {t1, t2}
TwoCallers == {c1, c2}

\* Calls are alike; tasks are not, for a tick takes them in the order of their ids.
Alike == Permutations(Callers)

=============================================================================
