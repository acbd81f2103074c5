----------------------------- MODULE SwarmPromise -----------------------------
(***************************************************************************)
(* What a swarm run promises: a task is worked on only when everything it  *)
(* depends on is complete, its result is final, and the run ends once,     *)
(* completed only when all tasks are.                                      *)
(***************************************************************************)
CONSTANT Tasks
VARIABLES deps, work, outcome
vars == <<deps, work, outcome>>

Init == /\ deps \in [Tasks -> SUBSET Tasks]
        /\ work = [t \in Tasks |-> "waiting"]
        /\ outcome = "open"

Begin(t) == /\ work[t] = "waiting"
            /\ \A d \in deps[t] : work[d] = "completed"
            /\ work' = [work EXCEPT ![t] = "working"]
            /\ UNCHANGED <<deps, outcome>>

Complete(t) == /\ work[t] = "working"
               /\ work' = [work EXCEPT ![t] = "completed"]
               /\ UNCHANGED <<deps, outcome>>

GiveUp(t) == /\ work[t] \in {"waiting", "working"}
             /\ work' = [work EXCEPT ![t] = "failed"]
             /\ UNCHANGED <<deps, outcome>>

End(how) == /\ outcome = "open" /\ outcome' = how
            /\ how = "completed" => \A t \in Tasks : work[t] = "completed"
            /\ UNCHANGED <<deps, work>>

Next == \/ \E t \in Tasks : Begin(t) \/ Complete(t) \/ GiveUp(t)
        \/ \E how \in {"completed", "failed", "cancelled"} : End(how)

Spec == Init /\ [][Next]_vars

=============================================================================
