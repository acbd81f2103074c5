---------------------------- MODULE OrderPromise ----------------------------
(***************************************************************************)
(* What the approval gate promises about one order intent, whatever the    *)
(* scheduler, the worker, the database and the broker do: an order the     *)
(* gate held reaches the broker only after somebody approved it, a refused *)
(* or expired order never does, a settled order is never sent again, and   *)
(* an order the gate let through is sent at most once.                     *)
(* ApprovalDispatch implements it.                                         *)
(***************************************************************************)
EXTENDS Naturals

CONSTANT Intents

VARIABLES order, \* order[i]: where intent i stands
          sent   \* sent[i]: how often the broker accepted intent i

vars == <<order, sent>>

Stages == {"new", "auto", "held", "approved", "refused", "settled"}

TypeOK == /\ order \in [Intents -> Stages]
          /\ sent \in [Intents -> Nat]

Init == /\ order = [i \in Intents |-> "new"]
        /\ sent = [i \in Intents |-> 0]

\* Intent i, now at one of the stages "from", moves on to "to".
Move(i, from, to) == /\ order[i] \in from
                     /\ order' = [order EXCEPT ![i] = to]
                     /\ sent' = sent

Propose(i) == Move(i, {"new"}, "auto") \/ Move(i, {"new"}, "held")
Approve(i) == Move(i, {"held"}, "approved")
Settle(i)  == Move(i, {"approved"}, "settled")

\* The broker accepts intent i: once for an order that needs nobody's
\* approval, and only between approval and settlement for one that does.
Send(i) == /\ \/ order[i] = "auto" /\ sent[i] = 0
              \/ order[i] = "approved"
           /\ sent' = [sent EXCEPT ![i] = @ + 1]
           /\ order' = order

\* One sweep can expire several orders in a single transaction.
RefuseMany == \E S \in SUBSET Intents :
                /\ \A i \in S : order[i] = "held"
                /\ order' = [i \in Intents |->
                               IF i \in S THEN "refused" ELSE order[i]]
                /\ sent' = sent

Next == \/ RefuseMany
        \/ \E i \in Intents :
             Propose(i) \/ Approve(i) \/ Settle(i) \/ Send(i)

Spec == Init /\ [][Next]_vars

=============================================================================
