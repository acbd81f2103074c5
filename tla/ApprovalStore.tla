---------------------------- MODULE ApprovalStore ----------------------------
(***************************************************************************)
(* The approvals table (SqlAlchemyApprovalRepository): one row per order   *)
(* intent the gate held for a human.  Each operator is the effect of one   *)
(* committed transaction; the WHERE clause of an UPDATE is the condition   *)
(* under which the row changes.                                            *)
(***************************************************************************)
EXTENDS Naturals

CONSTANTS Intents, \* the order intents the strategy may ever propose
          Timeout  \* approval_timeout_seconds, in ticks of the clock

ASSUME TimeoutAssumption == Timeout \in Nat

\* "none": no row and not proposed yet.  "auto": the gate approved the intent
\* on the spot, which writes no row.  The other four are ApprovalRecord.status.
Statuses == {"none", "auto", "pending", "approved", "rejected", "expired"}

Row == [status     : Statuses,
        createdAt  : Nat,
        expiresAt  : Nat,
        dispatchedAt : {"null", "stamped"},
        attempts   : Nat]  \* dispatch_attempts

NoRow == [status |-> "none", createdAt |-> 0, expiresAt |-> 0,
          dispatchedAt |-> "null", attempts |-> 0]

CreatePending(rows, i, t) ==
  [rows EXCEPT ![i] = [status |-> "pending", createdAt |-> t,
                       expiresAt |-> t + Timeout,
                       dispatchedAt |-> "null", attempts |-> 0]]

\* Slip: the WHERE clause forgets status = 'pending'.
ResolveAnyRow(rows, i, decision) == [rows EXCEPT ![i].status = decision]

\* UPDATE ... WHERE status = 'pending'; a row already resolved raises
\* StateConflictError and stays as it is.  expires_at is not looked at.
Resolve(rows, i, decision) ==
  IF rows[i].status = "pending"
  THEN [rows EXCEPT ![i].status = decision]
  ELSE rows

\* UPDATE ... WHERE status = 'pending' AND expires_at <= now, for every row,
\* in one transaction.
ExpirePending(rows, t) ==
  [i \in Intents |-> IF rows[i].status = "pending" /\ rows[i].expiresAt <= t
                     THEN [rows[i] EXCEPT !.status = "expired"]
                     ELSE rows[i]]

\* Slip: the sweep's query forgets dispatched_at IS NULL.
ResumableAgain(rows) == {i \in Intents : rows[i].status = "approved"}

\* SELECT ... WHERE status = 'approved' AND dispatched_at IS NULL
Resumable(rows) == {i \in Intents : /\ rows[i].status = "approved"
                                    /\ rows[i].dispatchedAt = "null"}

MarkDispatched(rows, i) == [rows EXCEPT ![i].dispatchedAt = "stamped"]

\* Slip: the failure is recorded without the increment.
CountAttemptLost(rows, i) == rows

CountAttempt(rows, i) == [rows EXCEPT ![i].attempts = @ + 1]

\* Counts the failure in the row; "abandon" also stamps dispatched_at so that
\* no later sweep sees the row.
MarkDispatchFailed(rows, i, outcome) ==
  IF outcome = "abandon" THEN MarkDispatched(CountAttempt(rows, i), i)
                         ELSE CountAttempt(rows, i)

=============================================================================
