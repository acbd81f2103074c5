------------------------- MODULE MCApprovalDispatch -------------------------
(* Small instances of ApprovalDispatch for TLC.                            *)
EXTENDS ApprovalDispatch, TLC

CONSTANTS i1, i2, t1

\* One task, an order below the approval threshold and one above it.
OneTask == {t1}
TwoIntents == {i1, i2}
TwoTaskOf == [i \in TwoIntents |-> t1]
TwoNotional == i1 :> 1 @@ i2 :> 5
TwoPayload == [i \in TwoIntents |-> "ok"]
=============================================================================
