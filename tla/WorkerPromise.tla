------------------------------ MODULE WorkerPromise ------------------------------
(***************************************************************************)
(* What a worker that trades on a ledger of its own promises: of the       *)
(* account, of the orders of a cycle and of the records of their fills.    *)
(* WorkerCycles says how it goes about it.                                 *)
(***************************************************************************)
EXTENDS PositionManager

CONSTANTS
  TaskAmounts, TaskRatios, \* max_task_position_amount, _ratio in percent; empty: none
  Drawdown,                \* max_drawdown_pct
  PerDay                   \* slots of a trading day

VARIABLES
  market, \* the prices of this behaviour
  slot,   \* a bar of the backtest, or an instant of the clock
  at,     \* where the worker is
  ledger, \* its account, and the history of it: fees paid, shares bought on the
          \* day of the last purchase
  cyc,    \* the cycle: orders left, equity when it began, whether it failed
  fills,  \* the net shares recorded as filled
  top     \* the highest equity the finished cycles of this worker began with

seen == <<market, slot, at, ledger, cyc, fills, top>>

Day(n) == 1 + n \div PerDay

Price == market[slot]

\* Drawdown from the peak is above the limit.
Breached(high, equity) == (high - equity) * 100 > Drawdown * high

\* Shares bought on a trading day are still held when it ends: no cycle of that
\* day sells them, whatever was sold or settled in between, and a worker that
\* takes up a stored ledger still knows its day (settle_positions, T+1).
T1Holds ==
  ledger.bought.day = Day(slot) =>
    \A s \in Symbols : ledger.qty[s] >= ledger.bought.n[s]

\* A purchase is paid from cash, fees aside; and while the records cover what
\* the task holds it keeps the holdings within the task's budget, whatever the
\* cycle bought or sold before it (compute_intents).
BuysWithinLimits ==
  [][\A s \in Symbols : (at = "orders" /\ ledger'.qty[s] > ledger.qty[s]) =>
       /\ ledger'.cash + ledger'.fees >= 0
       /\ (\A t \in Symbols : fills[t] >= ledger.qty[t]) =>
            \A cap \in TaskAmounts \cup {(cyc.equity * r) \div 100 : r \in TaskRatios} :
              Equity([ledger' EXCEPT !.cash = 0], Price) <= cap]_seen

\* Nothing is bought in a cycle that began further below an earlier cycle of the
\* same worker than the limit allows, but for cycles that never looked at the
\* drawdown (evaluate_protections).
HaltHolds ==
  [][\A s \in Symbols :
       (at = "orders" /\ Breached(top, cyc.equity)) => ledger'.qty[s] <= ledger.qty[s]]_seen

\* "a non-fill is a veto, never a phantom": records and holdings move together, as
\* the settlement, the sizing and the next cycle trust they do.  They part only by
\* the last order of a cycle, whose record failed and ended it; by a worker that
\* takes up another ledger; and by a sale of a position whose availability the
\* account's settings leave open: it is sized by what is held, the ledger refuses
\* it, and it is recorded all the same (_dispatch_approved_intent).
FillsReachLedger ==
  [][\A s \in Symbols : ledger'.qty[s] - ledger.qty[s] # fills'[s] - fills[s] =>
       \/ fills'[s] < fills[s] /\ ledger.avail[s] = Unstated
       \/ at = "orders" /\ at' # "orders" /\ fills' = fills
       \/ at = "down"]_seen

==================================================================================
