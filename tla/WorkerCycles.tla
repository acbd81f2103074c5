------------------------------ MODULE WorkerCycles ------------------------------
(***************************************************************************)
(* The cycles of one worker that trades on a ledger of its own: a paper    *)
(* task's, or a backtest job's.  A cycle reads the account, settles it for *)
(* the day, sizes the orders of the signals, may be halted by the drawdown *)
(* limit, and then applies and records its fills one by one.               *)
(*                                                                         *)
(* The ledger, and the peak the drawdown is measured from, live in memory. *)
(* A backtest stores its progress, then its ledger, after every bar; a     *)
(* worker that is built again takes up what was stored, a paper worker     *)
(* opens its account anew.  The records of fills outlive them all.         *)
(*                                                                         *)
(* Left out: brokers, orders held for approval, T+0, symbols without a     *)
(* price.                                                                  *)
(***************************************************************************)
EXTENDS WorkerPromise, FiniteSets, Functions

CONSTANTS
  None,
  Openings,    \* the accounts a paper worker may open with
  OpeningCash, \* the cash a backtest starts with
  Signals,     \* what the strategy may ask for in a cycle: functions on Symbols
  Markets,     \* the prices of every slot
  Leftovers,   \* what earlier runs of the task may have left recorded
  Slots, MaxFaults \* bounds of the model

\* An account, and what a strategy asks of a symbol: a share of the position or of
\* the equity in percent, or a number of shares.
Accounts == [cash : Int, day : Nat, qty : [Symbols -> Nat],
             avail : [Symbols -> Nat \cup {Unstated}], cost : [Symbols -> Nat]]
Asked    == [kind : {"none", "enter", "exit", "exposure", "quantity"}, of : Nat]

ASSUME WorkerAssumption ==
  /\ None \notin Openings /\ Slots \in Nat /\ PerDay \in Nat \ {0} /\ MaxFaults \in Nat
  /\ Markets \subseteq [0 .. Slots - 1 -> [Symbols -> Nat \ {0}]]
  /\ OpeningCash \in Nat /\ Drawdown \in 0 .. 100
  /\ TaskAmounts \subseteq Nat /\ TaskRatios \subseteq 0 .. 100
  /\ Leftovers \subseteq [Symbols -> Int]
  /\ \A account \in Openings :
       /\ account \in Accounts /\ account.day = 0
       /\ \A s \in Symbols : account.avail[s] # Unstated => account.avail[s] <= account.qty[s]
  /\ \A signals \in Signals : signals \in [Symbols -> Asked]
  /\ \A signals \in Signals, s \in Symbols : signals[s].kind = "exit" => signals[s].of <= 100

VARIABLES
  kind,    \* "paper" or "backtest"
  opening, \* the account the task opens with
  peak,    \* the highest equity the drawdown limit has seen
  saved,   \* what a backtest stored: bars completed, the ledger
  faults

vars == <<kind, opening, market, slot, at, ledger, peak, cyc, saved, fills, top, faults>>

Opened(l) ==
  [cash |-> l.cash, day |-> l.day, qty |-> l.qty, avail |-> l.avail, cost |-> l.cost,
   fees |-> 0, bought |-> [day |-> 0, n |-> [s \in Symbols |-> 0]]]

Resting == [orders |-> <<>>, equity |-> 0, failed |-> FALSE]

Ledgers == [cash : Int, day : Nat, qty : [Symbols -> Nat],
            avail : [Symbols -> Nat \cup {Unstated}], cost : [Symbols -> Nat],
            fees : Nat, bought : [day : Nat, n : [Symbols -> Nat]]]

Orders == [sym : Symbols, n : Int \ {0}, price : Nat \ {0}]

TypeOK ==
  /\ kind \in {"paper", "backtest"} /\ opening \in Openings /\ market \in Markets
  /\ slot \in 0 .. Slots
  /\ at \in {"idle", "orders", "progress", "ledger", "down", "over"}
  /\ ledger \in Ledgers /\ peak \in Nat /\ top \in Nat
  /\ cyc \in [orders : Seq(Orders), equity : Int, failed : BOOLEAN]
  /\ saved \in [bars : 0 .. Slots, ledger : Ledgers \cup {None}]
  /\ fills \in [Symbols -> Int] /\ faults \in 0 .. MaxFaults

Init ==
  /\ kind \in {"paper", "backtest"} /\ opening \in Openings /\ market \in Markets
  /\ kind = "backtest" => opening = Flat(OpeningCash)
  /\ ledger = Opened(opening) /\ saved = [bars |-> 0, ledger |-> None]
  /\ slot = 0 /\ at = "idle" /\ peak = 0 /\ cyc = Resting
  /\ fills \in Leftovers /\ top = 0 /\ faults = 0

Fault == faults < MaxFaults /\ faults' = faults + 1

-----------------------------------------------------------------------------
(* A cycle                                                                 *)

\* A bar's closes become the ledger's marks; nothing marks a paper ledger, whose
\* positions stand at what they cost.
Worth == Equity(ledger, IF kind = "backtest" THEN Price ELSE ledger.cost)

\* What the task holds by its own records, no more than the account has.
Usage ==
  SumFunction([s \in Symbols |-> Min({Max({0, fills[s]}), ledger.qty[s]}) * Price[s]])

BudgetCaps == TaskAmounts \cup {(Worth * r) \div 100 : r \in TaskRatios}

Room == IF BudgetCaps = {} THEN {} ELSE {Max({0, Min(BudgetCaps) - Usage})}

Begin ==
  /\ at = "idle" /\ slot < Slots
  /\ at' = "orders"
  /\ ledger' = Settled(ledger, Day(slot))
  /\ UNCHANGED <<kind, opening, market, slot, saved, fills, faults>>

\* Slip: the peak is the equity of today.
PeakToday(equity) == equity

Peak(equity) == Max({peak, equity})

\* The halt drops the purchases.
Allowed(orders) ==
  IF Breached(Peak(Worth), Worth)
  THEN FoldLeft(LAMBDA kept, o : IF Sell(o) THEN Append(kept, o) ELSE kept, <<>>, orders)
  ELSE orders

Cycle(signals) ==
  /\ Begin
  /\ peak' = Peak(Worth) /\ top' = Max({top, Worth})
  /\ LET orders == Intents(signals, Settled(ledger, Day(slot)), Price, Worth, Room)
     IN  cyc' = [orders |-> Allowed(orders), equity |-> Worth, failed |-> FALSE]

\* The signals fail, or a cycle that only reports them: the drawdown is not
\* looked at.  A bar that fails so ends its backtest.
CutShort ==
  /\ Begin
  /\ cyc' = [Resting EXCEPT !.equity = Worth, !.failed = kind = "backtest"]
  /\ UNCHANGED <<peak, top>>

\* The ledger after an order, with its history.
Booked(l, o) ==
  LET after  == Filled(l, o)
      before == IF l.bought.day = Day(slot) THEN l.bought.n ELSE [s \in Symbols |-> 0]
  IN  IF after = l THEN l
      ELSE [after EXCEPT !.fees = @ + Fee(o),
                         !.bought = IF Buy(o) THEN [day |-> Day(slot),
                                                    n |-> [before EXCEPT ![o.sym] = @ + o.n]]
                                    ELSE @]

\* The fill is recorded whatever the ledger made of it.
Submit ==
  /\ at = "orders" /\ cyc.orders # <<>>
  /\ LET o == Head(cyc.orders)
     IN  ledger' = Booked(ledger, o) /\ fills' = [fills EXCEPT ![o.sym] = @ + o.n]
  /\ cyc' = [cyc EXCEPT !.orders = Tail(@)]
  /\ UNCHANGED <<kind, opening, market, slot, at, peak, saved, top, faults>>

\* The record cannot be written: the cycle raises with the ledger changed.  A
\* backtest fails; a person starts a paper task again, with the same worker.
RecordFails ==
  /\ Fault
  /\ at = "orders" /\ cyc.orders # <<>>
  /\ ledger' = Booked(ledger, Head(cyc.orders)) /\ cyc' = Resting
  /\ IF kind = "backtest" THEN at' = "over" /\ slot' = slot
     ELSE at' = "idle" /\ slot' = slot + 1
  /\ UNCHANGED <<kind, opening, market, peak, saved, fills, top>>

CycleEnds ==
  /\ at = "orders" /\ cyc.orders = <<>>
  /\ IF kind = "backtest" THEN at' = "progress" /\ UNCHANGED <<slot, cyc>>
     ELSE at' = "idle" /\ slot' = slot + 1 /\ cyc' = Resting
  /\ UNCHANGED <<kind, opening, market, ledger, peak, saved, fills, top, faults>>

-----------------------------------------------------------------------------
(* Between cycles                                                          *)

Progress ==
  /\ at = "progress" /\ at' = "ledger"
  /\ saved' = [saved EXCEPT !.bars = slot + 1]
  /\ UNCHANGED <<kind, opening, market, slot, ledger, peak, cyc, fills, top, faults>>

Checkpoint ==
  /\ at = "ledger"
  /\ saved' = [saved EXCEPT !.ledger = ledger]
  /\ at' = IF cyc.failed \/ slot + 1 = Slots THEN "over" ELSE "idle"
  /\ slot' = slot + 1 /\ cyc' = Resting
  /\ UNCHANGED <<kind, opening, market, ledger, peak, fills, top, faults>>

TimePasses ==
  /\ kind = "paper" /\ at = "idle" /\ slot < Slots
  /\ slot' = slot + 1
  /\ UNCHANGED <<kind, opening, market, at, ledger, peak, cyc, saved, fills, top, faults>>

\* The process dies; or a paper task is edited, which drops its worker.
Dropped ==
  /\ Fault
  /\ at \notin {"down", "over"}
  /\ at' = "down" /\ cyc' = Resting
  /\ UNCHANGED <<kind, opening, market, slot, ledger, peak, saved, fills, top>>

\* The account of a new worker: what the backtest stored, or the opening.
Reloaded == IF saved.ledger # None THEN saved.ledger ELSE Opened(opening)

Rebuild ==
  /\ at = "down"
  /\ ledger' = Reloaded /\ peak' = 0 /\ top' = 0
  /\ slot' = IF kind = "backtest" THEN saved.bars ELSE slot
  /\ at' = IF kind = "backtest" /\ saved.bars = Slots THEN "over" ELSE "idle"
  /\ UNCHANGED <<kind, opening, market, cyc, saved, fills, faults>>

Next ==
  \/ \E signals \in Signals : Cycle(signals)
  \/ CutShort \/ Submit \/ RecordFails \/ CycleEnds
  \/ Progress \/ Checkpoint \/ TimePasses \/ Dropped \/ Rebuild

Spec == Init /\ [][Next]_vars

===============================================================================
