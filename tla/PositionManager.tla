----------------------------- MODULE PositionManager -----------------------------
(***************************************************************************)
(* How many shares each signal of a cycle becomes: the caps of one name,   *)
(* one order and the whole task, the cash left, board lots, and what may   *)
(* be sold.  Every symbol has a price and can be traded.                   *)
(***************************************************************************)
EXTENDS Integers, Sequences, SequencesExt, FiniteSetsExt, MockLedger

CONSTANTS
  Universe,        \* the symbols, in the order their signals are sized
  Fraction, Ratio, \* equity_fraction, max_position_ratio, in percent
  OrderCaps,       \* max_single_order_amount; empty when there is none
  Lot, DeadBand    \* lot_size, rebalance_hysteresis_lots

ASSUME SizingAssumption ==
  /\ Universe \in Seq(Symbols) /\ IsInjective(Universe)
  /\ Fraction \in 0 .. 100 /\ Ratio \in 0 .. 100
  /\ OrderCaps \subseteq Nat /\ Lot \in Nat \ {0} /\ DeadBand \in Nat

Lots(shares) == Lot * (shares \div Lot)

NameCap(equity) == Min({(equity * Fraction) \div 100, (equity * Ratio) \div 100})

\* Slip: what is held may be sold.
SellableIfHeld(l, s) == l.qty[s]

\* Without an availability the whole position may be sold.
Sellable(l, s) == IF l.avail[s] = Unstated THEN l.qty[s]
                  ELSE Min({l.avail[s], l.qty[s]})

\* purse: the cash left, and the room the task's budget leaves (empty: no budget).
Affords(purse, desired, price) ==
  LET budget == Min({desired, purse.cash} \cup OrderCaps \cup purse.room)
  IN  IF budget <= 0 THEN 0 ELSE budget \div price

\* Slip: only the cash is charged.
SpentCash(purse, amount) == [purse EXCEPT !.cash = @ - amount]

Spent(purse, amount) ==
  [cash |-> purse.cash - amount, room |-> {Max({0, r - amount}) : r \in purse.room}]

\* The notional a target asks for, within the cap of one name.
Aim(signal, price, equity) ==
  IF signal.kind = "exposure"
  THEN Min({(equity * signal.of) \div 100, NameCap(equity)})
  ELSE price * Min({Lots(signal.of), Lots(NameCap(equity) \div price)})

\* What may be sold of the shares above the target; all of them if it is zero.
Reduces(l, s, aim, shares) ==
  Min({Sellable(l, s), IF aim <= 0 THEN l.qty[s] ELSE Lots(shares)})

\* Shares that bring the position towards the target, below zero to sell; none
\* when it is closer than the dead band.
Rebalance(l, s, aim, price, purse) ==
  LET gap    == aim - l.qty[s] * price
      shares == Max({gap, -gap}) \div price
  IN  CASE gap = 0 \/ (aim > 0 /\ shares < DeadBand * Lot) -> 0
        [] gap > 0 -> Lots(Affords(purse, gap, price))
        [] OTHER   -> -Reduces(l, s, aim, shares)

\* A signal asks for nothing, an entry, an exit of a part, or a target.
Shares(signal, l, s, price, equity, purse) ==
  CASE signal.kind = "enter" ->
         IF l.qty[s] = 0 THEN Affords(purse, NameCap(equity), price) ELSE 0
    [] signal.kind = "exit" -> -((Sellable(l, s) * signal.of) \div 100)
    [] signal.kind \in {"exposure", "quantity"} ->
         Rebalance(l, s, Aim(signal, price, equity), price, purse)
    [] OTHER -> 0

\* The orders so far and what is left, with the one of s.  A buy leaves less for
\* the next; a sale of this cycle frees nothing.
Size(acc, s, signals, l, price, equity) ==
  LET n == Shares(signals[s], l, s, price[s], equity, acc.purse)
  IN  [orders |-> IF n = 0 THEN acc.orders
                  ELSE Append(acc.orders, [sym |-> s, n |-> n, price |-> price[s]]),
       purse  |-> IF n > 0 THEN Spent(acc.purse, n * price[s]) ELSE acc.purse]

\* The orders of a cycle, in the order of the universe.
Intents(signals, l, price, equity, room) ==
  FoldLeft(LAMBDA acc, s : Size(acc, s, signals, l, price, equity),
           [orders |-> <<>>, purse |-> [cash |-> l.cash, room |-> room]],
           Universe).orders

===============================================================================
