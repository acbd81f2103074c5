------------------------------- MODULE MockLedger -------------------------------
(***************************************************************************)
(* The account a paper or a backtest worker trades: cash, positions and    *)
(* the day it last settled, kept in memory and changed by synthetic fills. *)
(* Amounts are whole units and an average cost rounds down.                *)
(***************************************************************************)
EXTENDS Integers, FiniteSetsExt

CONSTANTS
  Symbols,
  Unstated,            \* the availability of a position the account's settings list
  Commission, StampTax \* fees of a trade; the tax is on sales

ASSUME FeeAssumption ==
  /\ IsFiniteSet(Symbols) /\ Unstated \notin Nat
  /\ Commission \in Nat /\ StampTax \in Nat

\* An order: shares n > 0 to buy, n < 0 to sell, at the price it was sized with.
Buy(order)  == order.n > 0
Sell(order) == order.n < 0

\* day is 0 before the first settlement.
Flat(cash) == [cash |-> cash, day |-> 0, qty |-> [s \in Symbols |-> 0],
               avail |-> [s \in Symbols |-> 0], cost |-> [s \in Symbols |-> 0]]

AvailableInt(l, s) == IF l.avail[s] = Unstated THEN 0 ELSE l.avail[s]

Fee(order) == Commission + (IF Sell(order) THEN StampTax ELSE 0)

\* Slip: every cycle makes it available.
SettledAlways(l, day) ==
  [l EXCEPT !.day = day,
            !.avail = [s \in Symbols |-> IF l.qty[s] > 0 THEN l.qty[s] ELSE @[s]]]

\* The first cycle only marks its day; the first one of a later day makes
\* everything held available.
Settled(l, day) ==
  IF l.day # 0 /\ day > l.day
  THEN [l EXCEPT !.day = day,
                 !.avail = [s \in Symbols |-> IF l.qty[s] > 0 THEN l.qty[s] ELSE @[s]]]
  ELSE [l EXCEPT !.day = IF @ = 0 THEN day ELSE @]

\* Shares bought today are held and not available.
Bought(l, o) ==
  [l EXCEPT !.cash = @ - o.n * o.price - Fee(o),
            !.qty[o.sym] = @ + o.n,
            !.avail[o.sym] = AvailableInt(l, o.sym),
            !.cost[o.sym] = (l.qty[o.sym] * @ + o.n * o.price) \div (l.qty[o.sym] + o.n)]

Sold(l, o) ==
  [l EXCEPT !.cash = @ - o.n * o.price - Fee(o),
            !.qty[o.sym] = @ + o.n,
            !.avail[o.sym] = AvailableInt(l, o.sym) + o.n,
            !.cost[o.sym] = IF l.qty[o.sym] + o.n = 0 THEN 0 ELSE @]

\* A sale of more than is available changes nothing.
Filled(l, o) ==
  IF Buy(o) THEN Bought(l, o)
  ELSE IF -o.n > AvailableInt(l, o.sym) THEN l ELSE Sold(l, o)

\* Cash and positions at these marks.
Equity(l, mark) == l.cash + SumFunction([s \in Symbols |-> l.qty[s] * mark[s]])

===============================================================================
