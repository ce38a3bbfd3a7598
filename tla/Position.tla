------------------------------ MODULE Position ------------------------------
(***************************************************************************)
(* Position.apply_fill: the running weighted-average accounting of one     *)
(* instrument held by one strategy.                                        *)
(*                                                                         *)
(* A Decimal is an integer number of units, small enough for the averages  *)
(* that occur to be whole: the 28 digits of the code's context play that   *)
(* role there.  Currencies are all equal.                                  *)
(***************************************************************************)
EXTENDS Integers

Abs(n) == IF n < 0 THEN -n ELSE n

SignedQty(f) == IF f.side = "buy" THEN f.qty ELSE -f.qty

Flat == [qty |-> 0, avg_entry |-> 0, realized_pnl |-> 0, applied |-> {}]

(* The fill opens the position or adds to it. *)
SameDirection(p, f) == p.qty = 0 \/ (p.qty > 0 <=> SignedQty(f) > 0)

(* The mean of x with weight m and y with weight n. *)
Mean(m, x, n, y) == (m * x + n * y) \div (m + n)

WeightedAverage(p, f) == Mean(Abs(p.qty), p.avg_entry, f.qty, f.price)

(* The weighted average is not rounded. *)
ExactAverage(p, f) ==
  SameDirection(p, f) =>
    (Abs(p.qty) + f.qty) * WeightedAverage(p, f) = Abs(p.qty) * p.avg_entry + f.qty * f.price

(* Seeded fault: a position that is turned around keeps its old average.   *)
FlipKeepsAverage(p, f) == IF f.qty = Abs(p.qty) THEN 0 ELSE p.avg_entry

(* The average of a position that the fill reduces, closes or turns around. *)
AverageAfterClosing(p, f) ==
  CASE f.qty = Abs(p.qty) -> 0
    [] f.qty > Abs(p.qty) -> f.price
    [] f.qty < Abs(p.qty) -> p.avg_entry

(* Seeded fault: a fill that turns the position around closes its whole quantity. *)
CloseAll(p, f) == f.qty

ClosingQty(p, f) == IF f.qty < Abs(p.qty) THEN f.qty ELSE Abs(p.qty)

PricePnl(p, f) ==
  LET gain == ClosingQty(p, f) * (f.price - p.avg_entry)
  IN  IF SameDirection(p, f) THEN 0 ELSE IF p.qty > 0 THEN gain ELSE -gain

Book(p, f) ==
  [ qty          |-> p.qty + SignedQty(f),
    avg_entry    |-> IF SameDirection(p, f) THEN WeightedAverage(p, f) ELSE AverageAfterClosing(p, f),
    realized_pnl |-> p.realized_pnl + (PricePnl(p, f) - f.fee),
    applied      |-> p.applied \cup {f.id} ]

ApplyFill(p, f) == IF f.id \in p.applied THEN p ELSE Book(p, f)

(* The cash that the fills behind a position have moved: what it has       *)
(* realized, less what its holding cost.                                   *)
CashOf(p) == p.realized_pnl - p.qty * p.avg_entry

=============================================================================
