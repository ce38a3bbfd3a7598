------------------------ MODULE MCSimulatedExecution ------------------------
(* A purchase and a sale of two lots each.  Bars that allow half a lot, one *)
(* lot or everything open, increase, reduce, close and turn the position.  *)
EXTENDS SimulatedExecution

CONSTANTS b, s
TwoOrders == {b, s}
Sides     == [o \in TwoOrders |-> IF o = b THEN "buy" ELSE "sell"]
Sizes     == [o \in TwoOrders |-> 4]
Makers    == [o \in TwoOrders |-> o = b]
Traded    == [o \in TwoOrders |-> IF o = b THEN 0 ELSE 10]

(* In these units, multiples of 2^7 3^6, every average that occurs is whole. *)
BarOpens    == {559872, 1119744}
BarVolumes  == {0, 2, 4, 12}
TwoBalances == {1119744, 18662400}
Schedule    == {[threshold |-> 0, maker |-> 1, taker |-> 2], [threshold |-> 5, maker |-> 0, taker |-> 1]}
=============================================================================
