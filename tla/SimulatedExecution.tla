------------------------- MODULE SimulatedExecution -------------------------
(***************************************************************************)
(* Orders filled by the simulation, and what their fills do to a position: *)
(* simulate_fill bar after bar, Position.apply_fill on fills delivered in  *)
(* any order and any number of times, FundingAccrualTracker.accrue on the  *)
(* position held when it is called.                                        *)
(*                                                                         *)
(* The functions leave three things to their caller: the bar after the one *)
(* an order was submitted on, the filled quantity of the order, and what   *)
(* to do with a rejection.  The caller of this module does them as their   *)
(* comments ask: each bar once, filled quantities kept, rejection final.   *)
(***************************************************************************)
EXTENDS Position, Sequences, FiniteSetsExt

CONSTANTS
  Orders, Side, Qty,          \* market orders; their sides and quantities
  IsMaker, TradedVolume,      \* of each order: maker or taker, thirty_day_volume
  LotSize, MinNotional,       \* of the instrument
  Opens, Volumes, Balances,   \* what a bar and an account may show
  Spread, Volatility,         \* arguments of the slippage model
  FractionNum, FractionDen,   \* max_fill_fraction_of_volume
  Tiers, RateScale,           \* the fee schedule; a rate of RateScale is 100%
  FundingInterval, FundingRate,
  MaxTime                     \* bound: bars simulated

ASSUME OrdersAssumption ==
  /\ Side \in [Orders -> {"buy", "sell"}] /\ Qty \in [Orders -> Nat \ {0}]
  /\ IsMaker \in [Orders -> BOOLEAN] /\ TradedVolume \in [Orders -> Nat]
ASSUME InstrumentAssumption == LotSize \in Nat \ {0} /\ MinNotional \in Nat \ {0}
ASSUME MarketAssumption ==
  /\ Opens \subseteq Nat \ {0} /\ Volumes \subseteq Nat /\ Balances \subseteq Nat
  /\ Spread \in Nat /\ Volatility \in Nat
  /\ FractionNum \in Nat /\ FractionDen \in Nat \ {0}
(* FeeSchedule.tier_for_volume: the highest threshold the volume reaches.  *)
IsTierFor(t, volume) ==
  /\ t.threshold =< volume
  /\ \A u \in Tiers : u.threshold =< volume => u.threshold =< t.threshold

(* A schedule has a tier of threshold 0, so some tier is every order's.    *)
ASSUME FeeScheduleAssumption ==
  /\ Tiers \subseteq [threshold : Nat, maker : Nat, taker : Nat] /\ RateScale \in Nat \ {0}
  /\ \A o \in Orders : \E t \in Tiers : IsTierFor(t, TradedVolume[o])
ASSUME FundingAssumption == FundingInterval \in Nat \ {0} /\ FundingRate \in Int

VARIABLES
  now,        \* number of the current bar; orders are submitted on bar 0
  market,     \* its open and volume
  filled,     \* of each order, Order.filled_qty
  tried,      \* the last bar each order was simulated on
  outcome,    \* "open", "filled" or the reason of the rejection
  fills,      \* the fills produced, in order
  position,
  funding,    \* the FundingPayments returned so far
  lastAccrual
orderVars   == <<filled, tried, outcome, fills>>
fundingVars == <<funding, lastAccrual>>
vars == <<now, market, filled, tried, outcome, fills, position, funding, lastAccrual>>

Rejections == {"precision", "min_notional", "insufficient_margin"}
FillRecords ==
  [id : Nat \ {0}, order : Orders, side : {"buy", "sell"}, qty : Nat \ {0}, price : Nat \ {0}, fee : Nat]

Init ==
  /\ now = 0
  /\ market \in [open : Opens, volume : Volumes]
  /\ filled = [o \in Orders |-> 0] /\ tried = [o \in Orders |-> 0]
  /\ outcome = [o \in Orders |-> "open"]
  /\ fills = <<>>
  /\ position = Flat
  /\ funding = <<>> /\ lastAccrual = 0

-----------------------------------------------------------------------------
(* The arithmetic of simulate_fill, for order o on the current bar. *)

Remaining(o) == Qty[o] - filled[o]

Fillable(o) ==
  LET available == (market.volume * FractionNum) \div FractionDen
  IN  IF Remaining(o) < available THEN Remaining(o) ELSE available

(* default_slippage_model: half the spread, and an impact that grows with  *)
(* the share of the bar's volume the order asks for.                       *)
Slippage(o) ==
  Spread \div 2 + (IF market.volume > 0 THEN (Remaining(o) * Volatility) \div market.volume ELSE 0)

FillPrice(o) == IF Side[o] = "buy" THEN market.open + Slippage(o) ELSE market.open - Slippage(o)

Notional(o) == Fillable(o) * FillPrice(o)

(* compute_fill_fee *)
Fee(o) ==
  LET tier == CHOOSE t \in Tiers : IsTierFor(t, TradedVolume[o])
  IN  (Notional(o) * (IF IsMaker[o] THEN tier.maker ELSE tier.taker)) \div RateScale

NewFill(o) ==
  [id |-> Len(fills) + 1, order |-> o, side |-> Side[o], qty |-> Fillable(o),
   price |-> FillPrice(o), fee |-> Fee(o)]

(* The checks, in the order simulate_fill makes them. *)
Precise(o)             == Remaining(o) % LotSize = 0
Liquid(o)              == Fillable(o) > 0
LargeEnough(o)         == Notional(o) >= MinNotional
Affordable(o, balance) == Notional(o) =< balance

-----------------------------------------------------------------------------
(* The next bar opens. *)
NextBar ==
  /\ now < MaxTime
  /\ now' = now + 1
  /\ market' \in [open : Opens, volume : Volumes]
  /\ UNCHANGED <<orderVars, position, fundingVars>>

(* Order o meets a bar later than its own, for the first time. *)
Simulating(o) ==
  /\ outcome[o] = "open" /\ tried[o] < now
  /\ tried' = [tried EXCEPT ![o] = now]
  /\ UNCHANGED <<now, market, position, fundingVars>>

Rejected(o, reason) ==
  /\ outcome' = [outcome EXCEPT ![o] = reason]
  /\ UNCHANGED <<filled, fills>>

RejectForPrecision(o) == Simulating(o) /\ ~Precise(o) /\ Rejected(o, "precision")

CarryForward(o) == Simulating(o) /\ Precise(o) /\ ~Liquid(o) /\ UNCHANGED <<filled, outcome, fills>>

RejectForNotional(o) ==
  Simulating(o) /\ Precise(o) /\ Liquid(o) /\ ~LargeEnough(o) /\ Rejected(o, "min_notional")

RejectForMargin(o, balance) ==
  /\ Simulating(o) /\ Precise(o) /\ Liquid(o) /\ LargeEnough(o)
  /\ ~Affordable(o, balance) /\ Rejected(o, "insufficient_margin")

(* A fill, whole or partial, which the caller adds to the order. *)
Fill(o, balance) ==
  /\ Simulating(o) /\ Precise(o) /\ Liquid(o) /\ LargeEnough(o) /\ Affordable(o, balance)
  /\ fills'   = Append(fills, NewFill(o))
  /\ filled'  = [filled EXCEPT ![o] = @ + Fillable(o)]
  /\ outcome' = [outcome EXCEPT ![o] = IF Fillable(o) = Remaining(o) THEN "filled" ELSE @]

SimulateFill(o) ==
  \/ RejectForPrecision(o) \/ CarryForward(o) \/ RejectForNotional(o)
  \/ \E balance \in Balances : RejectForMargin(o, balance) \/ Fill(o, balance)

(* One delivery of a fill: the first, or one of any number of repetitions. *)
Deliver(i) ==
  /\ position' = ApplyFill(position, fills[i])
  /\ UNCHANGED <<now, market, orderVars, fundingVars>>

(* The position is derived again from its fills, as the tearsheet does. *)
Rederive ==
  /\ position' = Flat
  /\ UNCHANGED <<now, market, orderVars, fundingVars>>

(* Seeded fault: the time of the call becomes the reference. *)
ReferenceIsNow(due) == IF due > 0 THEN now ELSE lastAccrual

(* The reference for the next call, after due payments. *)
NewReference(due) == lastAccrual + due * FundingInterval

(* One payment for every boundary since the last, all on the position and  *)
(* the price of this call.                                                 *)
Accrue ==
  LET due == (now - lastAccrual) \div FundingInterval
  IN  /\ funding' = funding \o [k \in 1 .. due |->
             [at |-> lastAccrual + k * FundingInterval,
              amount |-> -(position.qty * market.open * FundingRate)]]
      /\ lastAccrual' = NewReference(due)
      /\ UNCHANGED <<now, market, orderVars, position>>

Next ==
  \/ NextBar \/ Accrue \/ Rederive
  \/ \E o \in Orders : SimulateFill(o)
  \/ \E i \in DOMAIN fills : Deliver(i)

Spec == Init /\ [][Next]_vars
-----------------------------------------------------------------------------
(* The types of the values the code computes; in particular a fill has a   *)
(* positive price, without which Fill cannot be constructed, and an order  *)
(* is never filled beyond its quantity.                                    *)
TypeOK ==
  /\ now \in Nat /\ market \in [open : Opens, volume : Volumes]
  /\ filled \in [Orders -> Nat] /\ tried \in [Orders -> Nat]
  /\ outcome \in [Orders -> {"open", "filled"} \cup Rejections]
  /\ fills \in Seq(FillRecords)
  /\ position \in [qty : Int, avg_entry : Nat, realized_pnl : Int, applied : SUBSET DOMAIN fills]
  /\ funding \in Seq([at : Nat, amount : Int]) /\ lastAccrual \in Nat

(* The average entry of a position lies between the prices of fills that   *)
(* were booked on its own side, and a flat position has none, whatever     *)
(* partial closes and reversals led to it (apply_fill).                    *)
OwnSide == {i \in position.applied : SignedQty(fills[i]) > 0 <=> position.qty > 0}
EntryIsFair ==
  /\ position.qty = 0 => position.avg_entry = 0
  /\ position.qty # 0 => /\ \E i \in OwnSide : fills[i].price =< position.avg_entry
                         /\ \E i \in OwnSide : position.avg_entry =< fills[i].price

(* Funding is charged once for each interval since the position was        *)
(* opened, at the interval's own time, however irregular the calls that    *)
(* accrue it (FundingAccrualTracker).                                      *)
FundingOnGrid ==
  /\ \A k \in DOMAIN funding : funding[k].at = k * FundingInterval
  /\ lastAccrual = Len(funding) * FundingInterval /\ lastAccrual =< now

(* A position is the account into which each fill is booked once: its      *)
(* quantity is the sum of the signed quantities of the fills, and realized *)
(* P&L less the cost of the holding is the cash they moved, in whatever    *)
(* order and however often they were delivered (apply_fill).               *)
Account == INSTANCE PositionContract WITH
  Fills <- FillRecords, issued <- fills, booked <- position.applied,
  inventory <- position.qty, cash <- CashOf(position)
ImplementsAccount == Account!Spec

(* No average is rounded when one of the fills is booked next.  (With the  *)
(* code's Decimal an average of 1/3 is, in its 28th digit.)                *)
ExactAverages ==
  \A i \in DOMAIN fills : i \notin position.applied => ExactAverage(position, fills[i])

=============================================================================
