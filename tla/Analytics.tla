----------------------------- MODULE Analytics -----------------------------
(***************************************************************************)
(* A backtest watched bar by bar: the streaming indicators follow its bars *)
(* (infrastructure/indicators/incremental), the vectorized ones see the    *)
(* whole series (infrastructure/indicators/vectorized), and the tearsheet  *)
(* sums up its equity curve and fills (application/backtest/metrics.py).   *)
(* The account that the equity curve records is marked to the close of     *)
(* every bar.                                                              *)
(***************************************************************************)
EXTENDS Indicators, Tearsheet

CONSTANTS
  Candles,      \* [high, low, close]
  Trades,       \* [side, qty]
  Fee,          \* of a fill
  StartEquity,
  MaxHolding,   \* bound on the position, long or short
  MaxBars       \* bound on the length of the run

(* A close of 0, by which the returns divide, is left out: there the        *)
(* streaming form raises, where the vectorized one goes on with infinity.  *)
ASSUME CandlesAssumption   == Candles \subseteq [high : Int, low : Int, close : Nat \ {0}]
ASSUME TradesAssumption    == Trades \subseteq [side : {"buy", "sell"}, qty : Nat \ {0}]
ASSUME AnalyticsAssumption == {Fee, StartEquity, MaxHolding, MaxBars} \subseteq Nat /\ StartEquity > 0

VARIABLES
  bars,     \* the bars so far
  stream,   \* the state of the streaming indicators
  curve,    \* the EquityPoints
  fills,    \* the fills, at most one at a bar
  cash,     \* what they have left of the cash
  holding   \* the position they hold

runVars == <<bars, stream, curve, fills, cash, holding>>
-----------------------------------------------------------------------------
RunInit ==
  /\ bars = <<>> /\ stream = NewState
  /\ curve = <<[ts |-> 0, equity |-> StartEquity]>>
  /\ fills = {} /\ cash = StartEquity /\ holding = 0

(* A bar; with it the account is marked to its close. *)
Bar(b) ==
  /\ Len(bars) < MaxBars
  /\ bars' = Append(bars, b)
  /\ stream' = Update(stream, b)
  /\ curve' = Append(curve, [ts |-> Len(bars) + 1, equity |-> cash' + holding' * b.close])

(* A bar on which the strategy does nothing. *)
Watch(b) ==
  /\ UNCHANGED <<fills, cash, holding>>
  /\ Bar(b)

(* A bar at whose close an order fills. *)
Fill(b, t) ==
  /\ Abs(holding + SignedQty(t)) <= MaxHolding
  /\ holding' = holding + SignedQty(t)
  /\ cash' = cash - SignedQty(t) * b.close - Fee
  /\ fills' = fills \cup {[id |-> Len(bars), ts |-> Len(bars) + 1, side |-> t.side, qty |-> t.qty,
                           price |-> b.close, fee |-> Fee]}
  /\ Bar(b)

RunNext == \E b \in Candles : Watch(b) \/ \E t \in Trades : Fill(b, t)

RunSpec == RunInit /\ [][RunNext]_runVars
-----------------------------------------------------------------------------
Sheet == ComputeTearsheet(curve, fills)
Complete == ~Rejected(curve, fills)

Agree(names) == \A name \in names : Streamed(stream)[name] = Last(Batch(bars)[name])

Windowed == {"sma", "rsi", "atr", "bollinger", "volatility"}

(* The last value of every indicator over the series is what its streaming *)
(* form returned for the last bar, warm-up included; and the shortcut that *)
(* both use for the variance is the variance of the window.                *)
StreamMatchesBatch ==
  bars # <<>> =>
    LET batch  == Batch(bars)
        mean   == batch.sma[Len(bars)]
        c      == Closes(bars)
        window == Len(bars) - Period + 1 .. Len(bars)
    IN  /\ Agree(Windowed) /\ Agree(DOMAIN batch \ Windowed)
        /\ mean = None <=> Len(bars) < Period
        /\ mean # None =>
             (Period - 1) * Last(batch.bollinger)[1] =
               Summed([i \in window |-> (c[i] - mean[1]) * (c[i] - mean[1])])

(* No look-ahead: the values of a series that end at an earlier bar do not *)
(* change when later bars are known, so a strategy that was backtested on  *)
(* the vectorized values saw only its past.                                *)
IndicatorsAreCausal ==
  [][LET before == Batch(bars)
         after  == Batch(bars')
     IN  \A name \in DOMAIN before : IsPrefix(before[name], after[name])]_runVars

(* The drawdown from the running peak is the worst fall between any two    *)
(* points of the curve; at a last point below zero, which the code accepts *)
(* and where a fall from a lower point is the larger fraction, it is still *)
(* the fall from the highest one.                                          *)
DrawdownIsWorstFall ==
  Complete =>
    LET d == Sheet.max_drawdown
        equity(i) == curve[i].equity
        worse(i, j) == (equity(i) - equity(j)) * d[2] > d[1] * equity(i)
        reached(i, j) == (equity(i) - equity(j)) * d[2] = d[1] * equity(i)
    IN  /\ \A j \in DOMAIN curve : \A i \in 1 .. j :
             worse(i, j) => equity(j) < 0 /\ \E k \in 1 .. j : equity(k) > equity(i)
        /\ \E j \in DOMAIN curve : \E i \in 1 .. j : reached(i, j)

(* The realized results of the trades explain the run: with the fees of    *)
(* the fills that opened or added, which are in no trade, and with what an *)
(* open position is worth, they are the change of the equity.  The days in *)
(* the market are those that began with a position.                        *)
TradesExplainEquity ==
  Complete =>
    LET r == ReplayFills(fills, curve)
        held(F) == MapThenSumSet(SignedQty, F)
        upto(i) == {f \in fills : f.ts <= curve[i].ts}
        invested == {i \in 1 .. Len(curve) - 1 : held(upto(i)) # 0}
        opening == {f \in fills : held({g \in fills : g.ts < f.ts}) * SignedQty(f) >= 0}
    IN  /\ SumOf(r.trades) - Fee * Cardinality(opening)
             + r.position.qty * (Last(Closes(bars)) - r.position.avg_entry)
           = Last(curve).equity - Head(curve).equity
        /\ Sheet.days_in_market = Cardinality(invested)
=============================================================================
