----------------------------- MODULE Tearsheet -----------------------------
(***************************************************************************)
(* compute_tearsheet (application/backtest/metrics.py) on an equity curve  *)
(* and the fills of one backtest run.                                      *)
(*                                                                         *)
(* An amount is an integer number of units, a time a whole day, a ratio a  *)
(* pair <<numerator, denominator>>, an undefined value <<>>.  The ratios   *)
(* that take a root are abstracted to whether they are defined; the        *)
(* risk-free rate is its default, 0.                                       *)
(***************************************************************************)
EXTENDS Position, SequencesExt

Undefined == <<>>

(* x divided by y, or None. *)
Ratio(x, y) == IF y = 0 THEN Undefined ELSE <<x, y>>

SumOf(s) == FoldLeft(+, 0, s)

(* What compute_tearsheet and _period_returns refuse. *)
Rejected(curve, fills) ==
  \/ Len(curve) < 2 \/ fills = {}
  \/ \E i \in 1 .. Len(curve) - 1 : curve[i].ts > curve[i + 1].ts \/ curve[i].equity <= 0

(* The sign of a period return, and whether two of them are equal. *)
Gain(curve, i) == curve[i + 1].equity - curve[i].equity
SameReturn(curve, i, j) == Gain(curve, i) * curve[j].equity = Gain(curve, j) * curve[i].equity

(* Seeded fault: a new peak is compared with the first one. *)
FirstPeak(d, point) ==
  IF point.equity > d.peak THEN [d EXCEPT !.peak_ts = point.ts]
  ELSE [ d EXCEPT !.drawdown = IF (d.peak - point.equity) * @[2] > @[1] * d.peak
                               THEN <<d.peak - point.equity, d.peak>> ELSE @,
                  !.duration = IF point.ts - d.peak_ts > @ THEN point.ts - d.peak_ts ELSE @ ]

(* One turn of the loop of _max_drawdown_and_duration. *)
Sink(d, point) ==
  IF point.equity > d.peak
  THEN [d EXCEPT !.peak = point.equity, !.peak_ts = point.ts]
  ELSE [ d EXCEPT !.drawdown = IF (d.peak - point.equity) * @[2] > @[1] * d.peak
                               THEN <<d.peak - point.equity, d.peak>> ELSE @,
                  !.duration = IF point.ts - d.peak_ts > @ THEN point.ts - d.peak_ts ELSE @ ]

(* The loop's variables after each of the points. *)
Sinking(curve) ==
  LET d[i \in 0 .. Len(curve)] ==
        IF i = 0
        THEN [peak |-> curve[1].equity, peak_ts |-> curve[1].ts, drawdown |-> <<0, 1>>, duration |-> 0]
        ELSE Sink(d[i - 1], curve[i])
  IN  d

MaxDrawdownAndDuration(curve) == Sinking(curve)[Len(curve)]

(* Seeded fault: a fill that turns the position around is no trade. *)
OnlyReducing(p, f) == p.qty # 0 /\ ~SameDirection(p, f) /\ f.qty <= Abs(p.qty)

(* is_closing: against an open position. *)
IsClosing(p, f) == p.qty # 0 /\ ~SameDirection(p, f)

(* The loop of _replay_fills. *)
Replayed(r, f) ==
  LET p == ApplyFill(r.position, f)
  IN  [ position |-> p,
        trades   |-> IF IsClosing(r.position, f)
                     THEN Append(r.trades, p.realized_pnl - r.position.realized_pnl) ELSE r.trades,
        days     |-> r.days + (IF r.position.qty # 0 THEN f.ts - r.cursor ELSE 0),
        cursor   |-> f.ts ]

(* sorted(fills, key=ts), stable in the order of their ids. *)
Earlier(f, g) == f.ts < g.ts \/ (f.ts = g.ts /\ f.id < g.id)
InOrder(fills) ==
  LET place(f) == Cardinality({g \in fills : ~Earlier(f, g)})
  IN  [i \in 1 .. Cardinality(fills) |-> CHOOSE f \in fills : place(f) = i]

ReplayFills(fills, curve) ==
  LET r == FoldLeft(Replayed,
                    [position |-> Flat, trades |-> <<>>, days |-> 0, cursor |-> curve[1].ts],
                    InOrder(fills))
  IN  [ position |-> r.position,
        trades   |-> r.trades,
        days     |-> r.days + (IF r.position.qty # 0 THEN Last(curve).ts - r.cursor ELSE 0) ]

Winning(trades)  == SelectSeq(trades, LAMBDA x : x > 0)
Losing(trades)   == SelectSeq(trades, LAMBDA x : x < 0)
TotalFees(fills) == MapThenSumSet(LAMBDA f : f.fee, fills)

ComputeTearsheet(curve, fills) ==
  LET start    == Head(curve)
      end      == Last(curve)
      total    == end.ts - start.ts
      drawdown == MaxDrawdownAndDuration(curve)
      periods  == 1 .. Len(curve) - 1
      replayed == ReplayFills(fills, curve)
      winning  == Winning(replayed.trades)
      losing   == Losing(replayed.trades)
      has_cagr == total > 0 /\ end.equity > 0
      fees     == TotalFees(fills)
  IN  [ total_return  |-> Ratio(end.equity - start.equity, start.equity),
        max_drawdown  |-> drawdown.drawdown,
        drawdown_duration_days |-> drawdown.duration,
        has_cagr      |-> has_cagr,
        has_sharpe    |-> \E i, j \in periods : ~SameReturn(curve, i, j),
        has_sortino   |-> \E i \in periods : Gain(curve, i) < 0,
        has_calmar    |-> has_cagr /\ drawdown.drawdown[1] # 0,
        has_omega     |-> \E i \in periods : Gain(curve, i) < 0,
        win_rate      |-> Ratio(Len(winning), Len(replayed.trades)),
        profit_factor |-> Ratio(SumOf(winning), -SumOf(losing)),
        avg_win       |-> Ratio(SumOf(winning), Len(winning)),
        avg_loss      |-> Ratio(SumOf(losing), Len(losing)),
        expectancy    |-> Ratio(SumOf(replayed.trades), Len(replayed.trades)),
        days_in_market |-> replayed.days,
        time_in_market |-> IF total > 0 THEN <<replayed.days, total>> ELSE <<0, 1>>,
        total_fees    |-> fees,
        fees_pct_of_gross |-> Ratio(100 * fees, Abs(end.equity - start.equity + fees)) ]
=============================================================================
