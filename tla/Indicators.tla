----------------------------- MODULE Indicators -----------------------------
(***************************************************************************)
(* The two indicator libraries of infrastructure/indicators: streaming     *)
(* classes that are updated bar by bar, and functions over a whole series. *)
(*                                                                         *)
(* A number is an integer in units small enough for every division that    *)
(* occurs to be exact; a return is a multiple of 1/Unit.  Where the code   *)
(* takes the square root of a variance, and where it multiplies by a       *)
(* constant to annualize or to widen a band, the variance stands for the   *)
(* result.  A value is <<x>>; None and NaN, before there is one, are <<>>. *)
(***************************************************************************)
EXTENDS Integers, SequencesExt

CONSTANTS
  Period,                          \* of every windowed indicator
  Span,                            \* of the EMA
  FastSpan, SlowSpan, SignalSpan,  \* of the MACD
  Unit                             \* a return of 100 %

(* What the constructors and functions refuse otherwise. *)
ASSUME IndicatorsAssumption ==
  /\ Period \in Nat /\ Period >= 2
  /\ {Span, FastSpan, SlowSpan, SignalSpan, Unit} \subseteq Nat \ {0}
  /\ FastSpan < SlowSpan

None == <<>>

Magnitude(n)  == IF n < 0 THEN -n ELSE n
Positive(n)   == IF n > 0 THEN n ELSE 0
Largest(S)    == CHOOSE x \in S : \A y \in S : y <= x
Return(p, c)  == ((c - p) * Unit) \div p

(* 100 * avg_gain / (avg_gain + avg_loss), as a fraction; 50 for neither. *)
Strength(gain, loss) == IF gain + loss = 0 THEN <<1, 2>> ELSE <<gain, gain + loss>>

(* Var = E[X^2] - E[X]^2, times period / (period - 1). *)
SampleVariance(total, square_total) ==
  LET mean == total \div Period
  IN  (Positive(square_total \div Period - mean * mean) * Period) \div (Period - 1)
-----------------------------------------------------------------------------
(* Streaming. *)

(* _RunningWindowSum: a running total and its last Period + 1 values. *)
NewWindow == [cumsum |-> 0, history |-> <<0>>]

Push(w, x) ==
  LET grown == Append(w.history, w.cumsum + x)
  IN  [ cumsum  |-> w.cumsum + x,
        history |-> IF Len(grown) > Period + 1 THEN Tail(grown) ELSE grown ]

(* Seeded fault: the window reports before it is full. *)
PartialTotal(w) == IF Len(w.history) > 1 THEN <<Last(w.history) - Head(w.history)>> ELSE None

WindowTotal(w) ==
  IF Len(w.history) = Period + 1 THEN <<Last(w.history) - Head(w.history)>> ELSE None

EmaStep(previous, x, span) ==
  IF previous = None THEN <<x>>
  ELSE <<previous[1] + (2 * (x - previous[1])) \div (span + 1)>>

(* The state of one object of each class.  Those that keep a window of the *)
(* same values share it here.                                              *)
NewState ==
  [ prev_close |-> None,
    values |-> NewWindow, squares |-> NewWindow, gains |-> NewWindow, losses |-> NewWindow,
    ranges |-> NewWindow, returns |-> NewWindow, return_squares |-> NewWindow,
    ema |-> None, fast |-> None, slow |-> None, signal |-> None ]

TrueRange(previous, b) ==
  IF previous = None THEN b.high - b.low
  ELSE Largest({b.high - b.low, Magnitude(b.high - previous[1]), Magnitude(b.low - previous[1])})

Update(s, b) ==
  LET previous == IF s.prev_close = None THEN b.close ELSE s.prev_close[1]
      delta    == b.close - previous
      ret      == IF s.prev_close = None THEN 0 ELSE Return(previous, b.close)
      fast     == EmaStep(s.fast, b.close, FastSpan)
      slow     == EmaStep(s.slow, b.close, SlowSpan)
  IN  [ prev_close     |-> <<b.close>>,
        values         |-> Push(s.values, b.close),
        squares        |-> Push(s.squares, b.close * b.close),
        gains          |-> Push(s.gains, Positive(delta)),
        losses         |-> Push(s.losses, Positive(-delta)),
        ranges         |-> Push(s.ranges, TrueRange(s.prev_close, b)),
        returns        |-> Push(s.returns, ret),
        return_squares |-> Push(s.return_squares, ret * ret),
        ema            |-> EmaStep(s.ema, b.close, Span),
        fast           |-> fast,
        slow           |-> slow,
        signal         |-> EmaStep(s.signal, fast[1] - slow[1], SignalSpan) ]

Full(w) == WindowTotal(w) # None
Total(w) == WindowTotal(w)[1]

MeanOf(w) == IF Full(w) THEN <<Total(w) \div Period>> ELSE None
VarianceOf(w, squares) ==
  IF Full(w) /\ Full(squares) THEN <<SampleVariance(Total(w), Total(squares))>> ELSE None

(* What update() returned last, once there is a bar. *)
Streamed(s) ==
  [ sma        |-> MeanOf(s.values),
    ema        |-> s.ema,
    rsi        |-> IF Full(s.gains) /\ Full(s.losses)
                   THEN <<Strength(Total(s.gains), Total(s.losses))>> ELSE None,
    atr        |-> MeanOf(s.ranges),
    bollinger  |-> VarianceOf(s.values, s.squares),
    macd       |-> <<s.fast[1] - s.slow[1]>>,
    signal     |-> s.signal,
    volatility |-> VarianceOf(s.returns, s.return_squares) ]
-----------------------------------------------------------------------------
(* Over a series. *)

Cumsum(v) ==
  LET f[i \in 0 .. Len(v)] == IF i = 0 THEN 0 ELSE f[i - 1] + v[i]
  IN  f

(* cumsum[period:] - cumsum[:-period] behind a prefix of NaN. *)
RollingSum(v) ==
  LET c == Cumsum(v)
  IN  [i \in DOMAIN v |-> IF i < Period THEN None ELSE <<c[i] - c[i - Period]>>]

RollingMean(v) ==
  LET r == RollingSum(v)
  IN  [i \in DOMAIN v |-> IF r[i] = None THEN None ELSE <<r[i][1] \div Period>>]

Squares(v) == [i \in DOMAIN v |-> v[i] * v[i]]

(* _rolling_mean_std, without the root. *)
RollingVariance(v) ==
  LET r == RollingSum(v)
      q == RollingSum(Squares(v))
  IN  [i \in DOMAIN v |-> IF r[i] = None THEN None ELSE <<SampleVariance(r[i][1], q[i][1])>>]

Summed(f) == FoldFunction(+, 0, f)

Power(b, n) ==
  LET p[k \in 0 .. n] == IF k = 0 THEN 1 ELSE b * p[k - 1]
  IN  p[n]

(* ewm_mean(adjust=False) of Polars, by its definition: the weight of the  *)
(* k-th value at i is alpha * (1 - alpha)^(i - k), without the alpha for   *)
(* the first, where alpha = 2 / (span + 1); here times (span + 1)^(i - 1). *)
Weight(span, k, i) ==
  IF k = 1 THEN Power(span - 1, i - 1) ELSE 2 * Power(span - 1, i - k) * Power(span + 1, k - 2)

Weighed(v, span, i) == Summed([k \in 1 .. i |-> Weight(span, k, i) * v[k]])

Ewm(v, span) == [i \in DOMAIN v |-> Weighed(v, span, i) \div Power(span + 1, i - 1)]

(* Seeded fault: a return is placed at the bar it starts from. *)
Forward(c) == [i \in DOMAIN c |-> IF i = Len(c) THEN 0 ELSE c[i + 1] - c[i]]

(* np.diff with the first value prepended. *)
Delta(c) == [i \in DOMAIN c |-> IF i = 1 THEN 0 ELSE c[i] - c[i - 1]]

Gains(c)  == [i \in DOMAIN c |-> Positive(Delta(c)[i])]
Losses(c) == [i \in DOMAIN c |-> Positive(-Delta(c)[i])]

(* The ratio of the means is the ratio of the sums. *)
Rsi(c) ==
  LET gain == RollingSum(Gains(c))
      loss == RollingSum(Losses(c))
  IN  [i \in DOMAIN c |-> IF gain[i] = None THEN None ELSE <<Strength(gain[i][1], loss[i][1])>>]

(* nanmax over three ranges, two of which are NaN at the first bar. *)
TrueRanges(bars) ==
  [i \in DOMAIN bars |->
     Largest({bars[i].high - bars[i].low}
             \cup {Magnitude(x - bars[j].close) :
                     x \in {bars[i].high, bars[i].low}, j \in {i - 1} \cap DOMAIN bars})]

Returns(c) == [i \in DOMAIN c |-> IF i = 1 THEN 0 ELSE Return(c[i - 1], c[i])]

Closes(bars) == [i \in DOMAIN bars |-> bars[i].close]

Batch(bars) ==
  LET c    == Closes(bars)
      fast == Ewm(c, FastSpan)
      slow == Ewm(c, SlowSpan)
      line == [i \in DOMAIN c |-> fast[i] - slow[i]]
      all(v) == [i \in DOMAIN v |-> <<v[i]>>]
  IN  [ sma        |-> RollingMean(c),
        ema        |-> all(Ewm(c, Span)),
        rsi        |-> Rsi(c),
        atr        |-> RollingMean(TrueRanges(bars)),
        bollinger  |-> RollingVariance(c),
        macd       |-> all(line),
        signal     |-> all(Ewm(line, SignalSpan)),
        volatility |-> RollingVariance(Returns(c)) ]
=============================================================================
