-------------------------- MODULE CandleValidation --------------------------
(***************************************************************************)
(* The rules of infrastructure/validation/candle_validation.py as          *)
(* operators.  A candle is a record [open_time, open, high, low, close,    *)
(* volume] of integers, a violation a record [check, severity, open_time]. *)
(* Sequences of candles are in the order in which they arrived.            *)
(***************************************************************************)
EXTENDS Integers, SequencesExt

CONSTANTS
  Step,             \* interval_to_timedelta(interval)
  StreakThreshold,  \* zero_volume_streak_threshold
  MoveWindow,       \* price_move_window
  Sigma,            \* price_move_sigma_threshold
  ReturnUnit        \* the number of units in a return of 1

ASSUME StepAssumption   == Step \in Nat \ {0}
ASSUME RulesAssumption  == {StreakThreshold, MoveWindow, Sigma, ReturnUnit} \subseteq Nat \ {0}

Violation(check, severity, t) == [check |-> check, severity |-> severity, open_time |-> t]
Quarantined(check, c) == Violation(check, "quarantined", c.open_time)
Flagged(check, c)     == Violation(check, "flagged", c.open_time)
-----------------------------------------------------------------------------
(* Rules a candle can break on its own; such a candle is quarantined.      *)
OhlcBroken(c) ==
  \/ c.high < Max({c.open, c.close})
  \/ c.low > Min({c.open, c.close})
  \/ c.high < c.low

(* Multiples of the interval since the epoch, which is time 0. *)
IsAligned(t) == t % Step = 0

ValidateCandle(c) ==
  (IF OhlcBroken(c) THEN {Quarantined("ohlc_invariant", c)} ELSE {})
    \cup (IF c.volume < 0 THEN {Quarantined("volume_nonneg", c)} ELSE {})
    \cup (IF IsAligned(c.open_time) THEN {} ELSE {Quarantined("timestamp_alignment", c)})
-----------------------------------------------------------------------------
(* Rules about neighbours.  A streak of bars without volume is reported on *)
(* the bar that ends it, or on the last one.                               *)
StreakEndsAt(acc, c) ==
  IF c.volume = 0 THEN [acc EXCEPT !.streak = @ + 1]
  ELSE [streak |-> 0,
        found  |-> IF acc.streak >= StreakThreshold
                   THEN acc.found \cup {Flagged("zero_volume_streak", c)} ELSE acc.found]

ZeroVolumeStreaks(cs) ==
  LET end == FoldLeft(StreakEndsAt, [streak |-> 0, found |-> {}], cs) IN
    end.found \cup (IF end.streak >= StreakThreshold
                    THEN {Flagged("zero_volume_streak", Last(cs))} ELSE {})

(* Seeded fault: one bar more between two neighbours is tolerated. *)
GapTolerated(previous, current) ==
  LET delta == current.open_time - previous.open_time IN
    CASE delta <= 0        -> {Flagged("timestamp_monotonic", current)}
      [] delta > 2 * Step  -> {Flagged("missing_interval", current)}
      [] OTHER             -> {}

(* What is said of a bar and its predecessor. *)
PairRules(previous, current) ==
  LET delta == current.open_time - previous.open_time IN
    CASE delta <= 0    -> {Flagged("timestamp_monotonic", current)}
      [] delta > Step  -> {Flagged("missing_interval", current)}
      [] OTHER         -> {}

(* Seeded fault: the return of the bar itself is part of its baseline. *)
BaselineWithItself(returns, k) == SubSeq(returns, k - MoveWindow + 1, k)

(* The returns that the k-th return is compared with: those before it. *)
Baseline(returns, k) == SubSeq(returns, k - MoveWindow, k - 1)

(* The return from a bar to the next, in units, rounded down. *)
CloseReturn(previous, current) ==
  IF previous.close = 0 THEN 0
  ELSE ((current.close - previous.close) * ReturnUnit) \div previous.close

AddUp(s) == FoldLeft(+, 0, s)

(* |return| > Sigma * stddev, by the squares: with n returns of sum S the  *)
(* deviation of r from their mean is (n r - S) / n.                        *)
PriceMoves(cs) ==
  LET returns == [k \in 1 .. Len(cs) - 1 |-> CloseReturn(cs[k], cs[k + 1])]
      n       == MoveWindow
      spread(base) == LET mean_n == AddUp(base)
                      IN AddUp([i \in DOMAIN base |-> (n * base[i] - mean_n) * (n * base[i] - mean_n)])
  IN {Flagged("price_move_sigma", cs[k + 1]) :
        k \in {j \in MoveWindow + 1 .. Len(cs) - 1 :
                 LET s == spread(Baseline(returns, j)) IN
                   /\ s > 0
                   /\ returns[j] * returns[j] * n * n * n > Sigma * Sigma * s}}

ValidateCandleSequence(cs) ==
  IF Len(cs) < 2 THEN {}
  ELSE ZeroVolumeStreaks(cs)
         \cup (UNION {PairRules(cs[i], cs[i + 1]) : i \in 1 .. Len(cs) - 1})
         \cup PriceMoves(cs)

(* Seeded fault: a flagged candle is not kept either. *)
RetainedIfUnflagged(cs) ==
  {i \in DOMAIN cs : /\ ValidateCandle(cs[i]) = {}
                     /\ \A v \in ValidateCandleSequence(cs) : v.open_time # cs[i].open_time}

(* The places of the candles that pass every rule of their own. *)
Retained(cs) == {i \in DOMAIN cs : ValidateCandle(cs[i]) = {}}

(* The sequence rules see the whole batch, quarantined candles included. *)
Violations(cs) ==
  (UNION {ValidateCandle(c) : c \in ToSet(cs)}) \cup ValidateCandleSequence(cs)
=============================================================================
