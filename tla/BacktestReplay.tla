--------------------------- MODULE BacktestReplay ---------------------------
(***************************************************************************)
(* A backtest: run_backtest of application/backtest/loop.py drives the     *)
(* min-heap merge of HistoricalFeed, the SimulatedClock and the cursor of  *)
(* CursorMarketDataView over the bars loaded from Postgres, and calls the  *)
(* strategy on every bar.                                                  *)
(*                                                                         *)
(* A series, sorted by the query that loads it, is the set of its open     *)
(* times; the cursor of the feed is the set of those not yet popped.  The  *)
(* strategy is free to signal or not.  The fills it has coming are the     *)
(* caller's, and touch none of this state.                                 *)
(***************************************************************************)
EXTENDS Integers, FiniteSets

CONSTANTS
  Series,    \* the (symbol, timeframe) keys
  Step,      \* interval_to_timedelta of the timeframe of each
  Loads,     \* the data a run may find: the open times of each series
  Warmup     \* warmup_bars of the strategy

ASSUME SeriesAssumption == IsFiniteSet(Series)
ASSUME StepAssumption   == Step \in [Series -> Nat \ {0}]
ASSUME LoadsAssumption  == Loads \subseteq [Series -> SUBSET Nat]
ASSUME WarmupAssumption == Warmup \in Nat

VARIABLES
  series,       \* the loaded series, shared by the feed and the view
  rest,         \* _cursor: what each series still has to deliver
  heap,         \* _heap: one entry per series that is not exhausted
  pushes,       \* _tie_breaker
  delivered,    \* the events popped so far
  event,        \* the last of them
  clock,        \* the SimulatedClock, and current_ts of the view
  revealed,     \* what bars() can return of each series
  pc,           \* the next step of the loop
  bars_processed, signal_opportunities,
  signals_produced, signals_discarded_during_warmup

feed     == <<rest, heap, pushes, delivered, event>>
time     == <<clock, revealed>>
counters == <<bars_processed, signal_opportunities,
              signals_produced, signals_discarded_during_warmup>>
vars     == <<series, feed, time, pc, counters>>
-----------------------------------------------------------------------------
Close(k, b) == b + Step[k]

AllBars == UNION {{k} \X series[k] : k \in Series}

First(s) == CHOOSE b \in s : \A c \in s : b <= c

(* The heap entry of the first bar a series still has to deliver. *)
Entry(k, s, n) == [close |-> Close(k, First(s)), step |-> Step[k], seq |-> n, key |-> k]

(* Seeded faults: a heap keyed by the close time alone, and one keyed by   *)
(* the open time.                                                          *)
SmallerByClose(e, f) == e.close < f.close \/ (e.close = f.close /\ e.seq < f.seq)
SmallerByOpen(e, f) ==
  LET oe == e.close - e.step
      of == f.close - f.step
  IN oe < of \/ (oe = of /\ e.seq < f.seq)

(* The order of heap entries: close time, then interval, then insertion. *)
Smaller(e, f) ==
  \/ e.close < f.close
  \/ e.close = f.close /\ e.step < f.step
  \/ e.close = f.close /\ e.step = f.step /\ e.seq < f.seq

(* Seeded fault: the bar that closes now is revealed. *)
ClosedByNow(k, ts) == {b \in series[k] : Close(k, b) <= ts}

(* The bars advance(ts) has revealed of a series. *)
ClosedBefore(k, ts) == {b \in series[k] : Close(k, b) < ts}

(* The last warm-up bar is the one numbered Warmup. *)
InWarmup(n) == n <= Warmup
-----------------------------------------------------------------------------
(* The constructor pushes the first bar of each series. *)
Init ==
  /\ series \in Loads
  /\ rest = series
  /\ pushes = Cardinality(Series)
  /\ \E seq \in [Series -> 1 .. pushes] :
       /\ \A j, k \in Series : seq[j] = seq[k] => j = k
       /\ heap = {Entry(k, series[k], seq[k]) : k \in {s \in Series : series[s] # {}}}
  /\ delivered = {} /\ event = <<>>
  /\ clock = -1                       \* not initialized: earlier than any time
  /\ revealed = [k \in Series |-> {}]
  /\ pc = "pull"
  /\ bars_processed = 0 /\ signal_opportunities = 0
  /\ signals_produced = 0 /\ signals_discarded_during_warmup = 0

(* next_closed_event: pop the smallest entry, push the next bar of its     *)
(* series.                                                                 *)
Pull ==
  /\ pc = "pull"
  /\ \E e \in heap :
       LET k    == e.key
           b    == First(rest[k])
           left == rest[k] \ {b}
       IN
       /\ \A f \in heap \ {e} : Smaller(e, f)
       /\ rest' = [rest EXCEPT ![k] = left]
       /\ heap' = (heap \ {e}) \cup (IF left = {} THEN {} ELSE {Entry(k, left, pushes + 1)})
       /\ pushes' = IF left = {} THEN pushes ELSE pushes + 1
       /\ delivered' = delivered \cup {<<k, b>>}
       /\ event' = <<k, b>>
  /\ pc' = "advance"
  /\ UNCHANGED <<series, time, counters>>

(* clock.advance_to(close_ts), which raises if that is in its past, then   *)
(* view.advance(close_ts).                                                 *)
Advance ==
  LET close_ts == Close(event[1], event[2]) IN
  /\ pc = "advance"
  /\ \/ /\ close_ts < clock
        /\ pc' = "failed"
        /\ UNCHANGED time
     \/ /\ close_ts >= clock
        /\ pc' = "decide"
        /\ clock' = close_ts
        /\ revealed' = [k \in Series |-> revealed[k] \cup ClosedBefore(k, close_ts)]
  /\ UNCHANGED <<series, feed, counters>>

(* on_data, on every bar; its signal is dropped during the warm-up.        *)
OnData(signal) ==
  LET warm == InWarmup(bars_processed + 1)
      one  == IF signal THEN 1 ELSE 0
  IN
  /\ pc = "decide"
  /\ pc' = "pull"
  /\ bars_processed' = bars_processed + 1
  /\ signal_opportunities' = signal_opportunities + (IF warm THEN 0 ELSE 1)
  /\ signals_produced' = signals_produced + (IF warm THEN 0 ELSE one)
  /\ signals_discarded_during_warmup' =
       signals_discarded_during_warmup + (IF warm THEN one ELSE 0)
  /\ UNCHANGED <<series, feed, time>>

(* FeedExhausted: the run returns its result. *)
Finish ==
  /\ pc = "pull" /\ heap = {}
  /\ pc' = "done"
  /\ UNCHANGED <<series, feed, time, counters>>

Next == Pull \/ Advance \/ (\E signal \in BOOLEAN : OnData(signal)) \/ Finish

Spec == Init /\ [][Next]_vars

(* The loop runs on: nothing it awaits blocks for ever. *)
FairSpec == Spec /\ WF_vars(Next)
-----------------------------------------------------------------------------
(* Every variable stays in its type. *)
TypeOK ==
  /\ series \in Loads
  /\ rest \in [Series -> SUBSET Nat] /\ \A k \in Series : rest[k] \subseteq series[k]
  /\ heap \subseteq [close : Nat, step : Nat, seq : Nat, key : Series]
  /\ pushes \in Nat
  /\ delivered \subseteq AllBars
  /\ event \in delivered \cup {<<>>}
  /\ clock \in Nat \cup {-1}
  /\ revealed \in [Series -> SUBSET Nat]
  /\ pc \in {"pull", "advance", "decide", "failed", "done"}
  /\ bars_processed \in Nat /\ signal_opportunities \in Nat
  /\ signals_produced \in Nat /\ signals_discarded_during_warmup \in Nat

(* Lookahead prevention: whatever a strategy asks of its view closed       *)
(* strictly before the simulated present, and was delivered to it as an    *)
(* event before.                                                           *)
NoLookahead ==
  \A k \in Series : \A b \in revealed[k] : Close(k, b) < clock /\ <<k, b>> \in delivered

(* When the strategy is called its view lacks nothing of the past: every   *)
(* bar delivered that closed before the present can be read.               *)
ViewIsCurrent ==
  pc = "decide" => \A d \in delivered : Close(d[1], d[2]) < clock => d[2] \in revealed[d[1]]

(* The clock never has to move backward: ClockRegressionError is not       *)
(* raised, whatever the series, their gaps and their intervals.            *)
ClockNeverRegresses == pc # "failed"

(* Warm-up bars produce no signal, every later bar can produce one, and a  *)
(* signal is counted once.                                                 *)
WarmupIsSilent ==
  /\ bars_processed <= Warmup => signals_produced = 0
  /\ signal_opportunities + Warmup = IF bars_processed <= Warmup THEN Warmup ELSE bars_processed
  /\ signals_produced <= signal_opportunities
  /\ signals_discarded_during_warmup <= bars_processed - signal_opportunities

(* The heap merge implements the abstract feed: a bar is delivered after   *)
(* every bar it contains, and none is skipped or repeated.                 *)
Contract == INSTANCE ReplayContract WITH
  Keys <- Series, Length <- Step, data <- series, delivered <- delivered

ImplementsReplay == Contract!Spec

(* The run ends, with every loaded bar delivered and handed to on_data.    *)
ReplayEnds ==
  <>(pc = "done" /\ delivered = AllBars /\ bars_processed = Cardinality(AllBars))
=============================================================================
