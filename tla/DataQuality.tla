---------------------------- MODULE DataQuality ----------------------------
(***************************************************************************)
(* The data-quality jobs over one instrument's candle table:               *)
(* infrastructure/jobs/gap_detection.py scans a window for missing bars,   *)
(* logs them to data_quality_event and has backfill_candles repair them;   *)
(* infrastructure/validation/candle_validation.py validates batches as     *)
(* they are ingested and stored rows every night.  Archival deletes old    *)
(* rows meanwhile.  Every gap fits in one page of the venue, so that a     *)
(* repair is one request and one commit.                                   *)
(***************************************************************************)
EXTENDS CandleValidation

CONSTANTS
  Scanners,       \* processes that run run_gap_scan_and_backfill
  Windows,        \* the <<window_start, window_end>> of scans and suites
  Maintenance,    \* maintenance_windows, as <<start, end>>
  Venue,          \* the venue's candles, a function of their open times
  Batches,        \* the batches ingested, sequences of candles
  Cutoff,         \* archival deletes the rows older than this
  StartTime,
  MaxTime         \* bound on the clock

(* No venue quotes a price below zero. *)
Quotes == [open_time : Nat, open : Nat, high : Nat, low : Nat, close : Nat, volume : Int]

ASSUME WindowsAssumption == Windows \cup Maintenance \subseteq {w \in Nat \X Nat : w[1] <= w[2]}
ASSUME VenueAssumption   == \A t \in DOMAIN Venue : Venue[t] \in Quotes /\ Venue[t].open_time = t
ASSUME BatchesAssumption == Batches \subseteq Seq(Quotes)

VARIABLES
  clock,       \* wall clock
  candle,      \* the rows of the table, a function of their open times
  events,      \* data_quality_event
  completed,   \* ranges whose backfill checkpoint is completed
  pc,          \* where each scan is
  gaps,        \* the gaps a scan has found and not yet passed
  page,        \* the venue's answer for the first of them
  offered      \* history: open times ingested so far and not archived

scans       == <<pc, gaps, page>>
qualityVars == <<clock, candle, events, completed, scans, offered>>
-----------------------------------------------------------------------------
ExpectedBars(w) == (w[2] - w[1]) \div Step + 1
ExpectedBar(w, k) == w[1] + (k - 1) * Step
ExpectedOpenTimes(w) == {ExpectedBar(w, k) : k \in 1 .. ExpectedBars(w)}

(* Seeded fault: a run never grows beyond its second bar. *)
ExtendOnce(runs, t) ==
  IF runs # <<>> /\ t - Last(runs)[1] = Step
  THEN [runs EXCEPT ![Len(runs)][2] = t]
  ELSE Append(runs, <<t, t>>)

(* The runs so far, with the next missing bar. *)
Extend(runs, t) ==
  IF runs # <<>> /\ t - Last(runs)[2] = Step
  THEN [runs EXCEPT ![Len(runs)][2] = t]
  ELSE Append(runs, <<t, t>>)

(* The runs among the first k expected bars, the earliest first. *)
Runs(w, actual) ==
  LET runs[k \in 0 .. ExpectedBars(w)] ==
        IF k = 0 THEN <<>>
        ELSE IF ExpectedBar(w, k) \in actual THEN runs[k - 1]
        ELSE Extend(runs[k - 1], ExpectedBar(w, k))
  IN  runs

GapsFromExpectedAndActual(w, actual) == Runs(w, actual)[ExpectedBars(w)]

DetectGaps(w) == GapsFromExpectedAndActual(w, DOMAIN candle)

(* A gap that touches a maintenance window at all counts as maintenance. *)
Classification(g) ==
  IF \E m \in Maintenance : g[1] <= m[2] /\ g[2] >= m[1] THEN "maintenance" ELSE "unexplained"

(* The event of a gap, at its start; both detectors use one check name. *)
GapEvent(g) == Violation("missing_interval", "flagged", g[1])

(* The CHECK constraints of the candle table; alignment is not one. *)
Storable(c) == ~OhlcBroken(c) /\ c.volume >= 0

(* INSERT ... ON CONFLICT DO UPDATE of some candles. *)
Upsert(cs) ==
  [t \in DOMAIN candle \cup {c.open_time : c \in cs} |->
     IF \E c \in cs : c.open_time = t THEN CHOOSE c \in cs : c.open_time = t ELSE candle[t]]

(* The stored rows of a window, ORDER BY open_time. *)
TimesOf(w) == {t \in DOMAIN candle : w[1] <= t /\ t <= w[2]}
Rank(S, t) == Cardinality({u \in S : u <= t})
RowsOf(w)  == LET nth(i) == CHOOSE t \in TimesOf(w) : Rank(TimesOf(w), t) = i
              IN  [i \in 1 .. Cardinality(TimesOf(w)) |-> candle[nth(i)]]
-----------------------------------------------------------------------------
QualityInit ==
  /\ clock = StartTime
  /\ candle = <<>>
  /\ events = {} /\ completed = {} /\ offered = {}
  /\ pc = [s \in Scanners |-> "idle"]
  /\ gaps = [s \in Scanners |-> <<>>]
  /\ page = [s \in Scanners |-> {}]

Tick ==
  /\ clock + Step <= MaxTime
  /\ clock' = clock + Step
  /\ UNCHANGED <<candle, events, completed, scans, offered>>

(* The SELECT of detect_gaps. *)
Detect(s) ==
  /\ pc[s] = "idle"
  /\ \E w \in Windows : gaps' = [gaps EXCEPT ![s] = DetectGaps(w)]
  /\ pc' = [pc EXCEPT ![s] = "found"]
  /\ UNCHANGED <<clock, candle, events, completed, page, offered>>

(* record_gaps and its commit, before any repair. *)
Record(s) ==
  /\ pc[s] = "found"
  /\ events' = events \cup {GapEvent(g) : g \in ToSet(gaps[s])}
  /\ pc' = [pc EXCEPT ![s] = "repairing"]
  /\ UNCHANGED <<clock, candle, completed, gaps, page, offered>>

Finish(s) ==
  /\ pc[s] = "repairing" /\ gaps[s] = <<>>
  /\ pc' = [pc EXCEPT ![s] = "idle"]
  /\ UNCHANGED <<clock, candle, events, completed, gaps, page, offered>>

(* Seeded fault: a completed checkpoint is looked for on any range around. *)
DoneAround(g) == \E r \in completed : r[1] <= g[1] /\ g[2] <= r[2]

(* backfill_candles returns at once for a range it has completed before. *)
AlreadyDone(g) == g \in completed

(* A maintenance gap, or one whose exact range was completed before. *)
Skip(s) ==
  /\ pc[s] = "repairing" /\ gaps[s] # <<>>
  /\ Classification(Head(gaps[s])) = "maintenance" \/ AlreadyDone(Head(gaps[s]))
  /\ gaps' = [gaps EXCEPT ![s] = Tail(@)]
  /\ UNCHANGED <<clock, candle, events, completed, pc, page, offered>>

(* The venue answers with the bars it has by now; with none of them the    *)
(* backfill ends without a checkpoint.                                     *)
Fetch(s) ==
  /\ pc[s] = "repairing" /\ gaps[s] # <<>>
  /\ Classification(Head(gaps[s])) = "unexplained" /\ ~AlreadyDone(Head(gaps[s]))
  /\ LET g == Head(gaps[s])
         k == {t \in DOMAIN Venue : g[1] <= t /\ t <= g[2] /\ t <= clock}
     IN /\ page' = [page EXCEPT ![s] = k]
        /\ pc'   = [pc EXCEPT ![s] = IF k = {} THEN "repairing" ELSE "fetched"]
        /\ gaps' = [gaps EXCEPT ![s] = IF k = {} THEN Tail(@) ELSE @]
  /\ UNCHANGED <<clock, candle, events, completed, offered>>

(* The upsert and the checkpoint in one transaction.  A short page, and    *)
(* one that reaches range_end, completes the range.                        *)
Commit(s) ==
  /\ pc[s] = "fetched"
  /\ \A t \in page[s] : Storable(Venue[t])
  /\ candle' = Upsert({Venue[t] : t \in page[s]})
  /\ completed' = completed \cup {Head(gaps[s])}
  /\ pc' = [pc EXCEPT ![s] = "repairing"]
  /\ gaps' = [gaps EXCEPT ![s] = Tail(@)]
  /\ page' = [page EXCEPT ![s] = {}]
  /\ UNCHANGED <<clock, events, offered>>

EndScan(s) ==
  /\ pc' = [pc EXCEPT ![s] = "idle"]
  /\ gaps' = [gaps EXCEPT ![s] = <<>>]
  /\ page' = [page EXCEPT ![s] = {}]
  /\ UNCHANGED <<clock, candle, events, completed, offered>>

(* The database refuses a row; the exception ends the scan, later gaps and all. *)
CommitRefused(s) ==
  /\ pc[s] = "fetched"
  /\ \E t \in page[s] : ~Storable(Venue[t])
  /\ EndScan(s)

(* The venue or the database fails, or the process dies. *)
Fail(s) == pc[s] # "idle" /\ EndScan(s)

(* The database takes the kept rows of a batch in one INSERT ... ON        *)
(* CONFLICT: each passes the CHECKs, and none would be updated twice.      *)
Accepts(batch) ==
  \A i \in Retained(batch) :
    /\ Storable(batch[i])
    /\ \A j \in Retained(batch) : batch[i].open_time = batch[j].open_time => i = j

(* validate_and_ingest_candles: one transaction. *)
Ingest(batch) ==
  /\ Accepts(batch)
  /\ candle' = Upsert({batch[i] : i \in Retained(batch)})
  /\ events' = events \cup Violations(batch)
  /\ offered' = offered \cup {c.open_time : c \in ToSet(batch)}
  /\ UNCHANGED <<clock, completed, scans>>

(* A batch that keeps two bars of one open time is rolled back as a whole, *)
(* the record of its violations included.                                  *)
IngestRefused(batch) == ~Accepts(batch) /\ UNCHANGED qualityVars

(* run_validation_suite over stored rows. *)
Suite(w) ==
  /\ events' = events \cup Violations(RowsOf(w))
  /\ UNCHANGED <<clock, candle, completed, scans, offered>>

(* The nightly archival moves the old rows out of the table. *)
Archive ==
  /\ candle' = [t \in {u \in DOMAIN candle : u >= Cutoff} |-> candle[t]]
  /\ offered' = {t \in offered : t >= Cutoff}
  /\ UNCHANGED <<clock, events, completed, scans>>

ScanStep(s) == Detect(s) \/ Record(s) \/ Finish(s) \/ Skip(s) \/ Fetch(s) \/ Commit(s) \/ CommitRefused(s)

QualityNext ==
  \/ Tick \/ Archive
  \/ \E s \in Scanners : ScanStep(s) \/ Fail(s)
  \/ \E batch \in Batches : Ingest(batch) \/ IngestRefused(batch)
  \/ \E w \in Windows : Suite(w)

QualitySpec == QualityInit /\ [][QualityNext]_qualityVars

(* The scheduler calls the scan again and again, and each call goes on. *)
FairQualitySpec == QualitySpec /\ \A s \in Scanners : WF_qualityVars(ScanStep(s))
-----------------------------------------------------------------------------
Missing(w) == ExpectedOpenTimes(w) \ DOMAIN candle

(* A scan reports each missing bar of its window once: the gaps are the    *)
(* maximal runs of missing bars, whatever was stored in whatever order.    *)
GapsAreExact ==
  \A w \in Windows : LET gs == DetectGaps(w) IN
    /\ UNION {ExpectedOpenTimes(g) : g \in ToSet(gs)} = Missing(w)
    /\ \A i \in 1 .. Len(gs) - 1 : gs[i + 1][1] - gs[i][2] > Step

(* The scanner and the validation suite report the same holes by different *)
(* means: every gap between two stored bars is a missing_interval of the   *)
(* suite on the bar after it, and there is no other.  (So it is where the  *)
(* window and the venue's bars lie on the epoch's grid: not for weeks.)    *)
DetectorsAgree ==
  \A w \in Windows :
    LET after == {g[2] + Step : g \in ToSet(DetectGaps(w))}
        rows  == RowsOf(w)
    IN {v.open_time : v \in {u \in Violations(rows) : u.check = "missing_interval"}}
         = {rows[i].open_time : i \in 2 .. Len(rows)} \cap after

(* "Data is quarantined, never silently dropped": a bar that was in some   *)
(* ingested batch is a row of the table, whatever was written over it, or  *)
(* data_quality_event says why not.                                        *)
NeverSilentlyDropped ==
  \A t \in offered :
    \/ t \in DOMAIN candle
    \/ \E e \in events : e.severity = "quarantined" /\ e.open_time = t

(* A maximal run of bars without volume. *)
QuietRun(cs, i, j) ==
  /\ \A k \in i .. j : cs[k].volume = 0
  /\ i > 1 => cs[i - 1].volume # 0
  /\ j < Len(cs) => cs[j + 1].volume # 0

(* n times the sum of squares less the square of the sum: n^2 times the    *)
(* variance of the MoveWindow returns before the one into bar k.           *)
Jump(cs, k) ==
  LET r(i)  == CloseReturn(cs[i - 1], cs[i])
      base  == [i \in 1 .. MoveWindow |-> r(k - MoveWindow - 1 + i)]
      squares == AddUp([i \in DOMAIN base |-> base[i] * base[i]])
      total   == AddUp(base)
      spread  == MoveWindow * squares - total * total
  IN spread > 0 /\ r(k) * r(k) * MoveWindow * MoveWindow > Sigma * Sigma * spread

(* The suite finds every quiet run and every jump among the stored rows    *)
(* and nothing else, also those that no ingested batch contained whole.    *)
SuiteFindsAll ==
  \A w \in Windows :
    LET rows == RowsOf(w)
        n    == Len(rows)
        found(check) == {v.open_time : v \in {u \in Violations(rows) : u.check = check}}
    IN n >= 2 =>
       /\ found("zero_volume_streak") =
            {rows[Min({p[2] + 1, n})].open_time :
               p \in {q \in (1 .. n) \X (1 .. n) :
                        q[2] - q[1] + 1 >= StreakThreshold /\ QuietRun(rows, q[1], q[2])}}
       /\ found("price_move_sigma") =
            {rows[k].open_time : k \in {j \in MoveWindow + 2 .. n : Jump(rows, j)}}

(* Nothing stands between the missing bar t and its repair: the venue has  *)
(* it, its gap is unexplained and was not completed before, and no gap up  *)
(* to and including its own has a bar that the table refuses.              *)
Repairable(t, w) ==
  /\ t \in Missing(w) /\ t \in DOMAIN Venue /\ t <= clock
  /\ \E g \in ToSet(DetectGaps(w)) :
       /\ g[1] <= t /\ t <= g[2]
       /\ Classification(g) = "unexplained" /\ g \notin completed
       /\ \A u \in DOMAIN Venue \cap w[1] .. g[2] : Storable(Venue[u]) \/ u \in DOMAIN candle

(* A step that ends a scan before its time. *)
Fault == \E s \in Scanners : Fail(s) /\ ~CommitRefused(s) /\ ~Finish(s)

(* Once scans stop dying, no missing bar stays repairable for ever,        *)
(* whatever ingestion, archival and earlier repairs do to its gap.         *)
RepairReachesGap ==
  <>[][~Fault]_qualityVars =>
    \A w \in Windows : \A t \in ExpectedOpenTimes(w) : []<>~Repairable(t, w)
=============================================================================
