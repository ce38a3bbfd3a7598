# QuantTrade platform: TLA+ models and proofs

The platform ingests candles from Binance, stores them in Postgres, repairs the gaps that
disconnections leave, moves old months to Parquet, replays the stored history through backtests, keeps
orders as event-sourced state machines, simulates their fills into positions and logs every run with
its metrics. The modules of this directory model those parts from their source. TLC checks them on small instances, TLAPS proves the invariants that matter for every
value of the constants. Paths below are relative to `src/`.

Contents: [the system](#the-system) · [modules](#modules-and-their-correspondence-to-the-code) ·
[runs](#runs-bounds-and-what-they-show) · [fairness](#fairness) · [proofs](#proofs) ·
[only model-checked](#only-model-checked) · [divergences](#divergences-between-code-and-documentation) ·
[not modelled](#not-modelled) · [plan](#plan)

## The system

Three layers: `domain/` (values and pure rules), `application/` (the backtest loop and its metrics),
`infrastructure/` (venue adapters, jobs, tables). There is no server process that owns everything:
jobs are functions an outside scheduler invokes, each with a database connection of its own, and the
realtime feed is a set of asyncio callbacks. They meet in the Postgres tables. That is where most of
what can go wrong lies: two jobs over one table, a job that dies between two steps, a clock read
before an answer arrives.

| Component (source) | State it keeps | Operations | What makes it hard | What makes it correct |
|---|---|---|---|---|
| OHLCV backfill (`infrastructure/jobs/ohlcv_backfill_job.py`) | `candle`, `candle_backfill_checkpoint` | fetch a page, upsert and checkpoint in one transaction, resume, short-circuit | concurrent calls over overlapping ranges, crashes between pages, bars still forming | a checkpoint never passes a missing bar; closed rows are final; holes are reported |
| WebSocket client (`infrastructure/venues/binance/websocket_client.py`) | attempt counter, time of the last message, last sequence | connect, back off, heartbeat, watchdog | half-open connections, slow handlers, publications inside the watchdog | silence ends in a close in bounded time, lost frames are noticed |
| Candle stream and gap-fill (`candle_stream.py`, `gap_fill_stream.py`) | `last_known_bar_ts`, `_halted`, last attempt seen | halt, gap-fill, resume, publish, drop | reconnects during anything, failed fills, failing subscribers | no candle is published with a silent gap behind it |
| REST client, rate limiter (`client.py`, `rate_limiter.py`) | `_blocked_until`, used weight, window start | request, sign, retry, back off | several processes behind one address, lost answers, a window out of step, stale signatures | the Retry-After of a 429 is respected, the overrun is bounded, no refusal lasts |
| Staleness watchdog (`staleness_watchdog.py`) | last reception per symbol | check all, alarm | awaits inside the check | silent symbols are reported in bounded time |
| Gap detection (`infrastructure/jobs/gap_detection.py`) | `data_quality_event` | scan, classify, record, repair by backfill | maintenance windows, checkpoints of earlier repairs, archival under the scan | an unexplained gap gets repaired |
| Candle validation (`infrastructure/validation/candle_validation.py`) | `data_quality_event` | ingest a batch, nightly suite | boundaries of the rules, partial quarantine | bars that are not stored are quarantined, every violation is found |
| Parquet archival (`infrastructure/jobs/parquet_archival_job.py`) | `candle`, `trade_tick`, Parquet files, `dataset_version` | select, write, verify, register, delete, per month | crash between file and commit, damaged files, nightly cutoff inside a month | no row is lost; what is registered can be read |
| Dataset versions (`infrastructure/backtest/dataset_version_repository.py`) | `dataset_version` | finalize, look up | the rows move after the version is pinned | a version always loads the same rows |
| Historical feed, view, clock, loop (`infrastructure/backtest/`, `infrastructure/clock.py`, `application/backtest/loop.py`) | heap, cursors, simulated clock, counters | pull, advance, decide | ties and gaps across intervals, strict boundaries | no lookahead, nothing hidden, deterministic containment order |
| Indicators (`infrastructure/indicators/`) | running windows and averages | update by a bar; compute over a series | two implementations, warm-up, placement | both agree, neither sees the future |
| Backtest metrics (`application/backtest/metrics.py`) | none | tearsheet of a curve and its fills | reversals, several peaks, equity below zero | the sheet explains the curve |
| Run registry (`infrastructure/backtest/run_registry.py`) | `backtest_run`, `backtest_metrics`, active registry | log a run | concurrent trial counts | runs are append-only, the count never exceeds the history |
| Schema and migrations (`alembic/`, `infrastructure/db/tables/`) | the catalog, `alembic_version` | upgrade, downgrade | order of drops, leftovers, data in the way, other programs at work | the catalog is that of its revision, and that of the declared tables |
| Order lifecycle (`domain/order.py`, `order_event` in `infrastructure/db/tables/execution.py`) | immutable copies, event rows | new, transition, rebuild | stale copies, reordered events | the recorded history is one legal path |
| Position, fees, funding, fill simulation (`domain/`) | immutable values, last accrual | apply a fill, accrue, simulate | duplicates, flips, lot sizes, missed intervals | quantity and P&L agree with the fills |
| Reference data, universe snapshots (`infrastructure/jobs/`) | `instrument`, `universe_snapshot` | upsert, snapshot of a day | order of the two jobs, deaths, migrations, reruns | imports show whole, snapshots are never rewritten |

How they interact: the gap-fill stream calls the backfill job for the time it was disconnected; gap
detection calls it for each hole it finds; archival deletes what the backfill wrote and registers a
dataset version, which the backtest loader reads back through the `candle` table. A backtest builds
feed, view and clock over the rows loaded, and the loop drives them; its equity curve and fills become a
tearsheet, which the registry logs. Every job lives on the tables that the migrations build, and may be
running when a migration is. The jobs that call `BinanceRestClient` share its venue's limit per address.
Orders are created and moved by callers that the repository does not contain yet.

`PROJECT.json` lists every component, with its status, and every hazard of this code at its line.

## Modules and their correspondence to the code

Every module abstracts data (prices, identifiers, log texts) and keeps control: each early return,
error path and commit of the code is a guard or an action. Definitions commented "Seeded fault" are
variants of a definition with a plausible bug. The specification does not use them; each shows that
some property would notice that bug.

### Candle backfill: `CandleBackfill`, `BackfillContract`, `MCCandleBackfill`, `CandleBackfillProofs`

`backfill_candles` as any number of calls in any number of processes. `Begin` is the code up to the
loop (checkpoint lookup, `ts = now()`, resume point), `ShortCircuit` the early return on a completed
checkpoint, `Fetch` one `get_klines` with gap detection, `Commit` the upsert and the checkpoint with
the commit after them, `Abort` an exception or the death of the process. A row is three facts: it
exists, its `is_closed` column is TRUE, its prices are those of the finished bar. Time is counted in
bars. The venue answers with what it has at that moment, partial last bar included, while `is_closed`
is computed from the clock the call read before its first page; that is why the clock, `ts` and
`fetched_at` are three things.

`BackfillContract` is what the callers rely on: stored bars only grow, and each request is covered up
to a stored bar with nothing missing behind it. Pages, processes and crashes are invisible in it.

### Realtime feed: `GapFillStream`, `MCGapFillStream`, `GapFillStreamProofs`

`BinanceWebSocketClient`, `BinanceCandleStream` and `GapFillingCandleStream` as one state machine,
because the correctness of the third depends on the counter of the first and on what the second does
while halted. `Connect`, `Disconnect` and `Drained` are the turns of `run()`; `ReceiveClosed` and
`ReceiveOther` hand one frame to `on_message`; `StartGapFill` is the branch that halts and awaits
`gap_fill`, `GapFillSucceeds` and `GapFillFails` its two ends. During that await the clock moves, the
connection may close, and frames queue. `Publish` includes the failure of a subscriber, which kills
the connection after `last_known_bar_ts` has already moved.

### Backtest: `BacktestReplay`, `ReplayContract`, `MCBacktestReplay`, `BacktestReplayProofs`

`run_backtest` with the heap of `HistoricalFeed`, the `SimulatedClock` and the cursors of
`CursorMarketDataView`. `Pull` is `next_closed_event`, `Advance` is `advance_to` (which raises on a
step backwards) followed by `view.advance`, `OnData` the call of the strategy and the counters. The
order in which the constructor pushed the series is arbitrary. `ReplayContract` is the abstract feed:
every bar once, after every bar that it contains.

### Archival: `ParquetArchival`, `MCParquetArchival`, `ParquetArchivalProofs`

`run_nightly_archival` for one instrument. `Start` is a night's call, which fixes the cutoff; `Select`
and `SkipMonth` handle one calendar month; `Write` replaces the file, `Verify` reads it back and
compares checksums, `Commit` registers the version and runs the DELETE; `EndTable` moves from candles
to ticks. `Crash` may come anywhere; writing and reading may damage a file. Rows arrive meanwhile
(`Arrive`), also late, and `create_dataset_version` pins ranges (`Pin`). A calendar is a function from
month numbers to their first instants, so months of different lengths, retention and cutoff interact as they do
in the code. A day has `DayLength` instants and the cutoff may fall on any of them: `Day` is the `.date()` by
which a version registers its range, so that the range is wider than the window that was archived. A file,
and its content hash, is the set of its rows.

### Orders: `OrderStatuses`, `OrderContract`, `OrderLifecycle`, `MCOrderLifecycle`, `TradingProofs`

`OrderStatuses` is the transition graph and the two mappings between statuses and event types.
`OrderLifecycle` puts copies of immutable `Order` values in the hands of several holders over one
`order_event` table: `New`, `Transition` (event and insertion, or refusal by the enum or by
`UNIQUE(order_id, seq)`), and `from_events` event by event (`StartRebuild`, `Replay`, `EndRebuild`) on
any list of the rows, however reordered, repeated or cut. Holders lose their copies at any time.
The class leaves sequence numbers to its caller and the repository has no caller yet; the model
assumes one that numbers a transition one after the last event its copy has seen.
`OrderContract` is one status per order that moves one legal step at a time.

### Execution: `Position`, `PositionContract`, `SimulatedExecution`, `MCSimulatedExecution`, `TradingProofs`

`Position` is `Position.apply_fill` as operators: weighted average on the way in, realized P&L on the
way out, a fresh basis when a fill turns the position around, nothing at all for a fill whose `id` was
applied. `SimulatedExecution` produces those fills. Its five actions per order are the five ends of
`simulate_fill`, in the order of its checks: `RejectForPrecision`, `CarryForward` (no volume),
`RejectForNotional`, `RejectForMargin`, `Fill`. `Deliver` applies one fill to the position, the first
time or again, in any order; `Rederive` starts again from `Position.flat`, as `_replay_fills` of the
metrics does; `Accrue` is `FundingAccrualTracker.accrue` called at any time. The functions leave to
their caller which bar to pass, the filled quantity of the order and what a rejection means. The
repository has no such caller yet; the model's does what the comments ask of it: bars after the one of
the submission, each once, filled quantities kept, a rejection final.

A `Decimal` is an integer number of units and divisions are floored, which changes nothing as long as
the units are small enough; `ExactAverages` says when they are. `PositionContract` is an inventory and a
cash account into which each fill is booked at most once: no averages, no direction. Realized P&L less
the cost of the holding is the cash of that account, which is the sense in which a weighted average, a
FIFO and a LIFO queue agree on the total (`domain/position.py`).

### Data quality: `CandleValidation`, `DataQuality`, `MCDataQuality`, `AnalysisProofs`

`CandleValidation` is the rules as operators on sequences of candles, in the order in which they arrive:
broken OHLC, negative volume and misalignment quarantine a bar; time order, missing intervals, streaks of
zero volume and jumps of the return flag one. `DataQuality` lets four programs loose on one table. A scan
is `Detect` (the SELECT and the loop over the expected bars that groups the missing ones, `Runs`), `Record`
(`record_gaps` and its commit), per gap `Skip` (maintenance, or a completed checkpoint of exactly this
range), `Fetch` and `Commit` or `CommitRefused` (a CHECK of the table fails and the exception ends the
scan), and `Finish`. `Ingest` is
`validate_and_ingest_candles` in one transaction, `IngestRefused` its rollback when the upsert would
touch one row twice (`Retained` and `Accepts` speak of the places of a batch, since a batch may hold one
candle twice), `Suite` the nightly validation of stored rows and `Archive` the deletion of old
ones. Standard deviations are compared by their squares, over integers. `RowsOf`, the SELECT with its ORDER
BY, takes the i-th row to be the one of the stored time with rank i. No price of the venue's
bars or of a batch is below zero (`VenueAssumption`, `BatchesAssumption`); apart from that they may
be broken in any way, with a high below a low, a negative volume or an open time off the epoch's grid. The
instance's venue bars open on it, as those of every interval do but the weekly one (a week starts on a
Monday, the epoch was a Thursday); its batches also hold a bar that does not.

### REST client: `RestClient`, `MCRestClient`, `VenueProofs`

Processes with a `BinanceRestClient` and a `RateLimitTracker` each, behind one address. `Refuse` is the
two raises before a request, `Call` the signing and the first send, `Serve` the venue, `Finish`,
`EnterBackoff` and `Sleep` the branches on its answer, all after `observe()`, `Resend` the retry and
`Lose` a transport error. Times are kept as ages and remainders and not as instants, so that time needs no
bound. `signed` and `stamp_age` carry the timestamp in the URL through the retries, which send it again;
A Retry-After is a number of seconds, a date so far away, or missing, and comes with a 429, a 418 or a 5xx;
`BlockFor` is what the client makes of it, the default for all but seconds, and it reads that of a 429 only.
`owed` remembers the last wait that the client is meant to keep (`Heeded`).

### Feed watch: `FeedWatch`, `MCFeedWatch`, `VenueProofs`

The tasks of one event loop: the read loop with its reconnects (`Connects`, `ReadFrame`, `Drained`,
`MessageFails`), the heartbeat (`Ping`), the stale watchdog of the connection (`DogChecks`, `DogCloses`)
and `SymbolStalenessWatchdog` (`CheckSymbols`, `RaiseStale`, `StalePublished`, `EndCheck`). A tick of time
passes only when every task awaits something. Callbacks and publications take time, connections go
mute without closing, and frames in flight are lost on a close. `TimePasses` is the clock. `ReportWithin`
adds up what may come before a report: the silence at which a check still leaves a symbol out, a check
interval, and the publications of all the other symbols twice, in the check that left it out and in the one
that reports it. If a publication takes longer than the threshold, a symbol has been silent that long
already when its own last report ends (`Quietest`).

### Analytics: `Indicators`, `Tearsheet`, `Analytics`, `MCAnalytics`, `AnalysisProofs`

`Indicators` translates both libraries: `Update` and `Streamed` are the classes, `Batch` the vectorized
functions. `Ewm` is the definition of Polars' `ewm_mean` by weights (`Weight`, `Weighed`), so that its agreement with the
recursive `EmaStep` says something. `Tearsheet` is `compute_tearsheet`, on top of `Position`; `Sinking` is
the loop of its drawdown, point by point, and `InOrder` ranks the fills by time and then by id. `Analytics`
runs both over a backtest of any bars and trades, whose account is `cash` and `holding`. A close is positive there: at a close of 0 the streaming return raises
and the vectorized one goes on with infinity.

### Database: `Schema`, `DeclaredTables`, `Migrations`, `RunRegistry`, `UniverseSnapshots`, `Database`, `MCDatabase`, `DatabaseProofs`

`Schema` says what a statement of DDL needs (`Can`), does (`Apply`) and locks (`Locks`), and lists the
statements of the four revisions in both directions. `DeclaredTables` lists the `sa.Table` objects, written
by another hand in other files. `Migrations` runs the statements of a way through the revisions in one
transaction (`BeginMigration`, `Execute`, `Refused`, `CommitMigration`, `CrashMigration`). `RunRegistry` is
`log_backtest_run` on several connections, statement by statement (`CountTrials`, `InsertRun`,
`InsertMetrics` or `MetricsRefused`, `CommitRun`), and the UPDATE and the DELETE that the trigger refuses.
`UniverseSnapshots` is the importer, symbol by symbol up to its commit, next to the snapshot job; it locks for
writing from its first upsert on, a skipped symbol is only looked up. `Synced` is what an import promises.
`Database` composes them: a migration waits for the tables in use, the others wait for the tables it has
locked, and the rows of a dropped table go with it.

## Runs, bounds and what they show

| Run | Instance | Shows |
|---|---|---|
| `Backfill` | two processes; bars 0, 1, 2, 4 (3 never exists); requests `<<0,4>>` and `<<1,4>>`; pages of 2; clock 3 to 5 | no checkpoint passes a missing bar (`CheckpointCovers`); `is_closed` rows are finished (`ClosedIsFinal`); every hole is reported (`HolesAlerted`); the calls implement `BackfillContract`; a request made after its end has all its bars in the table at last (`EventuallyStored`) |
| `GapFill` | clock to 5 | no published candle has a silent gap behind it (`NoSilentGap`); a halt ends (`PublicationResumes`) |
| `Replay` | two one-minute series and one of two minutes, every subset of their bars, warm-up 2 | `NoLookahead`, the merge implements `ReplayContract` (`ImplementsReplay`), the run ends with every bar delivered (`ReplayEnds`) |
| `Archival` | candles at five instants and ticks at two, days of two instants, instants 0 to 7, a run in the middle of each day, months of one and two days, retention of one day, rows up to half a day late, `archive_from` within a day | what was archived is gone for good (`ArchivedIsGone`), `OnlyRegisteredIsLost`, and once faults stop all old rows leave Postgres (`EventuallyCold`) |
| `ArchivalPartial` | candles, instants 0 to 7, the same calendar and nights, no late rows | violation of `NeverLost` |
| `Orders` | one order, two holders, six events | `CopiesWereCommitted`, and the holders implement `OrderContract` |
| `Execution` | a maker's purchase and a taker's sale of two lots each, bars that allow nothing, half a lot, a lot or all, two opening prices, two balances, three bars after the submission, funding every second bar | `EntryIsFair`, `FundingOnGrid`, and the position implements `PositionContract` (`ImplementsAccount`) |
| `DataQuality` | five bar times; the venue lacks one bar and has a broken one; a maintenance window of one bar; four batches; one scanner; clock 6 to 8; archival below 4 | the gaps of a scan are the maximal runs of missing bars (`GapsAreExact`) and the holes the suite sees (`DetectorsAgree`); no ingested bar vanishes (`NeverSilentlyDropped`); the suite finds each quiet run and jump (`SuiteFindsAll`); what can be repaired is (`RepairReachesGap`) |
| `RestClient` | two clients, threshold 1, window of 2 ticks, latency 1, two attempts, Retry-After none, in 2 seconds or at a date in 2, default 1, one lost weight per window | `RespectsRetryAfter`, `OverrunIsBounded`, `SignatureIsFresh`, `LockoutEnds` |
| `FeedWatch` | two symbols, three frames, thresholds 2, checks every tick, publications of a tick, backoff 1 to 4 | lost frames are noticed (`NoSilentLoss`), silence is acted on in bounded time (`SilenceIsReported`), the feed comes back (`FeedRecovers`) |
| `Analytics` | three bars of prices 768 to 6144, one unit bought or two sold, four bars, period 2, MACD of 3, 7 and 3 | `StreamMatchesBatch`, `IndicatorsAreCausal`, `DrawdownIsWorstFall`, `TradesExplainEquity` |
| `Database` | two connections, two strategies, two symbols, three listings, two dates, targets 0, 1, 3 and 4 of four revisions, three runs and jobs together | `CatalogMatchesRevision`, `OnlyRunsBlockMigrations`, `LoggedRunsPinTheSchema`, `TrialsFollowHistory`, `ImportsAreAtomic`, `RunsAreAppendOnly` |

Type correctness is proved, for nine modules, so no run spends a property on it.

Why the bounds are enough:

* `Backfill`. Two processes are enough for any pair of commits to cross. The hole at 3 lies inside
  a page of the first request and between two pages of the second; with pages of 2 the first
  request ends on a full page and the second on a short one, and the clock lets the last bar be missing, forming or
  finished when it is fetched. A page that holds the last bar still forming can be committed after
  another process has stored that bar closed, and both requests then be completed: this run reaches
  such a state, which is why `EventuallyStored` speaks of presence alone.
* `GapFill`. Five bars allow two reconnects with frames before, between and after them, a fill that
  fails followed by one that succeeds, and a subscriber failing in each phase. `MaxTime` bounds the
  clock only; reconnects and partial frames are unbounded.
* `Replay`. Ties at one close time occur between equal intervals and between different ones, every
  series can be empty or have a hole anywhere, and there are more bars than warm-up bars. Runs end, so
  deadlock is not checked; `ReplayEnds` says where they end.
* `Archival`. Every cutoff falls within a day, one of them within the only day of a month and others within
  both days of a two-day month; the rows later on that day are still in Postgres when the version is
  registered, and so is a row before `archive_from` on the first. Candles and ticks share a path, and each
  night can crash or damage a file. The invariants that hold do not depend on the number of nights, as the
  proofs show. They need rows to be punctual: an archived row that is backfilled again is in Postgres again.
* `Orders`. Six events reach every status but `unknown`, which the table refuses, along paths in which
  a cancel crosses a partial fill and then a fill. Two holders are enough for any insertion to be
  refused. Orders share nothing, so one is enough.
* `Execution`. A purchase and a sale filled in parts, delivered in any order, open, increase, reduce,
  close and turn a position in both directions. Slippage on a half-lot bar exceeds the lower price, so
  the sale that would be filled below zero occurs, and is refused by the minimum notional. With three
  bars and an interval of two, accruals come late, early and twice on one bar. Prices are multiples of
  2^7 3^6 units, by which every average that occurs is whole (`ExactAverages` was checked on this
  instance). A simulation ends after its last bar once everything is delivered, so deadlock is not
  checked.
* `DataQuality`. Gaps of one, two and five bars, at both ends of the window and next to each other,
  inside and outside maintenance, with and without a bar that the table refuses; batches that overlap,
  quarantine, flag and are rolled back; an archival that reopens a repaired gap with the same or with
  other bounds. Repairs of two scanners differ from those of one only by what `CandleBackfill` checks.
* `RestClient`. The window of the venue and that of a tracker may be out of step by each distance,
  a tracker may forget a weight the venue still counts, and both clients may be anywhere in a call.
  With a latency of 1 the venue's wait may begin a tick before the client's. Two attempts sleep once; longer
  calls, latencies and windows have only the proofs of the three invariants. A `recvWindow` of 0 lets the venue refuse each
  signed retry as too old, so that this branch occurs.
* `FeedWatch`. Three frames give a frame lost between two others by each of the ways to lose one. With
  two symbols one may wait for the publication of the other, in one check and in the next.
* `Analytics`. Four bars are two more than the window. Every step up, step down and standstill of prices
  occurs; a position opens, adds, reduces, closes and turns. Prices are multiples of 768, which makes every
  division of the averages, the variance and the weights of a span of 7 exact. Runs end after four
  bars, so deadlock is not checked.
* `Database`. Targets 0, 1, 3 and 4 give ways of one, two and more revisions in both directions through
  all four. Two runs overlap or follow each other, of one strategy or of two; of the listings one adds a
  symbol, one changes it and each leaves one out. Connections and strategies are symmetric; no
  temporal property but a step property is checked.

## Fairness

* `Backfill`: for each request, strong fairness of "some process begins it", "some process in it
  gets a page" and "some process in it commits". The scheduler re-invokes unfinished requests, and
  a venue or database that is tried again and again answers once. It is stated per request and not
  per process: a process that dies is replaced. Nothing forbids infinitely many crashes.
* `GapFill`: weak fairness of noticing the end of a connection, of its draining and of reading
  queued frames (the loops of `run()`); strong fairness of a successful connection, a partial frame on
  live connections (the venue streams updates of the forming candle) and a successful gap-fill; weak
  fairness of a gap-fill ending either way. `Disconnect` is fair because Binance closes every
  connection within 24 hours, and it is needed: after a failed fill nothing retries until the next
  reconnect.
* `Replay`: the loop goes on.
* `Archival`: the clock advances, the scheduler starts every interval's job again and again, a job
  goes on. `EventuallyCold` speaks only of behaviours in which faults stop.
* `DataQuality`: weak fairness of a scanner's next step: the scheduler calls the scan again and again, and
  a call goes on. `RepairReachesGap` speaks only of behaviours in which scans stop dying. No ingestion,
  suite or archival is assumed to happen.
* `RestClient`: weak fairness of time, of the venue serving a request with its weight (`Latency`, the
  transport's timeout, forces it), of the client handling an answer and of the retry after a sleep. No
  client is assumed to call.
* `FeedWatch`: weak fairness of time, of the ready tasks of the event loop and of `on_message` returning;
  strong fairness of a connection, as for `GapFill`. Nothing assumes that a mute connection ever fails.

## Proofs

Theorems hold for every value of the constants that satisfies the `ASSUME`s of the component's
module, which are the validity conditions of its inputs (a range does not end before it starts, a page
limit is positive, months are increasing). `PROJECT.json` names every theorem.

* `CandleBackfillProofs`. `CheckpointCovers` alone is not inductive: a commit extends the checkpoint
  by a page fetched earlier, perhaps before other processes committed. `IInv` adds `CallInv` (all bars
  before `fetch_from` are stored, and a page in hand is what the venue had at `fetched_at`, with
  `ts <= fetched_at <= now`), and `CheckpointShape`. `ClosedIsFinal` follows from the order of those
  three times. `HolesAlerted` needs `AlertInv` in addition: holes behind `fetch_from` are reported, those
  of the page in hand too. Each commit then maps to one step of `BackfillContract`.
* `GapFillStreamProofs`. A bar is published on the strength of what the handler did long before, so
  `NoSilentGap` is strengthened by what ties `last_known_bar_ts` to the place in the stream:
  `KnownBounds`, `NoGapBehindKnown`, `KnownDelivered` (the last known bar was delivered, or the
  connection it failed on is gone and the next fill starts from it) and `FillInFlight`. The proof shows
  why starting the fill at the last known bar itself, not after it, is essential.
* `BacktestReplayProofs`. The heart is `Ordered`: no bar still to come sorts before a delivered one,
  because the heap always holds the first remaining bar of each series (`HeapShape`). Lookahead safety,
  completeness of the view, the monotone clock and the refinement of `ReplayContract` follow.
* `ParquetArchivalProofs`. In layers, so that each theorem states what it needs. Without conditions:
  types and `RecentStaysHot`. When no row arrives later than the retention (`Punctual`):
  `DeletionFollowsExport`, `ArchivedIsGone`, `OnlyRegisteredIsLost`, from `JobInv` (between SELECT and
  DELETE the partition does not change) and `GoneInv`, which adds how far the content and the last date of a
  version lie behind the clock, so that no row to come falls into it; dates follow the order of instants
  (`DayMonotone`). No theorem says that nothing is lost: the job as it is scheduled loses rows, as the
  violation below shows.
* `TradingProofs`, orders. History stays legal because it is numbered without gaps (`Contiguous`) and
  every copy, however stale, is somewhere on it (`CopiesWereCommitted`): the only row a holder can insert
  is then the next of the newest copy. With `RebuildsCommitted` this is inductive (`LifecycleInv`), and each
  insertion is one step of `OrderContract`.
* `TradingProofs`, execution. A fill has a positive price only because the notional of anything fillable
  was compared with a positive minimum (`NewFillFacts`). `EntryIsFair` follows from `MeanBounds`, a mean
  lies between its arguments, rounded or not: the fills that bound the old average remain on the side
  held, or the new fill itself is the bound. `BookCash` is the arithmetic of a booking: through
  additions, reductions and reversals alike, the cash changes by the signed cost of the fill and its fee.
  It needs the average not to be rounded, so the refinement is proved under `[]ExactAverages`; with
  28-digit decimals the account holds up to that rounding.
* `VenueProofs`, REST client. `RespectsRetryAfter` speaks of the header of a 429, in seconds or as a date no
  further away than the default, which is all that the client keeps. It needs to know where what is owed is known: on its way in
  the answer, or as the local block of an idle client (`Waits`). It holds although the client counts from the
  arrival of the answer, because the arrival is the later moment. `SignatureIsFresh` needs what a call has
  spent when it sleeps (`Fresh`); the sleeps are the partial sums of an arithmetic series, whose halves
  `HalfProduct` adds up. `OverrunIsBounded` is an amortized bound (`OverrunIsPaid`): a client has a token for
  each request that the venue may still charge to its window (`Credit`), one call with its retries until it
  knows that the threshold is reached, and another one if its tracker's window ends inside the venue's. Each
  charge beyond the threshold spends a token, or is one whose weight was lost. All three hold for any number
  of clients and attempts and any latency.
* `VenueProofs`, feed watch. `NoSilentLoss` follows from the two numbers being equal whatever connection
  they come from (`LossesAreNoticed`). `SilenceIsReported` needs what every task has left to wait:
  `DogIsAwake` ties the silence of a connection to the timer of its watchdog, and `IsAwaited` bounds the
  silence of a symbol by the publications that the check under way has still to make. With `SymbolStale`
  in the place of `Quietest` the bound is false for a publication longer than that threshold.
* `DatabaseProofs`. `ImportsAreAtomic` is about more than the commit: an import reads the instrument table,
  and a migration that dropped and created it in the meantime would leave it an import of nothing. That
  cannot happen, because what a migration has dropped it has locked (`DropsAreLocked`, from `ApplyKeeps`
  and `DropLocks`: a statement removes no table but the one that it locks), and an open import uses its table
  (`ImporterKeepsTable`). With `DraftIsPartial` and `DraftIsReported`, what an import has done so far, this is
  inductive, and what all entries together have done is what an import promises, listing dates included
  (`PartialIsSynced`). `LoggedRunsPinTheSchema` follows a migration statement by statement (`PinInv`): of all statements
  of the four revisions only one makes the metrics nullable and only one takes it back (`BaselineIsTame`,
  `UpgradesAreTame`, `DowngradesAreTame`), so that the metrics accept a NULL at the head only; what has come
  down from there has met no run and keeps the table locked. From it, `RunsAreAppendOnly`: the trigger is
  there whenever a run is. `TrialsFollowHistory` needs what an open transaction counted (`TrialInv`), and that a
  fresh identifier exists, hence the finite set of connections and the bound on runs (`RegistryAssumption`).
  `CatalogMatchesRevision` and `OnlyRunsBlockMigrations` come from one invariant on top (`CatalogInv`): the
  committed catalog is what its revision builds, and a running migration works on what the statements it has
  run make of that. It is inductive because every script leads from one revision's catalog to the next
  and every statement of it can run where it stands (`Leads`, `Chain`). For the 41 statements of the baseline
  and the 38 of its downgrade that is an induction over the script: the tables made so far are those of
  `DropOrder` from some place on (`Made`), each refers to its own place or later ones (`WellMade`), so each can
  be created after and dropped before the ones it refers to. The three later revisions add to a catalog that is
  closed under its references, and take back what they added (`RevisionGrows`, `RegistryLeads`). At the head
  the tables are compared with the declared ones, one by one (`HeadIsDeclared`, `TypesDeclared`).
* `AnalysisProofs` is about loops over a series: the gap scan, the suite, the running totals, the drawdown and
  the replay of the fills. The library's induction theorems take an operator as a parameter, which the provers cannot instantiate; so
  induction is made here from the well-foundedness of the naturals. `InductionTo` is induction up to n on a
  set, `RecursionExists` and `SameLoop` say that the equations of a loop have a solution and that the function
  chosen to satisfy them is one. A fold of the community modules is a function chosen on the subsets of its
  domain: `FoldExists` finds it by induction on their size and `FoldedLoop` reads it as a loop over an interval.
  On top of these:
  * `GapsAreExact`. The runs found among the first k expected bars cover exactly the missing ones of these,
    in order and more than a step apart; the last one ends at the last missing bar.
  * `NeverSilentlyDropped`. Every bar offered is a row or quarantined, through upserts, rollbacks and archival.
  * `DetectorsAgree` and `SuiteFindsAll` rest on one invariant, `RowsInv`: every row passes the
    CHECKs, is kept under its own time and, if the venue's bars are (`VenueOnGrid`), is on the grid, and every page in hand holds bars of the venue. Then `RowsOf` is the
    stored times in order (`EveryRank`, `RowsInOrder`), a row comes more than a step after the one before it
    exactly if a gap of the scan ends just before it (`HoleBeforeRow`, from the invariant of the scan), the counting
    fold flags the quiet runs that reach the threshold (`CountMeetsThreshold`, `StreaksFound`), and the sum of
    squared deviations is n times the sum of squares less the square of the sum (`DeviationsAndSquares`,
    `MovesFound`). `DetectorsAgree` is proved for venue bars and windows that are on the grid, so not for weekly
    bars: the scan counts its slots from the start of the window, and off the grid every slot would be missing.
    `StoredRowsBreakAlignmentOnly` follows from the same invariant, for all intervals.
  * `DrawdownIsWorstFall`. After k points the loop knows their highest, and its drawdown is the worst fall among
    them (`FallInv`); one more point is compared with the peak only, which is enough since a fall from a lower
    point is a smaller part of it (`PeakFallsMost`), as long as the point is not below zero.
  * `IndicatorsAreCausal`. Each vectorized function, over a series and over a longer one, agrees as far as the
    shorter reaches: a running total by induction (`CumsumAgrees`), all others from their values at a place and
    the one before.
  * `WindowsMatchTheSeries`, the part of `StreamMatchesBatch` about the average, the RSI, the true range and
    both variances, warm-up included: each window holds the last `Period + 1` running totals of its
    series (`WindowOf`, `StreamInv`), and what a bar appends to the series is what it pushes.
  * `StreamMatchesBatch` as a whole, where no division has a remainder (`ExactDivisions`, a state predicate
    that every state of the instance satisfies; in the code the equality is one up to the rounding of floats).
    The weighed sum at the next bar is `span - 1` times the one before plus twice `span + 1` to a power times
    the new value (`WeighedSteps`), since each weight is `span - 1` times what it was. Divided by the next power
    of `span + 1`, that is the step of the streaming average (`EwmSteps`, `AppendedEwm`), for the MACD line as
    for the closes, so that the streaming averages are the last values of the series (`AveragesInv`). The sums
    over `FoldFunction` become running totals by `SummedIsSum` and `SummedLoop`. The squared deviations of a
    window add up, value by value, to the sum of the squares less the period times the square of the mean (`WindowDeviations`);
    with that sum not negative, the clamp at 0 is idle and the shortcut is the variance (`VarianceShortcut`).
  * `TradesExplainEquity`. `compute_tearsheet` starts again from the first fill, so the invariant is about the
    replay of the fills booked so far (`Sofar`): it holds the position of the account, its realized result is that
    of its trades less the fees of the fills that opened or added, and its days are the bars that began with a
    position (`ReplayAgrees`); and its cash is what the account has gained or spent (`CashInv`, by `BookedCash`, as
    for the execution). A new fill is later than all others, so it comes last in the replay (`LaterFillIsLast`,
    `OneMoreFill`) and leaves the earlier ones what they were (`OpenedOnce`, `InvestedOnce`). Sums over a set of
    fills need that the order of the addends does not matter (`SumExists`). Proved, like the refinement of the
    execution, for runs that round no average (`ExactFills`); the instance has only such runs, and in the code
    the equation holds up to the rounding of 28-digit decimals.

Proved without a passing run: `TypeCorrect` and its kin, `CompletedIsSafe`, `ReadyWhileLive`,
`ViewIsComplete`, `ClockIsMonotone`, `WarmupStaysSilent`, `RecentRowsStay`, `DeletedRowsWereExported`,
`HistoryStaysLegal`, `NeverOverfilled`,
`EveryChangeIsReported`, `HistoryIsFrozen` and `StoredRowsBreakAlignmentOnly`. The runs
go to questions that have no proof, or whose proof rests on a strengthening of them.

## Only model-checked

* Liveness under fairness, which the prover does not reach: `EventuallyStored`, `PublicationResumes`,
  `ReplayEnds`, `EventuallyCold`, `RepairReachesGap`, `LockoutEnds`, `FeedRecovers`.
* `StreamMatchesBatch` for prices whose divisions have remainders has no meaning in the model, which has no
  fractions: the theorem excludes them, and the instance has none.
* The violation is a counterexample and needs no proof.

## Divergences between code and documentation

One has a run, and `PROJECT.json` quotes its lines: the nightly cutoff moves inside a month while the path
names only the month, and each night's file replaces the rows exported the night before
(`ArchivalPartial`).

Seen while modelling, without a run of their own.

Where a document, docstring or comment says otherwise:

* A range that reaches the present is marked completed with its last bar missing or partial; a later call
  does nothing, though the module says it would find identical data (`ohlcv_backfill_job.py:33-35`).
* Candles received live are published but stored nowhere, so the table has holes between the gap-fills
  of two reconnects (`docs/TASKS.md:354` asks for none).
* The dates a version is registered under are whole days, and the cutoff falls within the last of them
  (`parquet_archival_job.py:239-240`): its later rows are still in Postgres, where `docs/TASKS.md:382` expects
  none of the archived date range.
* Weekly bars are never aligned to the epoch. Ingestion quarantines every one, but a backfill and a repair
  store them unchecked (`ohlcv_backfill_job.py:84`), and the nightly suite then quarantines each stored row every
  night, though it says that it can "only ever surface the sequence-level checks"
  (`candle_validation.py:453-456`; theorem `StoredRowsBreakAlignmentOnly`).
* Archival moves the rows of a pinned dataset version where its loader does not look
  (`historical_feed.py:209`).
* A partial fill that crosses a cancel request makes the confirmation of the cancel illegal
  (`docs/ARCHITECTURE.md:754` says that this race is handled).
* A bar with little volume rejects an order that is large enough: the minimum notional is compared with
  the part that the bar can fill, and a part that is no multiple of the lot leaves a rest that is
  rejected for its precision (`fill_simulation.py:82-83`).
* `alembic downgrade -1` (`docs/TASKS.md:188`) stops at SET NOT NULL once a run is logged, whose metrics
  always hold a NULL.
* `BacktestRunRegistry` calls itself reentrant-safe (`run_registry.py:38-40`) but keeps its token on
  itself, so that nesting one object loses the outer token.
* The drawdown duration is the longest time below a peak that was ever reached, also while the equity
  equals it, and not that of the deepest drawdown (`metrics.py:233-236`).

Other behaviour worth knowing:

* Backfill: a request that ends exactly on a full page stays `in_progress` for ever; an older page
  committed late writes a finished, closed bar back as partial and not closed
  (`ohlcv_backfill_job.py:206`), and once both requests are completed no later call repairs it (`:253`).
* Backtest: the loader does not filter on `is_closed`; a subscribed handler is awaited before the clock moves
  and sees the previous present (`historical_feed.py:173`).
* Archival: candles of all intervals and ticks share one path per month; a row that arrives later than the
  retention can be deleted unexported, since the DELETE evaluates its predicate again
  (`parquet_archival_job.py:307`); two jobs of one symbol at once may each verify the other's file (`:275`).
* Orders and positions: the event-type enum has no `unknown`; `from_events` does not compare order
  identifiers and rebuilds an order with nothing filled; the margin check leaves out the fee; two orders on
  one bar may each take its whole volume; a position recognises a repeated fill by `id` and not by
  `venue_fill_id`; funding of missed intervals is charged on the position and the price of the late call.
* REST client: a retry asks neither the block nor the tracker; a 418 enters no backoff (`client.py:172`); a
  header's date counts as 60 seconds, however far away it is (`:236-244`), and that of a 418 or a 5xx is not read; a
  lost answer leaves the tracker uninformed; the tracker forgets a weight learnt a moment ago when the
  window that began with its first observation ends.
* WebSocket client: `attempt` never goes back after a success, so delays only grow; a slow `on_message` makes
  a live connection look stale; after a restart of the process nothing fills the gap at the first connection.
  An event bus that raises kills the watchdog's task without a trace.
* Gap detection and validation: a malformed bar of the venue ends the scan and the repair of all later
  gaps; a repeated open time in a batch rolls back the record of its violations; a gap that only touches
  a maintenance window is never fetched; a scan window that is not
  aligned reports everything missing; a quarantined bar is reported missing by the next scan.
* Registry: prior trials are counted without a lock, so overlapping runs carry one number; neither
  `backtest_metrics` nor a TRUNCATE meets the trigger.
* Reference data: an instrument that vanishes from the venue's response keeps its status; a capture for a
  past date adds the instruments listed since; one without instruments leaves its transaction open; the
  alerts of an import that is rolled back have been emitted.
* Indicators: at a bar that follows a close of 0 the streaming volatility raises, the vectorized one returns
  infinity (`incremental/indicators.py:332`).
* Metrics: the fees of opening fills are in no trade's P&L; a final equity below zero is accepted while one
  before it raises.

## Not modelled

* Response models, domain values (instruments, money, candles), ports, the strategy interface: stateless
  values, interfaces, and a lookup table.
* Observability, secrets, lint scripts: I/O without a protocol.
* Rounding: Decimals and floats are integers in units that make the divisions exact, so neither the
  rounding of a Sharpe ratio's deviation (`metrics.py:335`) nor the cancellation in a running sum of floats
  (`vectorized/indicators.py:163`) is visible. Roots, powers and annualization are left out.
* Columns without a key, a reference, an enum, a NULL or a named check; defaults and indexes; the bodies of
  named checks, except those of `candle`.
* Two archival jobs at once, two imports at once, nested registries; two instruments in the jobs over candles,
  which share no file and no row.
* Slippage models other than the default.
* Jitter, except that it is at most half of a delay; pongs that are late.
* Isolation anomalies inside one transaction: each group of statements that ends in a commit is one action,
  where the code commits once; `RunRegistry` and `UniverseSnapshots` are finer, since their statements are
  what races.

## Plan

The first ten steps of the original plan exist: the backfill, the gap-fill stream, the replay, the archival,
the orders, data quality (`GapScan`), the execution, the REST client, the feed watch and the database
(`UniverseHistory`, `RunRegistry`). What a further step could add, in this order:

1. Larger instances: a third attempt or a longer window in `RestClient`, two scanners in `DataQuality`, which each take longer
   than a run is given here.
