--------------------------- MODULE CandleBackfill ---------------------------
(***************************************************************************)
(* The chunked, resumable OHLCV backfill of                                *)
(* infrastructure/jobs/ohlcv_backfill_job.py: any number of processes run  *)
(* backfill_candles against one Postgres database and one venue.  Time is  *)
(* counted in candle intervals: bar b opens at b and closes at b + 1, so   *)
(* interval_to_timedelta is the constant 1.                                *)
(*                                                                         *)
(* A row of the candle table is abstracted to the three facts the code     *)
(* and its readers tell apart: that it exists (candle), that its is_closed *)
(* column is TRUE (is_closed), and that its prices are those of the        *)
(* finished bar rather than of a bar still forming when the venue          *)
(* answered (final).                                                       *)
(***************************************************************************)
EXTENDS Integers, FiniteSets

CONSTANTS
  Workers,      \* processes that may call backfill_candles
  Ranges,       \* the <<range_start, range_end>> requests they are given
  VenueBars,    \* open times the venue has a bar for, now or in the future
  ChunkSize,    \* chunk_size, the page limit of one REST request
  StartTime,    \* the time at which the history begins
  MaxTime       \* bound on the clock

ASSUME WorkersAssumption == Workers # {}
ASSUME RangesAssumption  ==
  Ranges # {} /\ Ranges \subseteq {r \in Nat \X Nat : r[1] <= r[2]}
ASSUME VenueAssumption   == VenueBars \subseteq Nat
ASSUME ChunkAssumption   == ChunkSize \in Nat \ {0}
ASSUME TimeAssumption    == StartTime \in Nat /\ MaxTime \in Nat /\ StartTime <= MaxTime

VARIABLES
  now,          \* wall clock, shared by the host and the venue
  candle,       \* open times with a row in the candle table
  is_closed,    \* those whose is_closed column is TRUE
  final,        \* those whose row holds the finished bar
  checkpoint,   \* candle_backfill_checkpoint, one row per request
  alerts,       \* (before, after) pairs logged as candle_gap_detected
  pc,           \* where each call is: "idle", "fetching" or "committing"
  range,        \* the request each call serves
  ts,           \* now() as each call read it, once, when it began
  fetch_from,   \* where the next page starts
  klines,       \* the page a call received and has not committed
  fetched_at    \* when the venue served that page

database == <<candle, is_closed, final, checkpoint>>
calls    == <<pc, range, ts, fetch_from, klines, fetched_at>>
vars     == <<now, database, alerts, calls>>
-----------------------------------------------------------------------------
(* No bar: the NULL of last_completed_open_time. *)
NoBar == -1

NoCheckpoint == [status |-> "absent", last |-> NoBar, updated_at |-> 0]

Open(t) == {b \in VenueBars : b <= t}

(* GET /klines: the oldest bars opened by t in [from, to], at most limit. *)
IsPage(k, from, to, t) ==
  LET avail == Open(t) \cap (from .. to) IN
    /\ k \subseteq avail
    /\ Cardinality(k) <= ChunkSize
    /\ k = avail \/ Cardinality(k) = ChunkSize
    /\ \A a \in avail, b \in k : a < b => a \in k

LastOf(k) == CHOOSE b \in k : \A a \in k : a <= b

(* find_gaps: consecutive bars, the previous chunk's last one included,    *)
(* that are more than one step apart.                                      *)
FindGaps(k, previous) ==
  LET seen == k \cup ({previous} \ {NoBar}) IN
    {p \in seen \X k : /\ p[2] - p[1] > 1
                       /\ \A c \in seen : ~ (p[1] < c /\ c < p[2])}

(* Seeded faults: resuming one bar late, or from the start. *)
ResumeLate(r)  == IF checkpoint[r].last # NoBar THEN checkpoint[r].last + 2 ELSE r[1]
ResumeNever(r) == r[1]

(* Where a call starts to fetch: after the last committed bar. *)
ResumePoint(r) ==
  IF checkpoint[r].last # NoBar THEN checkpoint[r].last + 1 ELSE r[1]

(* ts = now(), read once per call. *)
CallTime(r) == now

(* Seeded fault: a bar counts as closed as soon as it has opened. *)
ClosedAtOpen(b, t) == b <= t

(* A bar is closed once its whole interval has elapsed. *)
ClosedAt(b, t) == b + 1 <= t

(* A page shorter than the limit is the last one. *)
ShortPage(k) == Cardinality(k) < ChunkSize
-----------------------------------------------------------------------------
Init ==
  /\ now = StartTime
  /\ candle = {} /\ is_closed = {} /\ final = {}
  /\ checkpoint = [r \in Ranges |-> NoCheckpoint]
  /\ alerts = {}
  /\ pc = [w \in Workers |-> "idle"]
  /\ range = [w \in Workers |-> CHOOSE r \in Ranges : TRUE]
  /\ ts = [w \in Workers |-> 0]
  /\ fetch_from = [w \in Workers |-> 0]
  /\ klines = [w \in Workers |-> {}]
  /\ fetched_at = [w \in Workers |-> 0]

Tick ==
  /\ now < MaxTime
  /\ now' = now + 1
  /\ UNCHANGED <<database, alerts, calls>>

(* A call whose checkpoint is "completed" returns at once. *)
ShortCircuit(w, r) ==
  /\ pc[w] = "idle"
  /\ checkpoint[r].status = "completed"
  /\ UNCHANGED vars

(* Otherwise it reads the clock and starts where the checkpoint ends. *)
Begin(w, r) ==
  /\ pc[w] = "idle"
  /\ checkpoint[r].status # "completed"
  /\ pc' = [pc EXCEPT ![w] = IF ResumePoint(r) <= r[2] THEN "fetching" ELSE "idle"]
  /\ range' = [range EXCEPT ![w] = r]
  /\ ts' = [ts EXCEPT ![w] = CallTime(r)]
  /\ fetch_from' = [fetch_from EXCEPT ![w] = ResumePoint(r)]
  /\ UNCHANGED <<now, database, alerts, klines, fetched_at>>

(* Seeded fault: find_gaps forgets the boundary to the previous chunk. *)
NoPreviousOpenTime(w) == NoBar

(* The bar before fetch_from that find_gaps compares the page with. *)
PreviousOpenTime(w) ==
  IF fetch_from[w] = range[w][1] THEN NoBar ELSE fetch_from[w] - 1

(* One page arrives.  An empty page ends the call and saves nothing. *)
Fetch(w) ==
  /\ pc[w] = "fetching"
  /\ \E k \in SUBSET Open(now) :
       /\ IsPage(k, fetch_from[w], range[w][2], now)
       /\ klines' = [klines EXCEPT ![w] = k]
       /\ alerts' = alerts \cup FindGaps(k, PreviousOpenTime(w))
       /\ pc' = [pc EXCEPT ![w] = IF k = {} THEN "idle" ELSE "committing"]
  /\ fetched_at' = [fetched_at EXCEPT ![w] = now]
  /\ UNCHANGED <<now, database, range, ts, fetch_from>>

(* The upsert and the checkpoint, committed in one transaction. *)
Commit(w) ==
  LET k     == klines[w]
      r     == range[w]
      next  == LastOf(k) + 1
      last  == ShortPage(k) \/ next > r[2]
  IN
  /\ pc[w] = "committing"
  /\ candle' = candle \cup k
  /\ is_closed' = (is_closed \ k) \cup {b \in k : ClosedAt(b, ts[w])}
  /\ final' = (final \ k) \cup {b \in k : b + 1 <= fetched_at[w]}
  /\ checkpoint' = [checkpoint EXCEPT ![r] =
       [status     |-> IF last THEN "completed" ELSE "in_progress",
        last       |-> LastOf(k),
        updated_at |-> ts[w]]]
  /\ fetch_from' = [fetch_from EXCEPT ![w] = next]
  /\ pc' = [pc EXCEPT ![w] = IF last THEN "idle" ELSE "fetching"]
  /\ klines' = [klines EXCEPT ![w] = {}]
  /\ fetched_at' = [fetched_at EXCEPT ![w] = 0]
  /\ UNCHANGED <<now, alerts, range, ts>>

(* get_klines or the database raises, or the process is killed: the open   *)
(* transaction is rolled back and the call is gone, its variables too.     *)
Abort(w) ==
  /\ pc[w] # "idle"
  /\ pc' = [pc EXCEPT ![w] = "idle"]
  /\ klines' = [klines EXCEPT ![w] = {}]
  /\ ts' = [ts EXCEPT ![w] = 0]
  /\ fetch_from' = [fetch_from EXCEPT ![w] = 0]
  /\ fetched_at' = [fetched_at EXCEPT ![w] = 0]
  /\ UNCHANGED <<now, database, alerts, range>>

Next ==
  \/ Tick
  \/ \E w \in Workers, r \in Ranges : ShortCircuit(w, r) \/ Begin(w, r)
  \/ \E w \in Workers : Fetch(w) \/ Commit(w) \/ Abort(w)

Spec == Init /\ [][Next]_vars

(* The scheduler keeps re-invoking unfinished requests, and a REST call or *)
(* a commit that is attempted again and again is not refused forever.      *)
Fairness ==
  \A r \in Ranges :
    /\ SF_vars(\E w \in Workers : Begin(w, r))
    /\ SF_vars(\E w \in Workers : range[w] = r /\ Fetch(w))
    /\ SF_vars(\E w \in Workers : range[w] = r /\ Commit(w))

FairSpec == Spec /\ Fairness
-----------------------------------------------------------------------------
Expected(from, to) == VenueBars \cap (from .. to)

Checkpoints ==
  [status : {"absent", "in_progress", "completed"},
   last : Nat \cup {NoBar}, updated_at : Nat]

(* Every variable holds a value of its type: rows are bars the venue has   *)
(* opened, and every call serves a request of Ranges.                      *)
TypeOK ==
  /\ now \in StartTime .. MaxTime
  /\ candle \subseteq Open(now) /\ is_closed \subseteq candle /\ final \subseteq candle
  /\ checkpoint \in [Ranges -> Checkpoints]
  /\ alerts \subseteq Nat \X Nat
  /\ pc \in [Workers -> {"idle", "fetching", "committing"}]
  /\ range \in [Workers -> Ranges]
  /\ ts \in [Workers -> Nat]
  /\ fetch_from \in [Workers -> Nat]
  /\ klines \in [Workers -> SUBSET Open(now)]
  /\ fetched_at \in [Workers -> Nat]

(* Resuming from a checkpoint loses nothing: every bar the venue has from  *)
(* range_start up to last_completed_open_time is in the candle table,      *)
(* whatever crashed and however calls for overlapping ranges interleaved.  *)
CheckpointCovers ==
  \A r \in Ranges : checkpoint[r].status # "absent" =>
    /\ checkpoint[r].last \in r[1] .. r[2]
    /\ Expected(r[1], checkpoint[r].last) \subseteq candle

(* Short-circuiting a "completed" request is right for a range that had    *)
(* ended when the completing call began: all its bars are stored.          *)
CompletedIsComplete ==
  \A r \in Ranges :
    checkpoint[r].status = "completed" /\ r[2] <= checkpoint[r].updated_at
      => Expected(r[1], r[2]) \subseteq candle

(* is_closed is never TRUE on a row whose prices were read while the bar   *)
(* was still forming, although the clock is read before the venue answers  *)
(* and the row is written after.                                           *)
ClosedIsFinal == is_closed \subseteq final

(* Every hole of the venue's data between two bars a checkpoint has passed *)
(* was logged as candle_gap_detected, also when it straddles two chunks or *)
(* a restart between them.                                                 *)
HolesAlerted ==
  \A r \in Ranges : checkpoint[r].status # "absent" =>
    \A a, b \in Expected(r[1], checkpoint[r].last) :
      b - a > 1 /\ Expected(a + 1, b - 1) = {} => <<a, b>> \in alerts

(* The interleaved calls, their crashes and restarts implement the abstract *)
(* backfill: each commit covers its request up to a stored bar, and no     *)
(* other step is visible in the database.                                  *)
Contract == INSTANCE BackfillContract WITH
  stored     <- candle,
  covered_to <- [r \in Ranges |->
                   IF checkpoint[r].status = "absent" THEN r[1] - 1 ELSE checkpoint[r].last]

ImplementsContract == Contract!Spec

Unstarted(r) ==
  /\ checkpoint[r].status = "absent"
  /\ \A w \in Workers : pc[w] = "idle" \/ range[w] # r

(* A request first made after its last bar closed has all its bars in the *)
(* table in the end, however often the process dies: each restart resumes  *)
(* where the last commit ended.  Only their presence is promised: a call   *)
(* of another request that holds an older page may still write a bar back  *)
(* as partial and not closed, and no later call repairs it.                *)
EventuallyStored ==
  \A r \in Ranges :
    (Unstarted(r) /\ r[2] < now) ~> (Expected(r[1], r[2]) \subseteq candle)

=============================================================================
