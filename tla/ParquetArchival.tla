-------------------------- MODULE ParquetArchival --------------------------
(***************************************************************************)
(* The nightly move of one instrument's rows from Postgres to Parquet:     *)
(* run_nightly_archival of infrastructure/jobs/parquet_archival_job.py,    *)
(* while rows keep arriving, dataset versions are finalized over them, and *)
(* the job crashes, or writes or reads back a damaged file.                *)
(*                                                                         *)
(* A day has DayLength instants, and the job's cutoff may fall on any of   *)
(* them.  A row is a <<series, instant>>, a series being an interval of    *)
(* the candle table or the tick table.  The Parquet bytes, and so their    *)
(* SHA-256, are a function of the rows of a file: a file is the set of its *)
(* rows.  One job runs at a time.                                          *)
(***************************************************************************)
EXTENDS Integers, FiniteSets

CONSTANTS
  Intervals,   \* the candle intervals archived
  Ticks,       \* the trade_tick table
  Recorded,    \* the rows that may ever be stored
  DayLength,   \* the instants of a day
  MonthStart,  \* the instant each calendar month begins
  LastMonth,   \* the last month of the model
  ArchiveFrom, \* archive_from
  Retention,   \* retention_days
  Nights,      \* when the job runs
  MaxLag,      \* how late after its instant a row may still arrive
  Pins,        \* the <<series, first day, last day>> datasets finalized
  MaxTime      \* bound on the clock

Series == Intervals \cup {Ticks}
Months == 0 .. LastMonth
Rows   == Series \X (0 .. MaxTime)

(* The content of a damaged file: not a set of rows. *)
Torn == {<<Ticks, -1>>}

ASSUME SeriesAssumption == Ticks \notin Intervals /\ Recorded \subseteq Rows
ASSUME DayAssumption    == DayLength \in Nat \ {0}
ASSUME MonthAssumption  ==
  /\ LastMonth \in Nat
  /\ MonthStart \in [0 .. LastMonth + 1 -> Nat]
  /\ \A i, j \in 0 .. LastMonth + 1 : i < j => MonthStart[i] < MonthStart[j]
  /\ MonthStart[0] = 0 /\ MaxTime <= MonthStart[LastMonth + 1]
ASSUME TimeAssumption   ==
  /\ ArchiveFrom \in Nat /\ Retention \in Nat /\ MaxLag \in Nat /\ MaxTime \in Nat
ASSUME PinsAssumption   == Pins \subseteq Series \X Nat \X Nat

VARIABLES
  now,        \* the wall clock
  rows,       \* the rows in Postgres
  files,      \* venue/symbol/year/month/data.parquet: the rows of each file
  versions,   \* dataset_version rows registered by the archival
  pinned,     \* dataset_version rows finalized by create_dataset_version
  pc,         \* the job: "idle", "select", "write", "verify" or "commit"
  table,      \* the series being archived
  month,      \* the month being archived
  cutoff,     \* now - retention_days when the job began
  selected    \* the rows it selected

job  == <<pc, table, month, cutoff, selected>>
vars == <<now, rows, files, versions, pinned, job>>
-----------------------------------------------------------------------------
(* .date() of an instant. *)
Day(t) == t \div DayLength

Cutoff(t) == t - Retention

WindowStart(m) == IF MonthStart[m] < ArchiveFrom THEN ArchiveFrom ELSE MonthStart[m]
WindowEnd(m)   == IF MonthStart[m + 1] < cutoff THEN MonthStart[m + 1] ELSE cutoff

InWindow(t, m) == WindowStart(m) <= t /\ t < WindowEnd(m)

(* The SELECT of a partition. *)
Partition(s, m) == {r \in rows : r[1] = s /\ InWindow(r[2], m)}

(* Seeded fault: a DELETE that stops an instant early. *)
DeletableNotLast(s, m)  == {r \in rows : r[1] = s /\ InWindow(r[2] + 1, m)}

(* What the DELETE removes: by the same predicate, evaluated again. *)
Deletable(s, m) == {r \in rows : r[1] = s /\ InWindow(r[2], m)}

(* Seeded fault: the checksum is not compared. *)
AnyChecksum(f) == TRUE

ChecksumOk(f) == f = selected

NextMonth(m) == m + 1

(* Seeded fault: the ticks are forgotten. *)
CandlesOnly(s) == FALSE

TicksToDo(s) == s \in Intervals

(* on_conflict_do_nothing: a version is identified by its content. *)
Register(v, table_) ==
  IF \E u \in table_ : u.content = v.content THEN table_ ELSE table_ \cup {v}
-----------------------------------------------------------------------------
Init ==
  /\ now = 0 /\ rows = {} /\ versions = {} /\ pinned = {}
  /\ files = [m \in Months |-> {}]
  /\ pc = "idle" /\ table = Ticks /\ month = 0 /\ cutoff = 0 /\ selected = {}

Tick ==
  /\ now < MaxTime
  /\ now' = now + 1
  /\ UNCHANGED <<rows, files, versions, pinned, job>>

(* A row is stored, at its instant or up to MaxLag late; an archived row   *)
(* may be backfilled again.                                                *)
Arrive(r) ==
  /\ now - MaxLag <= r[2] /\ r[2] <= now
  /\ r \notin rows
  /\ rows' = rows \cup {r}
  /\ UNCHANGED <<now, files, versions, pinned, job>>

(* create_dataset_version, over the rows its caller finds in Postgres, once *)
(* the last of the range has arrived.                                      *)
Pin(p) ==
  LET content == {r \in rows : r[1] = p[1] /\ p[2] <= Day(r[2]) /\ Day(r[2]) <= p[3]} IN
  /\ content # {}
  /\ p[3] < Day(now - MaxLag)
  /\ pinned' = Register([series |-> p[1], from |-> p[2], to |-> p[3], content |-> content],
                        pinned)
  /\ UNCHANGED <<now, rows, files, versions, job>>

Start(i) ==
  /\ pc = "idle" /\ now \in Nights
  /\ pc' = "select" /\ table' = i /\ month' = 0 /\ cutoff' = Cutoff(now)
  /\ UNCHANGED <<now, rows, files, versions, pinned, selected>>

(* The months of a table are done: archive_trade_ticks follows, or the job *)
(* ends.                                                                   *)
EndTable ==
  /\ pc = "select" /\ MonthStart[month] >= cutoff
  /\ \/ TicksToDo(table) /\ pc' = "select" /\ table' = Ticks
     \/ ~ TicksToDo(table) /\ pc' = "idle" /\ table' = table
  /\ month' = 0
  /\ UNCHANGED <<now, rows, files, versions, pinned, cutoff, selected>>

(* No rows left in the month: it is taken for archived. *)
SkipMonth ==
  /\ pc = "select" /\ MonthStart[month] < cutoff
  /\ Partition(table, month) = {}
  /\ month' = NextMonth(month)
  /\ UNCHANGED <<now, rows, files, versions, pinned, pc, table, cutoff, selected>>

Select ==
  /\ pc = "select" /\ MonthStart[month] < cutoff
  /\ Partition(table, month) # {}
  /\ selected' = Partition(table, month)
  /\ pc' = "write"
  /\ UNCHANGED <<now, rows, files, versions, pinned, table, month, cutoff>>

(* write_bytes replaces the file of the month, whatever it held. *)
Write(ok) ==
  /\ pc = "write"
  /\ files' = [files EXCEPT ![month] = IF ok THEN selected ELSE Torn]
  /\ pc' = "verify"
  /\ UNCHANGED <<now, rows, versions, pinned, table, month, cutoff, selected>>

(* read_bytes, which may itself return damaged bytes, and the checksum. *)
Verify(ok) ==
  LET read == IF ok THEN files[month] ELSE Torn IN
  /\ pc = "verify"
  /\ \/ ChecksumOk(read) /\ pc' = "commit" /\ UNCHANGED <<month, selected>>
     \/ /\ ~ ChecksumOk(read)
        /\ pc' = "select" /\ month' = NextMonth(month) /\ selected' = {}
  /\ UNCHANGED <<now, rows, files, versions, pinned, table, cutoff>>

(* One transaction registers the version, under the dates of the first and *)
(* of the last instant of the window, and deletes the partition.           *)
Commit ==
  /\ pc = "commit"
  /\ versions' = Register([series |-> table, from |-> Day(WindowStart(month)),
                           to |-> Day(WindowEnd(month) - 1), content |-> selected], versions)
  /\ rows' = rows \ Deletable(table, month)
  /\ pc' = "select" /\ month' = NextMonth(month) /\ selected' = {}
  /\ UNCHANGED <<now, files, pinned, table, cutoff>>

(* The process dies, or the write raises: the transaction is rolled back,  *)
(* the file stays as it is.                                                *)
Crash ==
  /\ pc # "idle"
  /\ pc' = "idle" /\ month' = 0 /\ selected' = {}
  /\ UNCHANGED <<now, rows, files, versions, pinned, table, cutoff>>

Next ==
  \/ Tick \/ (\E r \in Recorded : Arrive(r)) \/ (\E p \in Pins : Pin(p))
  \/ (\E i \in Intervals : Start(i))
  \/ EndTable \/ SkipMonth \/ Select
  \/ (\E ok \in BOOLEAN : Write(ok) \/ Verify(ok))
  \/ Commit \/ Crash

Spec == Init /\ [][Next]_vars

Step == EndTable \/ SkipMonth \/ Select \/ (\E ok \in BOOLEAN : Write(ok) \/ Verify(ok)) \/ Commit

(* The clock advances, the scheduler runs the job of every interval, and a *)
(* job that does not crash goes on.                                        *)
FairSpec ==
  /\ Spec /\ WF_vars(Tick) /\ WF_vars(Step)
  /\ \A i \in Intervals : SF_vars(Start(i))
-----------------------------------------------------------------------------
(* Every variable stays in its type, and what was selected is in Postgres. *)
TypeOK ==
  /\ now \in 0 .. MaxTime /\ rows \subseteq Rows
  /\ files \in [Months -> (SUBSET Rows) \cup {Torn}]
  /\ \A v \in versions : v.content \in SUBSET Rows /\ v.from \in Int /\ v.to \in Int
  /\ pc \in {"idle", "select", "write", "verify", "commit"}
  /\ table \in Series /\ month \in 0 .. LastMonth + 1 /\ cutoff \in Int
  /\ selected \subseteq Rows

Cold == UNION {files[m] : m \in {n \in Months : files[n] # Torn}}

(* A row once stored is never lost: it is in Postgres or in a file.  (The  *)
(* retention table of the architecture never deletes candles or ticks.)    *)
(* Refuted, as each night's file replaces the one before.                  *)
NeverLost == [][rows \cup Cold \subseteq rows' \cup Cold']_vars

(* On any schedule, through crashes and damaged files, a row is lost only  *)
(* once a version was registered that holds it: until then either Postgres *)
(* or a readable file has it.                                              *)
OnlyRegisteredIsLost ==
  [][\A r \in (rows \cup Cold) \ (rows' \cup Cold') :
       \E v \in versions : r \in v.content]_vars

(* A row leaves Postgres only when a readable file holds it: the DELETE    *)
(* removes nothing the export does not have.                               *)
DeletionFollowsExport == [][rows \ rows' \subseteq Cold]_vars

(* Rows younger than the retention stay in Postgres. *)
RecentStaysHot == [][\A r \in rows \ rows' : r[2] < now - Retention]_vars

(* What was archived is gone from Postgres and does not come back.  The    *)
(* dates a version is registered under are whole days, and the cutoff may  *)
(* fall within the last of them, archive_from within the first: only there *)
(* may rows of the range be left, outside the span of what was exported.   *)
ArchivedIsGone ==
  \A v \in versions, r \in rows : r[1] = v.series =>
    \/ Day(r[2]) < v.from \/ v.to < Day(r[2])
    \/ Day(r[2]) = v.from /\ \A c \in v.content : r[2] < c[2]
    \/ Day(r[2]) = v.to /\ \A c \in v.content : c[2] < r[2]

(* What the archival relies on: nothing older than the retention arrives. *)
Punctual == MaxLag < Retention

(* (The end of a job leaves the same state as its death.)                  *)
Fault == (Crash /\ ~ EndTable) \/ Write(FALSE) \/ Verify(FALSE)

(* Once faults stop, every row older than the retention leaves Postgres. *)
EventuallyCold ==
  <>[][~ Fault]_vars => <>[](\A r \in rows : r[2] < ArchiveFrom \/ r[2] >= now - Retention)
=============================================================================
