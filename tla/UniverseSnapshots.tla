------------------------- MODULE UniverseSnapshots -------------------------
(***************************************************************************)
(* The reference data importer and the daily universe snapshot             *)
(* (infrastructure/jobs/reference_data_importer.py and                     *)
(* universe_snapshot_job.py), each on a connection of its own and not      *)
(* synchronised with the other: one brings the instrument table up to date *)
(* with the venue's exchangeInfo in one transaction, the other records     *)
(* which instruments were tradeable on a date and never changes a record.  *)
(***************************************************************************)
EXTENDS Migrations

CONSTANTS Symbols,
          Dates,     \* calendar days a snapshot may be taken for
          Listings,  \* exchangeInfo responses: an entry per symbol
          NoEntry,   \* no entry, or one without a filter the import needs
          MaxJobs    \* bound on the jobs started

VARIABLES
  instruments,   \* committed rows of instrument, by symbol
  snapshots,     \* committed rows of universe_snapshot, by date and symbol
  importer,      \* the import's transaction
  capturer,      \* the snapshot job's transaction
  now,           \* jobs started so far, the clock of their timestamps
  venueTable     \* history: every finished import applied at once

universeVars == <<instruments, snapshots, importer, capturer, now, venueTable>>

NoRows == [k \in {} |-> k]
NoJob == [open |-> FALSE]

UniverseInit ==
  /\ instruments = NoRows
  /\ snapshots = NoRows
  /\ importer = NoJob
  /\ capturer = NoJob
  /\ now = 0
  /\ venueTable = NoRows

HasTable(t) == t \in TablesOf(catalog)

(* -------- import_reference_data -------- *)

MapStatus(s) == IF s = "TRADING" THEN "trading" ELSE "halted"

(* Seeded fault: the upsert writes the listing date of a known symbol too. *)
RowListedNow(table, s, entry, ts) ==
  [status |-> MapStatus(entry.status), tick |-> entry.tick, listed |-> ts]

(* The row an entry makes of the existing row, or a new one at ts.         *)
Row(table, s, entry, ts) ==
  [status |-> MapStatus(entry.status), tick |-> entry.tick,
   listed |-> IF s \in DOMAIN table THEN table[s].listed ELSE ts]

Upserted(table, s, entry, ts) ==
  [k \in DOMAIN table \union {s} |-> IF k = s THEN Row(table, s, entry, ts) ELSE table[k]]

BeginImport(listing) ==
  /\ ~importer.open
  /\ now < MaxJobs
  /\ HasTable("instrument")
  /\ Free({<<"instrument", "read">>})
  /\ now' = now + 1
  /\ importer' = [open |-> TRUE, listing |-> listing, todo |-> Symbols, ts |-> now',
                  draft |-> instruments, changed |-> {}]
  /\ UNCHANGED <<instruments, snapshots, capturer, venueTable>>

(* A symbol is looked up before its entry is read, an upsert also reads    *)
(* the venue that its row refers to.                                       *)
UpsertUses == {<<"instrument", "write">>, <<"venue", "read">>}

ImporterUses ==
  IF ~importer.open THEN {}
  ELSE IF \A s \in Symbols \ importer.todo : importer.listing[s] = NoEntry
       THEN {<<"instrument", "read">>}
       ELSE UpsertUses

NextSymbol == CHOOSE s \in importer.todo : TRUE

(* The change of a known instrument's tick size the import reports.        *)
TickChanges(table, s, entry) ==
  IF s \in DOMAIN table /\ table[s].tick # entry.tick
  THEN {<<s, table[s].tick, entry.tick>>} ELSE {}

(* One symbol of the response: looked up and skipped, or compared and      *)
(* upserted.                                                               *)
ImportSymbol ==
  LET s == NextSymbol
      entry == importer.listing[s] IN
  /\ importer.open
  /\ importer.todo # {}
  /\ Free(IF entry = NoEntry THEN {<<"instrument", "read">>} ELSE UpsertUses)
  /\ importer' =
       IF entry = NoEntry THEN [importer EXCEPT !.todo = @ \ {s}]
       ELSE [importer EXCEPT !.todo = @ \ {s},
                             !.changed = @ \union TickChanges(importer.draft, s, entry),
                             !.draft = Upserted(@, s, entry, importer.ts)]
  /\ UNCHANGED <<instruments, snapshots, capturer, now, venueTable>>

(* What an import promises: a symbol of the response that the table lacks  *)
(* is listed now, one it has changes its status and its tick size, and     *)
(* nothing else changes.                                                   *)
Synced(table, listing, ts) ==
  LET entries == {s \in Symbols : listing[s] # NoEntry} IN
      [s \in DOMAIN table \union entries |->
         CASE s \notin entries    -> table[s]
           [] s \in entries \intersect DOMAIN table ->
                [table[s] EXCEPT !.status = MapStatus(listing[s].status), !.tick = listing[s].tick]
           [] s \in entries \ DOMAIN table ->
                [status |-> MapStatus(listing[s].status), tick |-> listing[s].tick, listed |-> ts]]

(* conn.commit() after the last symbol. *)
FinishImport ==
  /\ importer.open
  /\ importer.todo = {}
  /\ instruments' = importer.draft
  /\ venueTable' = Synced(venueTable, importer.listing, importer.ts)
  /\ importer' = NoJob
  /\ UNCHANGED <<snapshots, capturer, now>>

(* The process dies, or the response or a row makes the job raise.         *)
AbortImport ==
  /\ importer.open
  /\ importer' = NoJob
  /\ UNCHANGED <<instruments, snapshots, capturer, now, venueTable>>

(* -------- capture_universe_snapshot -------- *)

IsTradeable(status) == status = "trading"

(* The select: no row at all ends the job, its transaction left open.      *)
SelectInstruments(date) ==
  /\ ~capturer.open
  /\ now < MaxJobs
  /\ HasTable("instrument")
  /\ Free({<<"instrument", "read">>})
  /\ now' = now + 1
  /\ capturer' = [open |-> TRUE, ts |-> now',
                  rows |-> [k \in {date} \X DOMAIN instruments |->
                              [tradeable |-> IsTradeable(instruments[k[2]].status), at |-> now']]]
  /\ UNCHANGED <<instruments, snapshots, importer, venueTable>>

CapturerUses == IF capturer.open THEN {<<"instrument", "read">>} ELSE {}

(* ON CONFLICT DO NOTHING.                                                 *)
DoNothing(old, new) == [k \in DOMAIN old \union DOMAIN new |->
                          IF k \in DOMAIN old THEN old[k] ELSE new[k]]

(* The insert and the commit.                                              *)
InsertSnapshot ==
  /\ capturer.open
  /\ capturer.rows # NoRows
  /\ HasTable("universe_snapshot")
  /\ Free({<<"universe_snapshot", "write">>, <<"venue", "read">>, <<"instrument", "read">>})
  /\ snapshots' = DoNothing(snapshots, capturer.rows)
  /\ capturer' = NoJob
  /\ UNCHANGED <<instruments, importer, now, venueTable>>

(* The job raises or dies, or its caller closes the connection.            *)
AbortCapture ==
  /\ capturer.open
  /\ capturer' = NoJob
  /\ UNCHANGED <<instruments, snapshots, importer, now, venueTable>>

(* query_tradeable_instruments: no venue filter.                           *)
QueryTradeable(date) ==
  {k[2] : k \in {r \in DOMAIN snapshots : r[1] = date /\ snapshots[r].tradeable}}

UniverseStep ==
  \/ \E listing \in Listings : BeginImport(listing)
  \/ ImportSymbol
  \/ FinishImport
  \/ AbortImport
  \/ \E date \in Dates : SelectInstruments(date)
  \/ InsertSnapshot
  \/ AbortCapture
=============================================================================
