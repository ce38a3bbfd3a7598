------------------------------ MODULE Database ------------------------------
(***************************************************************************)
(* One database and everything that uses it here: the migrations, the run  *)
(* registry, the reference data importer and the universe snapshots.  A    *)
(* migration waits for the tables other transactions use, the others wait  *)
(* for the tables it has locked, and the rows of a table it drops are gone *)
(* when it commits.                                                        *)
(***************************************************************************)
EXTENDS RunRegistry, UniverseSnapshots, DeclaredTables

CONSTANT MaxWork   \* bound on the runs and jobs of one behaviour together

vars == <<migrationVars, registryVars, universeVars>>

Init == MigrationInit /\ RegistryInit /\ UniverseInit

Uses == (UNION {SessionUses(c) : c \in Connections}) \union ImporterUses \union CapturerUses

Surviving(t, rows, none) == IF t \in TablesOf(migration.work) THEN rows ELSE none

CommitAndDrop ==
  /\ CommitMigration
  /\ runs' = Surviving("backtest_run", runs, {})
  /\ instruments' = Surviving("instrument", instruments, NoRows)
  /\ snapshots' = Surviving("universe_snapshot", snapshots, NoRows)
  /\ venueTable' = Surviving("instrument", venueTable, NoRows)
  /\ UNCHANGED <<session, importer, capturer, now>>

Migrate ==
  \/ /\ \/ \E target \in Targets : BeginMigration(target)
        \/ Execute(Uses, NullColumns)
        \/ Refused(Uses, NullColumns)
        \/ CrashMigration
     /\ UNCHANGED <<registryVars, universeVars>>
  \/ CommitAndDrop

WithinBounds == Cardinality(runs) + Cardinality(Pending) + now <= MaxWork

Next ==
  \/ Migrate
  \/ RegistryStep /\ UNCHANGED <<migrationVars, universeVars>> /\ WithinBounds'
  \/ UniverseStep /\ UNCHANGED <<migrationVars, registryVars>> /\ WithinBounds'

Spec == Init /\ [][Next]_vars

-----------------------------------------------------------------------------

(* The catalogs that a script passes through, from c on.                   *)
Passed(script, c) ==
  LET d[n \in 0..Len(script)] == IF n = 0 THEN c ELSE Apply(script[n], d[n - 1])
  IN  d

(* What the upgrades up to a revision build from an empty database.        *)
Built[r \in 0..Latest] ==
  IF r = 0 THEN EmptyCatalog ELSE Passed(Upgrade[r], Built[r - 1])[Len(Upgrade[r])]

AsDeclared(c) ==
  /\ [t \in TablesOf(c) |-> [c.tables[t] EXCEPT !.partition = "none"]] = Declared
  /\ c.types = UNION {TypesUsed(Declared[t]) : t \in DOMAIN Declared}

(* Whatever upgrades and downgrades have run, failed or crashed, the       *)
(* catalog is the one the upgrades up to the recorded revision build from  *)
(* an empty database; at the head it holds the tables the application      *)
(* declares, and no enum type is left over.                                *)
CatalogMatchesRevision ==
  /\ catalog = Built[revision]
  /\ revision = Latest => AsDeclared(catalog)

(* The database can refuse a statement of a migration for one reason only: *)
(* a logged run has a metric that is NULL and the downgrade of e1fdbf4f07ed *)
(* wants it NOT NULL.  Every other drop and create is in a possible order. *)
OnlyRunsBlockMigrations ==
  Unfinished /\ ~Can(Statement, migration.work, NullColumns)
    => runs # {} /\ Statement.kind = "set_not_null"

(* Once a run is committed the schema stays at the head: older revisions   *)
(* cannot store its NULL metrics and the downgrade cannot get past them.   *)
(* So no downgrade, not even "base", ever drops a logged run.              *)
LoggedRunsPinTheSchema == runs # {} => revision = Latest

(* A run is never changed by an UPDATE, or removed by a DELETE or with its *)
(* table, once it is committed: the trigger raises while the schema is at  *)
(* the head, and LoggedRunsPinTheSchema keeps it there.                    *)
RunsAreAppendOnly == [][runs \subseteq runs']_vars

(* trial_count_at_time_of_run never exceeds the number of other runs of    *)
(* the strategy, and grows along runs that did not overlap; two runs whose *)
(* transactions overlapped may carry the same number.                      *)
TrialsFollowHistory ==
  \A r \in runs :
    /\ r.trial <= Cardinality(RunsOf(r.strategy) \ {r})
    /\ \A q \in RunsOf(r.strategy) : q.id \in r.before => q.trial < r.trial

(* The committed instruments are always those of the finished imports,     *)
(* each kept as promised and as a whole: an import that dies half way      *)
(* shows nothing, and none writes the first listing date of a known symbol *)
(* again, though every upsert offers one.                                  *)
ImportsAreAtomic == instruments = venueTable

(* A row of the universe's history is never changed, and is lost only      *)
(* together with its table.                                                *)
SnapshotsAreFrozen ==
  [][HasTable("universe_snapshot")' =>
       \A k \in DOMAIN snapshots : k \in DOMAIN snapshots' /\ snapshots'[k] = snapshots[k]]_vars

(* No tick size of a known instrument changes without the import that      *)
(* changed it having reported exactly that change.                         *)
ChangesAreReported ==
  [][\A s \in DOMAIN instruments \intersect DOMAIN instruments' :
       instruments'[s].tick # instruments[s].tick =>
         <<s, instruments[s].tick, instruments'[s].tick>> \in importer.changed]_vars
=============================================================================
