----------------------------- MODULE Migrations -----------------------------
(***************************************************************************)
(* "alembic upgrade" and "alembic downgrade" (alembic/env.py): the         *)
(* statements of every revision on the way run in one transaction, which   *)
(* the version table joins.  Other transactions see the catalog only after *)
(* the commit; a statement that fails, a crash or a deadlock rolls the     *)
(* whole way back.                                                         *)
(***************************************************************************)
EXTENDS Schema, SequencesExt

CONSTANT Targets   \* the revisions commands name, as places in the chain

ASSUME TargetsAssumption == Targets \subseteq 0..Latest

VARIABLES
  catalog,    \* what the committed database holds
  revision,   \* the committed row of alembic_version, as a place in the chain
  migration   \* the migration transaction: target, place, catalog, locks

migrationVars == <<catalog, revision, migration>>

NoMigration == [running |-> FALSE]

(* The revision being run, and where Alembic stands after one more of its  *)
(* statements.                                                             *)
Script == IF migration.at < migration.to THEN Upgrade[migration.at + 1] ELSE Downgrade[migration.at]

Place ==
  IF migration.done + 1 < Len(Script)
  THEN [at |-> migration.at, done |-> migration.done + 1]
  ELSE [at |-> IF migration.at < migration.to THEN migration.at + 1 ELSE migration.at - 1, done |-> 0]

MigrationInit ==
  /\ catalog = EmptyCatalog
  /\ revision = 0
  /\ migration = NoMigration

BeginMigration(target) ==
  /\ ~migration.running
  /\ target \in Targets \ {revision}
  /\ migration' = [running |-> TRUE, to |-> target, at |-> revision, done |-> 0, work |-> catalog,
                   locked |-> [t \in {} |-> "everyone"]]
  /\ UNCHANGED <<catalog, revision>>

(* PostgreSQL's table locks: a use is a table and whether it is written.   *)
Conflict(locks, uses) ==
  \E u \in uses : /\ u[1] \in DOMAIN locks
                  /\ locks[u[1]] = "everyone" \/ u[2] = "write"

(* May a transaction outside the migration make these uses now?            *)
Free(uses) == migration.running => ~Conflict(migration.locked, uses)

Unfinished == migration.running /\ migration.at # migration.to

Statement == Script[migration.done + 1]

(* The next statement, once no other transaction uses the tables it locks. *)
Execute(uses, nulls) ==
  LET locks == Locks(Statement, migration.work) IN
  /\ Unfinished
  /\ ~Conflict(locks, uses)
  /\ Can(Statement, migration.work, nulls)
  /\ migration' =
       [migration EXCEPT
          !.at = Place.at,
          !.done = Place.done,
          !.work = Apply(Statement, @),
          !.locked = [t \in DOMAIN @ \union DOMAIN locks |->
                        IF \/ t \in DOMAIN @ /\ @[t] = "everyone"
                           \/ t \in DOMAIN locks /\ locks[t] = "everyone"
                        THEN "everyone" ELSE "writers"]]
  /\ UNCHANGED <<catalog, revision>>

(* The database refuses the statement; Alembic raises and rolls back.      *)
Refused(uses, nulls) ==
  /\ Unfinished
  /\ ~Conflict(Locks(Statement, migration.work), uses)
  /\ ~Can(Statement, migration.work, nulls)
  /\ migration' = NoMigration
  /\ UNCHANGED <<catalog, revision>>

CommitMigration ==
  /\ migration.running
  /\ migration.at = migration.to
  /\ catalog' = migration.work
  /\ revision' = migration.to
  /\ migration' = NoMigration

CrashMigration ==
  /\ migration.running
  /\ migration' = NoMigration
  /\ UNCHANGED <<catalog, revision>>
=============================================================================
