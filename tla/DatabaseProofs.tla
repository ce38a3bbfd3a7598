--------------------------- MODULE DatabaseProofs ---------------------------
(***************************************************************************)
(* For any connections, strategies, instruments, listings, dates and       *)
(* targets, in two inductive invariants and two on top of the second.      *)
(*                                                                         *)
(* IInv: the committed instruments are those of whole imports, every tick  *)
(* size change is reported, and the rows of the universe's history are     *)
(* never changed.  It needs what an open import has done so far, and that  *)
(* no migration can take the instrument table away from it, which is what  *)
(* the locks a migration has taken say about the tables it has dropped.    *)
(*                                                                         *)
(* PinInv: a committed run pins the schema to the head and is never        *)
(* changed.  It follows a migration statement by statement: the metrics    *)
(* accept a NULL at the head only, and what has come down from there has   *)
(* met no run and keeps the metrics locked.                                *)
(*                                                                         *)
(* TrialInv: the trial counts agree with what their transactions saw.  It  *)
(* needs fresh ids, hence that there is one below the bound on the runs.   *)
(*                                                                         *)
(* CatalogInv: the catalog is what its revision builds, and no migration   *)
(* is refused but for a run's NULL.  It rests on what every script does to *)
(* a catalog, statement by statement: each upgrade leads to the next       *)
(* revision's catalog and each downgrade back from it (Chain).             *)
(***************************************************************************)
EXTENDS Database, FiniteSetTheorems, WellFoundedInduction, TLAPS

(* The rows of a table, with the entries of some symbols applied.          *)
Partial(table, listing, ts, done) ==
  LET known == {s \in done : listing[s] # NoEntry} IN
  [s \in DOMAIN table \union known |->
     IF s \in known THEN Row(table, s, listing[s], ts) ELSE table[s]]

(* What a migration has dropped so far it has locked.                      *)
DropsAreLocked ==
  /\ "tables" \in DOMAIN catalog
  /\ migration.running =>
       /\ DOMAIN migration = {"running", "to", "at", "done", "work", "locked"}
       /\ "tables" \in DOMAIN migration.work
       /\ \A t \in TablesOf(catalog) \ TablesOf(migration.work) :
            t \in DOMAIN migration.locked /\ migration.locked[t] = "everyone"

(* An open import keeps the table it works on.                             *)
ImporterKeepsTable ==
  importer.open =>
    /\ HasTable("instrument")
    /\ migration.running => "instrument" \in TablesOf(migration.work)

(* Its draft is the committed table with the entries it is done with, and  *)
(* it has reported the changes it has made.                                *)
DraftIsPartial ==
  importer.open =>
    /\ DOMAIN importer = {"open", "listing", "todo", "ts", "draft", "changed"}
    /\ importer.todo \subseteq Symbols
    /\ importer.draft = Partial(instruments, importer.listing, importer.ts, Symbols \ importer.todo)

DraftIsReported ==
  importer.open =>
    \A s \in DOMAIN instruments :
      importer.draft[s].tick # instruments[s].tick =>
        <<s, instruments[s].tick, importer.draft[s].tick>> \in importer.changed

IsRow(row) == row = [status |-> row.status, tick |-> row.tick, listed |-> row.listed]

IsTable(table) ==
  /\ table = [s \in DOMAIN table |-> table[s]]
  /\ \A s \in DOMAIN table : IsRow(table[s])

IInv ==
  /\ DropsAreLocked
  /\ ImporterKeepsTable
  /\ DraftIsPartial
  /\ DraftIsReported
  /\ IsTable(instruments)
  /\ ImportsAreAtomic
-----------------------------------------------------------------------------
(* A statement removes no table but the one it drops.                      *)
LEMMA ApplyKeeps ==
  ASSUME NEW s, NEW c, "tables" \in DOMAIN c
  PROVE  /\ "tables" \in DOMAIN Apply(s, c)
         /\ \A t \in TablesOf(c) \ TablesOf(Apply(s, c)) : s.kind = "drop_table" /\ s.on = t
<1>1. CASE s.kind \in {"create_type", "drop_type", "create_function", "drop_function", "create_trigger"}
  BY <1>1 DEF Apply, TablesOf
<1>2. CASE s.kind = "create_table"
  BY <1>2 DEF Apply, TablesOf
<1>3. CASE s.kind \in {"create_hypertable", "drop_not_null", "set_not_null"}
  BY <1>3 DEF Apply, TablesOf
<1>4. CASE s.kind = "drop_table"
  BY <1>4 DEF Apply, TablesOf
<1>5. CASE s.kind \notin {"create_type", "drop_type", "create_function", "drop_function", "create_trigger",
                          "create_table", "create_hypertable", "drop_not_null", "set_not_null", "drop_table"}
  <2>1. Apply(s, c) = [c EXCEPT !.triggers = {g \in @ : <<g.name, g.on>> # <<s.name, s.on>>}]
    BY <1>5 DEF Apply
  <2> QED BY <2>1 DEF TablesOf
<1> QED BY <1>1, <1>2, <1>3, <1>4, <1>5

(* A drop locks its table against everyone.                                *)
LEMMA DropLocks ==
  ASSUME NEW s, NEW c, s.kind = "drop_table", s.on \in TablesOf(c)
  PROVE  s.on \in DOMAIN Locks(s, c) /\ Locks(s, c)[s.on] = "everyone"
<1>1. Locks(s, c) = [t \in {s.on} \union Referenced(c.tables[s.on]) |-> "everyone"]
  BY DEF Locks
<1> QED BY <1>1

(* An import is done with one more symbol: the draft moves with it.        *)
LEMMA PartialStep ==
  ASSUME NEW table, IsTable(table), NEW listing, NEW ts, NEW done, NEW s, s \notin done
  PROVE  LET draft == Partial(table, listing, ts, done)
         IN  /\ listing[s] = NoEntry => draft = Partial(table, listing, ts, done \union {s})
             /\ listing[s] # NoEntry =>
                  Upserted(draft, s, listing[s], ts) = Partial(table, listing, ts, done \union {s})
<1> DEFINE known == {k \in done : listing[k] # NoEntry}
           more  == {k \in done \union {s} : listing[k] # NoEntry}
           draft == Partial(table, listing, ts, done)
<1>1. draft = [k \in DOMAIN table \union known |->
                 IF k \in known THEN Row(table, k, listing[k], ts) ELSE table[k]]
  BY DEF Partial
<1>2. Partial(table, listing, ts, done \union {s}) =
        [k \in DOMAIN table \union more |->
           IF k \in more THEN Row(table, k, listing[k], ts) ELSE table[k]]
  BY DEF Partial
<1>3. CASE listing[s] = NoEntry
  <2>1. more = known
    BY <1>3
  <2> QED BY <1>1, <1>2, <1>3, <2>1
<1>4. CASE listing[s] # NoEntry
  <2>1. more = known \union {s} /\ s \notin known
    BY <1>4
  <2>2. DOMAIN draft = DOMAIN table \union known
    BY <1>1
  <2>3. Row(draft, s, listing[s], ts) = Row(table, s, listing[s], ts)
    <3>1. s \in DOMAIN draft <=> s \in DOMAIN table
      BY <2>1, <2>2
    <3>2. s \in DOMAIN table => draft[s] = table[s]
      BY <1>1, <2>1
    <3> QED BY <3>1, <3>2 DEF Row
  <2>4. Upserted(draft, s, listing[s], ts) =
          [k \in (DOMAIN table \union known) \union {s} |->
             IF k = s THEN Row(table, s, listing[s], ts) ELSE draft[k]]
    BY <2>2, <2>3 DEF Upserted
  <2>5. (DOMAIN table \union known) \union {s} = DOMAIN table \union more
    BY <2>1
  <2>6. ASSUME NEW k \in DOMAIN table \union more
        PROVE  (IF k = s THEN Row(table, s, listing[s], ts) ELSE draft[k])
                 = (IF k \in more THEN Row(table, k, listing[k], ts) ELSE table[k])
    <3>1. CASE k = s
      BY <3>1, <2>1
    <3>2. CASE k # s
      <4>1. k \in DOMAIN table \union known /\ (k \in more <=> k \in known)
        BY <3>2, <2>1
      <4> QED BY <3>2, <4>1, <1>1
    <3> QED BY <3>1, <3>2
  <2> QED BY <1>2, <1>4, <2>4, <2>5, <2>6
<1> QED BY <1>3, <1>4
(* All the entries at once are what an import promises: the upsert of a    *)
(* known symbol keeps the listing date of its row.                         *)
LEMMA PartialIsSynced ==
  ASSUME NEW table, IsTable(table), NEW listing, NEW ts
  PROVE  /\ Partial(table, listing, ts, Symbols) = Synced(table, listing, ts)
         /\ IsTable(Partial(table, listing, ts, Symbols))
<1> DEFINE entries == {s \in Symbols : listing[s] # NoEntry}
           promised(s) ==
             CASE s \notin entries    -> table[s]
               [] s \in entries \intersect DOMAIN table ->
                    [table[s] EXCEPT !.status = MapStatus(listing[s].status), !.tick = listing[s].tick]
               [] s \in entries \ DOMAIN table ->
                    [status |-> MapStatus(listing[s].status), tick |-> listing[s].tick, listed |-> ts]
           made(s) == IF s \in entries THEN Row(table, s, listing[s], ts) ELSE table[s]
<1>1. ASSUME NEW s \in DOMAIN table \union entries
      PROVE  made(s) = promised(s) /\ IsRow(made(s))
  <2>1. CASE s \notin entries
    BY <1>1, <2>1 DEF IsTable
  <2>2. CASE s \in entries \ DOMAIN table
    BY <2>2 DEF Row, IsRow
  <2>3. CASE s \in entries /\ s \in DOMAIN table
    <3>1. table[s] = [status |-> table[s].status, tick |-> table[s].tick, listed |-> table[s].listed]
      BY <2>3 DEF IsTable, IsRow
    <3>2. PICK status, tick, listed : table[s] = [status |-> status, tick |-> tick, listed |-> listed]
      BY <3>1, Zenon
    <3>3. promised(s) = [table[s] EXCEPT !.status = MapStatus(listing[s].status), !.tick = listing[s].tick]
      BY <2>3
    <3>4. promised(s) = [status |-> MapStatus(listing[s].status), tick |-> listing[s].tick, listed |-> listed]
      <4> DEFINE st == MapStatus(listing[s].status)
                 tk == listing[s].tick
      <4>1. promised(s) = [[status |-> status, tick |-> tick, listed |-> listed] EXCEPT !.status = st, !.tick = tk]
        BY <3>2, <3>3, Zenon
      <4> HIDE DEF st, tk, promised
      <4>2. promised(s) = [status |-> st, tick |-> tk, listed |-> listed]
        BY <4>1
      <4> QED BY <4>2 DEF st, tk
    <3>5. made(s) = [status |-> MapStatus(listing[s].status), tick |-> listing[s].tick, listed |-> listed]
      BY <2>3, <3>2 DEF Row
    <3> QED BY <3>4, <3>5 DEF IsRow
  <2> QED BY <2>1, <2>2, <2>3
<1>2. Partial(table, listing, ts, Symbols) = [s \in DOMAIN table \union entries |-> made(s)]
  BY Zenon DEF Partial
<1>3. Synced(table, listing, ts) = [s \in DOMAIN table \union entries |-> promised(s)]
  BY Zenon DEF Synced
<1> HIDE DEF entries, made, promised
<1> QED BY <1>1, <1>2, <1>3 DEF IsTable
-----------------------------------------------------------------------------
LEMMA InitIInv == Init => IInv
<1> SUFFICES ASSUME Init PROVE IInv
  OBVIOUS
<1>1. "tables" \in DOMAIN catalog /\ migration.running = FALSE /\ importer.open = FALSE
  BY DEF Init, MigrationInit, UniverseInit, EmptyCatalog, NoMigration, NoJob
<1>2. IsTable(instruments) /\ ImportsAreAtomic
  BY DEF Init, UniverseInit, NoRows, IsTable, ImportsAreAtomic
<1> QED BY <1>1, <1>2 DEF IInv, DropsAreLocked, ImporterKeepsTable, DraftIsPartial, DraftIsReported
-----------------------------------------------------------------------------
(* The steps of a migration before its commit: drops and locks grow alike. *)
LEMMA BeginMigrationStep ==
  ASSUME IInv, NEW target \in Targets, BeginMigration(target), UNCHANGED universeVars
  PROVE  IInv'
<1>1. UNCHANGED <<catalog, instruments, importer, venueTable>>
  BY DEF BeginMigration, universeVars
<1>2. migration' = [running |-> TRUE, to |-> target, at |-> revision, done |-> 0, work |-> catalog,
                    locked |-> [t \in {} |-> "everyone"]]
  BY DEF BeginMigration
<1>3. DropsAreLocked'
  BY <1>1, <1>2 DEF IInv, DropsAreLocked, TablesOf
<1>4. ImporterKeepsTable'
  BY <1>1, <1>2 DEF IInv, ImporterKeepsTable, HasTable, TablesOf
<1> QED
  BY <1>1, <1>3, <1>4 DEF IInv, DraftIsPartial, DraftIsReported, IsTable, ImportsAreAtomic, Partial, Row

LEMMA ExecuteStep ==
  ASSUME IInv, Execute(Uses, NullColumns), UNCHANGED universeVars
  PROVE  IInv'
<1> DEFINE work  == migration.work
           locks == Locks(Statement, work)
<1>1. /\ UNCHANGED <<catalog, instruments, importer, venueTable>>
      /\ migration.running /\ ~Conflict(locks, Uses)
  BY DEF Execute, Unfinished, universeVars
<1>2. DOMAIN migration = {"running", "to", "at", "done", "work", "locked"} /\ "tables" \in DOMAIN work
  BY <1>1 DEF IInv, DropsAreLocked
<1>3. /\ migration'.work = Apply(Statement, work)
      /\ migration'.locked = [t \in DOMAIN migration.locked \union DOMAIN locks |->
                                IF \/ t \in DOMAIN migration.locked /\ migration.locked[t] = "everyone"
                                   \/ t \in DOMAIN locks /\ locks[t] = "everyone"
                                THEN "everyone" ELSE "writers"]
      /\ DOMAIN migration' = DOMAIN migration
      /\ migration'.running = migration.running
  BY <1>2 DEF Execute
<1>4. /\ "tables" \in DOMAIN Apply(Statement, work)
      /\ \A t \in TablesOf(work) \ TablesOf(Apply(Statement, work)) :
           t \in DOMAIN locks /\ locks[t] = "everyone"
  BY <1>2, ApplyKeeps, DropLocks
<1>5. DropsAreLocked'
  <2>1. ASSUME NEW t \in TablesOf(catalog) \ TablesOf(Apply(Statement, work))
        PROVE  t \in DOMAIN migration'.locked /\ migration'.locked[t] = "everyone"
    <3>1. CASE t \in TablesOf(work)
      BY <1>3, <1>4, <3>1
    <3>2. CASE t \notin TablesOf(work)
      <4>1. t \in DOMAIN migration.locked /\ migration.locked[t] = "everyone"
        BY <1>1, <3>2 DEF IInv, DropsAreLocked
      <4> QED BY <1>3, <4>1
    <3> QED BY <3>1, <3>2
  <2>2. TablesOf(catalog)' = TablesOf(catalog)
    BY <1>1 DEF TablesOf
  <2>3. TablesOf(migration.work)' = TablesOf(Apply(Statement, work))
    BY <1>3 DEF TablesOf
  <2> QED BY <1>1, <1>2, <1>3, <1>4, <2>1, <2>2, <2>3 DEF IInv, DropsAreLocked
<1>6. ImporterKeepsTable'
  <2>1. SUFFICES ASSUME importer.open PROVE HasTable("instrument")' /\ "instrument" \in TablesOf(migration.work)'
    BY <1>1 DEF ImporterKeepsTable
  <2>2. HasTable("instrument") /\ "instrument" \in TablesOf(work)
    BY <1>1, <2>1 DEF IInv, ImporterKeepsTable
  <2>3. \E u \in Uses : u[1] = "instrument"
    <3>1. <<"instrument", "read">> \in ImporterUses \/ <<"instrument", "write">> \in ImporterUses
      BY <2>1, Zenon DEF ImporterUses, UpsertUses
    <3>2. ImporterUses \subseteq Uses
      BY DEF Uses
    <3>3. <<"instrument", "read">>[1] = "instrument" /\ <<"instrument", "write">>[1] = "instrument"
      OBVIOUS
    <3> QED BY <3>1, <3>2, <3>3
  <2>4. ~("instrument" \in DOMAIN locks /\ locks["instrument"] = "everyone")
    BY <1>1, <2>3 DEF Conflict
  <2>5. "instrument" \in TablesOf(Apply(Statement, work))
    BY <1>4, <2>2, <2>4
  <2> QED BY <1>1, <1>3, <2>2, <2>5 DEF HasTable, TablesOf
<1> QED
  BY <1>1, <1>5, <1>6 DEF IInv, DraftIsPartial, DraftIsReported, IsTable, ImportsAreAtomic, Partial, Row

(* A migration that ends without its commit leaves nothing.                *)
LEMMA RollbackStep ==
  ASSUME IInv, migration' = NoMigration, UNCHANGED <<catalog, revision, universeVars>>
  PROVE  IInv'
<1>1. UNCHANGED <<catalog, instruments, importer, venueTable>> /\ migration'.running = FALSE
  BY DEF NoMigration, universeVars
<1>2. DropsAreLocked'
  BY <1>1 DEF IInv, DropsAreLocked
<1>3. ImporterKeepsTable'
  <2>1. HasTable("instrument")' = HasTable("instrument")
    BY <1>1 DEF HasTable, TablesOf
  <2> QED BY <1>1, <2>1 DEF IInv, ImporterKeepsTable
<1> QED
  BY <1>1, <1>2, <1>3 DEF IInv, DraftIsPartial, DraftIsReported, IsTable, ImportsAreAtomic, Partial, Row

(* The commit drops the rows of the instrument table only when no import   *)
(* is open.                                                                *)
LEMMA CommitStep == ASSUME IInv, CommitAndDrop PROVE IInv'
<1>1. /\ migration.running /\ migration' = NoMigration /\ catalog' = migration.work
      /\ importer' = importer /\ migration'.running = FALSE
      /\ instruments' = Surviving("instrument", instruments, NoRows)
      /\ venueTable' = Surviving("instrument", venueTable, NoRows)
  BY DEF CommitAndDrop, CommitMigration, NoMigration
<1>2. importer.open => HasTable("instrument")' /\ UNCHANGED <<instruments, venueTable>>
  BY <1>1 DEF IInv, ImporterKeepsTable, HasTable, Surviving
<1>3. instruments' = venueTable' /\ instruments' \in {instruments, NoRows}
  BY <1>1 DEF IInv, ImportsAreAtomic, Surviving
<1>4. IsTable(instruments)' /\ ImportsAreAtomic'
  BY <1>3 DEF IInv, IsTable, ImportsAreAtomic, NoRows
<1>5. DropsAreLocked' /\ ImporterKeepsTable'
  BY <1>1, <1>2 DEF IInv, DropsAreLocked, ImporterKeepsTable
<1>6. DraftIsPartial' /\ DraftIsReported'
  BY <1>1, <1>2 DEF IInv, DraftIsPartial, DraftIsReported, Partial, Row
<1> QED BY <1>4, <1>5, <1>6 DEF IInv

(* No other step changes the catalog, the migration or the instruments.    *)
LEMMA ElsewhereStep ==
  ASSUME IInv, UNCHANGED <<migrationVars, instruments, importer, venueTable>>
  PROVE  IInv'
  BY DEF IInv, migrationVars, DropsAreLocked, ImporterKeepsTable, HasTable, TablesOf, DraftIsPartial,
         DraftIsReported, IsTable, ImportsAreAtomic, Partial, Row
-----------------------------------------------------------------------------
(* An import begins with the committed rows.                               *)
LEMMA BeginImportStep ==
  ASSUME IInv, NEW listing, BeginImport(listing), UNCHANGED migrationVars
  PROVE  IInv'
<1>1. /\ UNCHANGED <<catalog, migration, instruments, venueTable>>
      /\ HasTable("instrument") /\ Free({<<"instrument", "read">>})
      /\ importer' = [open |-> TRUE, listing |-> listing, todo |-> Symbols, ts |-> now',
                      draft |-> instruments, changed |-> {}]
  BY DEF BeginImport, migrationVars
<1>2. DropsAreLocked' /\ IsTable(instruments)' /\ ImportsAreAtomic'
  BY <1>1 DEF IInv, DropsAreLocked, TablesOf, IsTable, ImportsAreAtomic
<1>3. ImporterKeepsTable'
  <2>1. ASSUME migration.running PROVE "instrument" \in TablesOf(migration.work)
    <3>1. ~("instrument" \in DOMAIN migration.locked /\ migration.locked["instrument"] = "everyone")
      BY <1>1, <2>1 DEF Free, Conflict
    <3> QED BY <1>1, <2>1, <3>1 DEF IInv, DropsAreLocked, HasTable
  <2> QED BY <1>1, <2>1 DEF ImporterKeepsTable, HasTable, TablesOf
<1>4. DraftIsPartial'
  <2>1. Partial(instruments, listing, now', Symbols \ Symbols) = [s \in DOMAIN instruments |-> instruments[s]]
    <3>1. {s \in Symbols \ Symbols : listing[s] # NoEntry} = {}
      OBVIOUS
    <3> QED BY <3>1 DEF Partial
  <2>2. instruments = Partial(instruments, listing, now', Symbols \ Symbols)
    BY <2>1 DEF IInv, IsTable
  <2>3. /\ importer'.draft = instruments /\ importer'.listing = listing /\ importer'.ts = now'
        /\ importer'.todo = Symbols /\ instruments' = instruments
        /\ DOMAIN importer' = {"open", "listing", "todo", "ts", "draft", "changed"}
    BY <1>1
  <2>4. Partial(instruments, importer.listing, importer.ts, Symbols \ importer.todo)'
          = Partial(instruments, listing, now', Symbols \ Symbols)
    BY <2>3 DEF Partial, Row
  <2> QED BY <2>2, <2>3, <2>4 DEF DraftIsPartial
<1>5. DraftIsReported'
  BY <1>1 DEF DraftIsReported
<1> QED BY <1>2, <1>3, <1>4, <1>5 DEF IInv

(* One symbol of the response.                                             *)
LEMMA ImportSymbolStep ==
  ASSUME IInv, ImportSymbol, UNCHANGED migrationVars
  PROVE  IInv'
<1> DEFINE s     == NextSymbol
           entry == importer.listing[s]
           done  == Symbols \ importer.todo
<1>1. /\ UNCHANGED <<catalog, migration, instruments, venueTable>>
      /\ importer.open /\ importer.todo # {}
      /\ importer' = IF entry = NoEntry THEN [importer EXCEPT !.todo = @ \ {s}]
                     ELSE [importer EXCEPT !.todo = @ \ {s},
                             !.changed = @ \union TickChanges(importer.draft, s, entry),
                             !.draft = Upserted(@, s, entry, importer.ts)]
  BY DEF ImportSymbol, migrationVars
<1>2. /\ s \in importer.todo /\ s \in Symbols /\ s \notin done
      /\ DOMAIN importer = {"open", "listing", "todo", "ts", "draft", "changed"}
      /\ importer.draft = Partial(instruments, importer.listing, importer.ts, done)
      /\ importer.todo \subseteq Symbols
  BY <1>1 DEF IInv, DraftIsPartial, NextSymbol
<1> HIDE DEF s
<1>3. /\ importer'.todo = importer.todo \ {s} /\ DOMAIN importer' = DOMAIN importer
      /\ importer'.listing = importer.listing /\ importer'.ts = importer.ts
      /\ importer'.open = importer.open
      /\ entry = NoEntry => importer'.draft = importer.draft /\ importer'.changed = importer.changed
      /\ entry # NoEntry => /\ importer'.draft = Upserted(importer.draft, s, entry, importer.ts)
                            /\ importer'.changed = importer.changed
                                 \union TickChanges(importer.draft, s, entry)
  BY <1>1, <1>2
<1>4. DropsAreLocked' /\ ImporterKeepsTable' /\ IsTable(instruments)' /\ ImportsAreAtomic'
  BY <1>1, <1>3 DEF IInv, DropsAreLocked, ImporterKeepsTable, HasTable, TablesOf, IsTable, ImportsAreAtomic
<1>5. DraftIsPartial'
  <2>1. importer'.draft = Partial(instruments, importer.listing, importer.ts, done \union {s})
    BY <1>2, <1>3, PartialStep DEF IInv
  <2>2. done \union {s} = Symbols \ (importer.todo \ {s})
    BY <1>2
  <2>3. Partial(instruments, importer.listing, importer.ts, Symbols \ importer.todo)'
          = Partial(instruments, importer.listing, importer.ts, Symbols \ (importer.todo \ {s}))
    BY <1>1, <1>3 DEF Partial, Row
  <2> QED BY <1>2, <1>3, <2>1, <2>2, <2>3 DEF DraftIsPartial
<1>6. DraftIsReported'
  <2>1. SUFFICES ASSUME NEW k \in DOMAIN instruments,
                        importer'.draft[k].tick # instruments[k].tick
                 PROVE  <<k, instruments[k].tick, importer'.draft[k].tick>> \in importer'.changed
    BY <1>1 DEF DraftIsReported
  <2>2. /\ k \in DOMAIN importer.draft
        /\ k = s => importer.draft[k] = instruments[k]
    BY <1>2 DEF Partial
  <2>3. importer.draft[k].tick # instruments[k].tick =>
          <<k, instruments[k].tick, importer.draft[k].tick>> \in importer.changed
    BY <1>1 DEF IInv, DraftIsReported
  <2>4. CASE entry = NoEntry
    BY <1>3, <2>1, <2>3, <2>4
  <2>5. CASE entry # NoEntry /\ k # s
    <3>1. importer'.draft[k] = importer.draft[k]
      BY <1>3, <2>2, <2>5 DEF Upserted
    <3> QED BY <1>3, <2>1, <2>3, <2>5, <3>1
  <2>6. CASE entry # NoEntry /\ k = s
    <3>1. importer'.draft[s].tick = entry.tick
      BY <1>3, <2>6 DEF Upserted, Row
    <3>2. TickChanges(importer.draft, s, entry) = {<<s, instruments[s].tick, entry.tick>>}
      BY <2>1, <2>2, <2>6, <3>1 DEF TickChanges
    <3> QED BY <1>3, <2>6, <3>1, <3>2
  <2> QED BY <2>4, <2>5, <2>6
<1> QED BY <1>4, <1>5, <1>6 DEF IInv

(* The commit of a whole import.                                           *)
LEMMA FinishImportStep ==
  ASSUME IInv, FinishImport, UNCHANGED migrationVars
  PROVE  IInv'
<1>1. /\ UNCHANGED <<catalog, migration>> /\ importer.open /\ importer.todo = {}
      /\ instruments' = importer.draft /\ importer'.open = FALSE
      /\ venueTable' = Synced(venueTable, importer.listing, importer.ts)
  BY DEF FinishImport, migrationVars, NoJob
<1>2. importer.draft = Partial(instruments, importer.listing, importer.ts, Symbols)
  BY <1>1 DEF IInv, DraftIsPartial
<1>3. venueTable' = Partial(instruments, importer.listing, importer.ts, Symbols)
  BY <1>1, PartialIsSynced DEF IInv, ImportsAreAtomic
<1>4. ImportsAreAtomic'
  BY <1>1, <1>2, <1>3 DEF ImportsAreAtomic
<1>5. IsTable(instruments)'
  <2>1. IsTable(instruments')
    BY <1>1, <1>2, PartialIsSynced DEF IInv
  <2> QED BY <2>1 DEF IsTable, IsRow
<1>6. DropsAreLocked'
  BY <1>1 DEF IInv, DropsAreLocked, TablesOf
<1> QED BY <1>1, <1>4, <1>5, <1>6 DEF IInv, ImporterKeepsTable, DraftIsPartial, DraftIsReported

(* An import that dies shows nothing.                                      *)
LEMMA AbortImportStep ==
  ASSUME IInv, AbortImport, UNCHANGED migrationVars
  PROVE  IInv'
<1>1. UNCHANGED <<catalog, migration, instruments, venueTable>> /\ importer'.open = FALSE
  BY DEF AbortImport, migrationVars, NoJob
<1> QED BY <1>1 DEF IInv, DropsAreLocked, TablesOf, ImporterKeepsTable, DraftIsPartial, DraftIsReported,
                    IsTable, ImportsAreAtomic
-----------------------------------------------------------------------------
LEMMA NextIInv == IInv /\ [Next]_vars => IInv'
<1> SUFFICES ASSUME IInv, [Next]_vars PROVE IInv'
  OBVIOUS
<1>1. CASE Migrate
  <2>1. CASE CommitAndDrop
    BY <2>1, CommitStep
  <2>2. ASSUME NEW target \in Targets, BeginMigration(target), UNCHANGED universeVars PROVE IInv'
    BY <2>2, BeginMigrationStep
  <2>3. CASE Execute(Uses, NullColumns) /\ UNCHANGED universeVars
    BY <2>3, ExecuteStep
  <2>4. CASE Refused(Uses, NullColumns) /\ UNCHANGED universeVars
    BY <2>4, RollbackStep DEF Refused
  <2>5. CASE CrashMigration /\ UNCHANGED universeVars
    BY <2>5, RollbackStep DEF CrashMigration
  <2> QED BY <1>1, <2>1, <2>2, <2>3, <2>4, <2>5 DEF Migrate
<1>2. CASE RegistryStep /\ UNCHANGED <<migrationVars, universeVars>>
  BY <1>2, ElsewhereStep DEF universeVars
<1>3. CASE UniverseStep /\ UNCHANGED <<migrationVars, registryVars>>
  <2>1. UNCHANGED migrationVars
    BY <1>3
  <2>2. ASSUME NEW listing \in Listings, BeginImport(listing) PROVE IInv'
    BY <2>1, <2>2, BeginImportStep
  <2>3. ASSUME NEW date \in Dates, SelectInstruments(date) PROVE IInv'
    BY <2>1, <2>3, ElsewhereStep DEF SelectInstruments
  <2>4. CASE InsertSnapshot
    BY <2>1, <2>4, ElsewhereStep DEF InsertSnapshot
  <2>5. CASE AbortCapture
    BY <2>1, <2>5, ElsewhereStep DEF AbortCapture
  <2> QED BY <1>3, <2>1, <2>2, <2>3, <2>4, <2>5, ImportSymbolStep, FinishImportStep, AbortImportStep
          DEF UniverseStep
<1>4. CASE UNCHANGED vars
  BY <1>4, ElsewhereStep DEF vars, universeVars
<1> QED BY <1>1, <1>2, <1>3, <1>4 DEF Next

LEMMA IInvAlways == Spec => []IInv
BY InitIInv, NextIInv, PTL DEF Spec
-----------------------------------------------------------------------------
(* The committed instruments are always those of the finished imports,     *)
(* however far an import got that died, and whatever the migrations drop.  *)
THEOREM ImportsCommitWhole == Spec => []ImportsAreAtomic
<1>1. IInv => ImportsAreAtomic
  BY DEF IInv
<1> QED BY <1>1, IInvAlways, PTL

(* The commit of an import is the only step that changes a tick size, and  *)
(* it has reported every one it changes.                                   *)
THEOREM EveryChangeIsReported == Spec => ChangesAreReported
<1> DEFINE Reported ==
      \A s \in DOMAIN instruments \intersect DOMAIN instruments' :
        instruments'[s].tick # instruments[s].tick =>
          <<s, instruments[s].tick, instruments'[s].tick>> \in importer.changed
<1>1. ASSUME IInv, [Next]_vars PROVE Reported
  <2>1. CASE instruments' = instruments
    BY <2>1
  <2>2. CASE FinishImport
    BY <1>1, <2>2 DEF FinishImport, IInv, DraftIsReported
  <2>3. CASE instruments' = NoRows
    BY <2>3 DEF NoRows
  <2>4. instruments' = instruments \/ FinishImport \/ instruments' = NoRows
    BY <1>1 DEF Next, Migrate, CommitAndDrop, Surviving, universeVars, vars, UniverseStep,
                BeginImport, ImportSymbol, AbortImport, SelectInstruments, InsertSnapshot, AbortCapture
  <2> QED BY <2>1, <2>2, <2>3, <2>4
<1>2. IInv /\ [Next]_vars => Reported
  BY <1>1
<1>3. IInv /\ [Next]_vars => [Reported]_vars
  BY <1>2
<1> QED BY <1>3, IInvAlways, PTL DEF Spec, ChangesAreReported

(* Neither a second capture of a date, nor an import, nor a migration that *)
(* leaves the table changes a row of the universe's history.               *)
THEOREM HistoryIsFrozen == Spec => SnapshotsAreFrozen
<1> DEFINE Frozen ==
      HasTable("universe_snapshot")' =>
        \A k \in DOMAIN snapshots : k \in DOMAIN snapshots' /\ snapshots'[k] = snapshots[k]
<1>1. ASSUME [Next]_vars PROVE Frozen
  <2>1. CASE snapshots' = snapshots
    BY <2>1
  <2>2. CASE InsertSnapshot
    BY <2>2 DEF InsertSnapshot, DoNothing
  <2>3. CASE CommitAndDrop
    BY <2>3 DEF CommitAndDrop, CommitMigration, Surviving, HasTable
  <2>4. snapshots' = snapshots \/ InsertSnapshot \/ CommitAndDrop
    BY <1>1 DEF Next, Migrate, universeVars, vars, UniverseStep, BeginImport, ImportSymbol,
                FinishImport, AbortImport, SelectInstruments, AbortCapture
  <2> QED BY <2>1, <2>2, <2>3, <2>4
<1>2. [Next]_vars => [Frozen]_vars
  BY <1>1
<1> QED BY <1>2, PTL DEF Spec, SnapshotsAreFrozen
-----------------------------------------------------------------------------
(* -------- the schema and the runs -------- *)

(* "volatility" stands for the metrics that are never computed.            *)
Loose(c) ==
  /\ "backtest_metrics" \in TablesOf(c)
  /\ "volatility" \in c.tables["backtest_metrics"].nullable

HasTrigger(c) == \E g \in c.triggers : g.name = "backtest_run_append_only"

Shaped(c) ==
  /\ {"tables", "triggers"} \subseteq DOMAIN c
  /\ "backtest_metrics" \in TablesOf(c) => "nullable" \in DOMAIN c.tables["backtest_metrics"]

MigrationInPlace ==
  /\ revision \in 0..Latest
  /\ Shaped(catalog)
  /\ migration.running =>
       /\ DOMAIN migration = {"running", "to", "at", "done", "work", "locked"}
       /\ migration.to \in 0..Latest \ {revision}
       /\ migration.at \in 0..Latest
       /\ revision < migration.to => revision <= migration.at /\ migration.at <= migration.to
       /\ migration.to < revision => migration.to <= migration.at /\ migration.at <= revision
       /\ migration.done \in Nat
       /\ migration.at # migration.to => migration.done < Len(Script)
       /\ migration.at = migration.to => migration.done = 0
       /\ Shaped(migration.work)

(* The metrics accept a NULL at the head only, and there the trigger is.   *)
SchemaFollowsRevision ==
  /\ Loose(catalog) => revision = Latest
  /\ revision = Latest => HasTrigger(catalog)
  /\ migration.running =>
       /\ Loose(migration.work) => Latest \in {migration.at, migration.to}
       /\ migration.at = Latest /\ migration.done = 0 => HasTrigger(migration.work)

SessionsShaped ==
  /\ DOMAIN session = Connections
  /\ \A c \in Connections :
       \/ session[c] \in {Outside, Inside}
       \/ /\ DOMAIN session[c] = {"stage", "id", "strategy", "trial", "before", "nulls"}
          /\ session[c].stage \in {"counted", "inserted", "complete"}

(* Every run has a NULL metric, and needs the head for it.                 *)
RunsHoldNulls ==
  /\ \A r \in runs : "volatility" \in r.nulls
  /\ runs # {} => revision = Latest
  /\ \A c \in Connections :
       session[c].stage = "complete" => revision = Latest /\ "volatility" \in session[c].nulls

(* A migration that has come down from the head has met no run, and keeps  *)
(* the metrics to itself.                                                  *)
NoRunsBelowHead ==
  migration.running /\ revision = Latest /\ migration.at # Latest =>
    /\ runs = {}
    /\ \A c \in Connections : session[c].stage # "complete"
    /\ "backtest_metrics" \in DOMAIN migration.locked
    /\ migration.locked["backtest_metrics"] = "everyone"

PinInv ==
  /\ MigrationInPlace
  /\ SchemaFollowsRevision
  /\ SessionsShaped
  /\ RunsHoldNulls
  /\ NoRunsBelowHead

(* -------- the trial counts -------- *)

Ids(rs) == {r.id : r \in rs}

IdsAreFresh ==
  /\ IsFiniteSet(runs)
  /\ \A q, r \in runs : q.id = r.id => q = r
  /\ \A c \in Pending : session[c].id \notin Ids(runs)
  /\ \A c, d \in Pending : session[c].id = session[d].id => c = d

(* What a transaction counted, the committed runs still bear out.          *)
CountsHold ==
  /\ \A r \in runs : r.before \subseteq Ids(runs)
  /\ \A c \in Pending :
       /\ session[c].before \subseteq Ids(runs)
       /\ session[c].trial \in Nat
       /\ session[c].trial <= Cardinality(RunsOf(session[c].strategy))
       /\ \A q \in RunsOf(session[c].strategy) :
            q.id \in session[c].before => q.trial < session[c].trial

TrialInv ==
  /\ IdsAreFresh
  /\ CountsHold
  /\ \A r \in runs : r.trial \in Nat
  /\ TrialsFollowHistory
-----------------------------------------------------------------------------
(* -------- what the statements of the revisions do -------- *)

(* A statement that creates the metrics with a NOT NULL volatility, if it  *)
(* creates them; and one that makes no column nullable either.             *)
Mild(s) ==
  s.kind = "create_table" /\ s.on = "backtest_metrics" =>
    "nullable" \in DOMAIN s.def /\ "volatility" \notin s.def.nullable

Tame(s) == Mild(s) /\ s.kind # "drop_not_null"

TameScript(script) ==
  /\ Len(script) \in Nat \ {0}
  /\ \E S : script \in Seq(S) /\ \A s \in S : Tame(s)

LEMMA TameStatement ==
  ASSUME NEW script, TameScript(script), NEW k \in 1..Len(script)
  PROVE  Tame(script[k])
<1>1. PICK S : script \in Seq(S) /\ \A s \in S : Tame(s)
  BY DEF TameScript
<1>2. script[k] \in S
  BY <1>1
<1> QED BY <1>1, <1>2

LEMMA ConcatTame ==
  ASSUME NEW s, NEW t, TameScript(s), TameScript(t)
  PROVE  TameScript(s \o t)
<1>1. PICK S : s \in Seq(S) /\ \A x \in S : Tame(x)
  BY DEF TameScript
<1>2. PICK T : t \in Seq(T) /\ \A x \in T : Tame(x)
  BY DEF TameScript
<1>3. s \in Seq(S \union T) /\ t \in Seq(S \union T)
  BY <1>1, <1>2
<1>4. s \o t \in Seq(S \union T) /\ Len(s \o t) = Len(s) + Len(t)
  BY <1>3
<1>5. \A x \in S \union T : Tame(x)
  BY <1>1, <1>2
<1>6. Len(s) \in Nat \ {0} /\ Len(t) \in Nat \ {0}
  BY DEF TameScript
<1>7. Len(s \o t) \in Nat \ {0}
  BY <1>4, <1>6
<1> QED BY <1>4, <1>5, <1>7 DEF TameScript

(* A script given by its statements.                                       *)
LEMMA ListTame ==
  ASSUME NEW script, NEW n \in Nat, n > 0, script = [k \in 1..n |-> script[k]],
         \A k \in 1..n : Tame(script[k])
  PROVE  TameScript(script)
<1> DEFINE S == {script[k] : k \in 1..n}
<1>1. script \in Seq(S) /\ Len(script) = n
  BY script \in [1..n -> S]
<1>2. \A s \in S : Tame(s)
  OBVIOUS
<1> HIDE DEF S
<1> QED BY <1>1, <1>2 DEF TameScript

LEMMA BaselineIsTame == TameScript(Upgrade[1])
<1>1. TameScript(CreateTypes)
  <2>1. CreateTypes = [i \in 1..14 |-> CreateType(BaselineTypes[i])]
    BY DEF CreateTypes, BaselineTypes
  <2>2. CreateTypes = [k \in 1..14 |-> CreateTypes[k]]
    BY <2>1
  <2>3. \A k \in 1..14 : Tame(CreateTypes[k])
    BY <2>1 DEF CreateType, Tame, Mild
  <2> QED BY <2>2, <2>3, 14 \in Nat /\ 14 > 0, ListTame
<1>2. TameScript(CreateRoots)
  <2>1. CreateRoots = [k \in 1..6 |-> CreateRoots[k]]
    BY DEF CreateRoots
  <2>2. \A k \in 1..6 : CreateRoots[k].kind = "create_table" /\ CreateRoots[k].on # "backtest_metrics"
    BY DEF CreateRoots, CreateTable
  <2> QED BY <2>1, <2>2, 6 \in Nat /\ 6 > 0, ListTame DEF Tame, Mild
<1>3. TameScript(CreateInstruments)
  <2>1. CreateInstruments = [k \in 1..5 |-> CreateInstruments[k]]
    BY DEF CreateInstruments
  <2>2. \A k \in 1..5 : CreateInstruments[k].kind = "create_table"
    BY DEF CreateInstruments, CreateTable
  <2>3. \A k \in 1..5 : CreateInstruments[k].on = "backtest_metrics" => k = 4
    BY DEF CreateInstruments, CreateTable
  <2>4. "nullable" \in DOMAIN CreateInstruments[4].def /\ CreateInstruments[4].def.nullable = {}
    BY DEF CreateInstruments, CreateTable, Table
  <2>5. \A k \in 1..5 : Tame(CreateInstruments[k])
    BY <2>2, <2>3, <2>4 DEF Tame, Mild
  <2> QED BY <2>1, <2>5, 5 \in Nat /\ 5 > 0, ListTame
<1>4. TameScript(CreateSeries)
  <2>1. CreateSeries = [k \in 1..8 |-> CreateSeries[k]]
    BY DEF CreateSeries
  <2>2. \A k \in 1..8 : /\ CreateSeries[k].kind \in {"create_table", "create_hypertable"}
                        /\ CreateSeries[k].on # "backtest_metrics"
    BY DEF CreateSeries, CreateTable, Hypertable
  <2> QED BY <2>1, <2>2, 8 \in Nat /\ 8 > 0, ListTame DEF Tame, Mild
<1>5. TameScript(CreateOrderFlow)
  <2>1. CreateOrderFlow = [k \in 1..8 |-> CreateOrderFlow[k]]
    BY DEF CreateOrderFlow
  <2>2. \A k \in 1..8 : /\ CreateOrderFlow[k].kind = "create_table"
                        /\ CreateOrderFlow[k].on # "backtest_metrics"
    BY DEF CreateOrderFlow, CreateTable
  <2> QED BY <2>1, <2>2, 8 \in Nat /\ 8 > 0, ListTame DEF Tame, Mild
<1>6. TameScript(((CreateTypes \o CreateRoots) \o CreateInstruments) \o CreateSeries \o CreateOrderFlow)
  BY <1>1, <1>2, <1>3, <1>4, <1>5, ConcatTame
<1> QED BY <1>6 DEF Upgrade

LEMMA UpgradesAreTame == \A i \in 1..3 : TameScript(Upgrade[i])
<1>1. TameScript(UpgradeCheckpoint)
  <2>1. UpgradeCheckpoint = [k \in 1..2 |-> UpgradeCheckpoint[k]]
    BY DEF UpgradeCheckpoint
  <2>2. \A k \in 1..2 : Tame(UpgradeCheckpoint[k])
    BY DEF UpgradeCheckpoint, CreateTable, CreateType, Tame, Mild
  <2> QED BY <2>1, <2>2, 2 \in Nat /\ 2 > 0, ListTame
<1>2. TameScript(UpgradeQuality)
  <2>1. UpgradeQuality = [k \in 1..2 |-> UpgradeQuality[k]]
    BY DEF UpgradeQuality
  <2>2. \A k \in 1..2 : Tame(UpgradeQuality[k])
    BY DEF UpgradeQuality, CreateTable, CreateType, Tame, Mild
  <2> QED BY <2>1, <2>2, 2 \in Nat /\ 2 > 0, ListTame
<1>3. Upgrade[2] = UpgradeCheckpoint /\ Upgrade[3] = UpgradeQuality
  BY DEF Upgrade
<1> QED BY <1>1, <1>2, <1>3, BaselineIsTame

LEMMA DowngradesAreTame == \A i \in 1..Latest : TameScript(Downgrade[i])
<1>1. TameScript(DropTables)
  <2>1. DropTables = [i \in 1..24 |-> DropTable(DropOrder[i])]
    BY DEF DropTables, DropOrder
  <2>2. DropTables = [k \in 1..24 |-> DropTables[k]]
    BY <2>1
  <2>3. \A k \in 1..24 : Tame(DropTables[k])
    BY <2>1 DEF DropTable, Tame, Mild
  <2> QED BY <2>2, <2>3, 24 \in Nat /\ 24 > 0, ListTame
<1>2. TameScript(DropTypes)
  <2>1. DropTypes = [i \in 1..14 |-> DropType(BaselineTypes[i])]
    BY DEF DropTypes, BaselineTypes
  <2>2. DropTypes = [k \in 1..14 |-> DropTypes[k]]
    BY <2>1
  <2>3. \A k \in 1..14 : Tame(DropTypes[k])
    BY <2>1 DEF DropType, Tame, Mild
  <2> QED BY <2>2, <2>3, 14 \in Nat /\ 14 > 0, ListTame
<1>3. TameScript(DowngradeCheckpoint)
  <2>1. DowngradeCheckpoint = [k \in 1..2 |-> DowngradeCheckpoint[k]]
    BY DEF DowngradeCheckpoint
  <2>2. \A k \in 1..2 : Tame(DowngradeCheckpoint[k])
    BY DEF DowngradeCheckpoint, DropTable, DropType, Tame, Mild
  <2> QED BY <2>1, <2>2, 2 \in Nat /\ 2 > 0, ListTame
<1>4. TameScript(DowngradeQuality)
  <2>1. DowngradeQuality = [k \in 1..2 |-> DowngradeQuality[k]]
    BY DEF DowngradeQuality
  <2>2. \A k \in 1..2 : Tame(DowngradeQuality[k])
    BY DEF DowngradeQuality, DropTable, DropType, Tame, Mild
  <2> QED BY <2>1, <2>2, 2 \in Nat /\ 2 > 0, ListTame
<1>5. TameScript(DowngradeRegistry)
  <2>1. DowngradeRegistry = [k \in 1..3 |-> DowngradeRegistry[k]]
    BY DEF DowngradeRegistry
  <2>2. \A k \in 1..3 : Tame(DowngradeRegistry[k])
    BY DEF DowngradeRegistry, DropTrigger, DropFunction, SetNotNull, Tame, Mild
  <2> QED BY <2>1, <2>2, 3 \in Nat /\ 3 > 0, ListTame
<1>6. /\ Downgrade[1] = DropTables \o DropTypes /\ Downgrade[2] = DowngradeCheckpoint
      /\ Downgrade[3] = DowngradeQuality /\ Downgrade[4] = DowngradeRegistry
  BY DEF Downgrade
<1>7. TameScript(Downgrade[1])
  BY <1>1, <1>2, <1>6, ConcatTame
<1>8. \A i \in 1..Latest : i \in {1, 2, 3, 4}
  BY DEF Latest
<1> QED BY <1>3, <1>4, <1>5, <1>6, <1>7, <1>8

(* One statement keeps the shape, and makes the metrics nullable only if   *)
(* it says so.                                                             *)
LEMMA ApplyShaped ==
  ASSUME NEW s, NEW c, Shaped(c), Mild(s)
  PROVE  /\ Shaped(Apply(s, c))
         /\ Tame(s) /\ Loose(Apply(s, c)) => Loose(c)
<1> DEFINE bm == "backtest_metrics"
<1>0. "tables" \in DOMAIN c /\ "triggers" \in DOMAIN c
  BY DEF Shaped
<1>1. CASE s.kind \in {"create_type", "drop_type", "create_function", "drop_function", "create_trigger"}
  <2>1. Apply(s, c).tables = c.tables /\ DOMAIN Apply(s, c) = DOMAIN c
    BY <1>0, <1>1 DEF Apply
  <2> QED BY <2>1 DEF Shaped, Loose, TablesOf
<1>2. CASE s.kind = "create_table"
  <2>1. /\ Apply(s, c).tables = [t \in TablesOf(c) \union {s.on} |-> IF t = s.on THEN s.def ELSE c.tables[t]]
        /\ DOMAIN Apply(s, c) = DOMAIN c
    BY <1>0, <1>2 DEF Apply
  <2>2. CASE s.on = bm
    <3>1. Apply(s, c).tables[bm] = s.def /\ "nullable" \in DOMAIN s.def /\ "volatility" \notin s.def.nullable
      BY <1>2, <2>1, <2>2 DEF Mild
    <3> QED BY <1>0, <2>1, <3>1 DEF Shaped, Loose
  <2>3. CASE s.on # bm
    <3>1. /\ bm \in TablesOf(Apply(s, c)) <=> bm \in TablesOf(c)
          /\ bm \in TablesOf(c) => Apply(s, c).tables[bm] = c.tables[bm]
      BY <2>1, <2>3 DEF TablesOf
    <3> QED BY <2>1, <3>1 DEF Shaped, Loose
  <2> QED BY <2>2, <2>3
<1>3. CASE s.kind = "create_hypertable"
  <2>1. /\ Apply(s, c).tables = [c.tables EXCEPT ![s.on].partition = s.column]
        /\ DOMAIN Apply(s, c) = DOMAIN c
    BY <1>0, <1>3 DEF Apply
  <2>2. TablesOf(Apply(s, c)) = TablesOf(c)
    BY <2>1 DEF TablesOf
  <2>3. bm \in TablesOf(c) =>
          /\ DOMAIN Apply(s, c).tables[bm] = DOMAIN c.tables[bm]
          /\ Apply(s, c).tables[bm].nullable = c.tables[bm].nullable
    BY <2>1 DEF TablesOf
  <2> QED BY <2>1, <2>2, <2>3 DEF Shaped, Loose
<1>4. CASE s.kind = "drop_table"
  <2>1. /\ Apply(s, c).tables = [t \in TablesOf(c) \ {s.on} |-> c.tables[t]]
        /\ DOMAIN Apply(s, c) = DOMAIN c
    BY <1>0, <1>4 DEF Apply
  <2>2. bm \in TablesOf(Apply(s, c)) =>
          bm \in TablesOf(c) /\ Apply(s, c).tables[bm] = c.tables[bm]
    BY <2>1 DEF TablesOf
  <2> QED BY <2>1, <2>2 DEF Shaped, Loose
<1>5. CASE s.kind = "drop_not_null"
  <2>1. /\ Apply(s, c).tables = [c.tables EXCEPT ![s.on].nullable = @ \union s.columns]
        /\ DOMAIN Apply(s, c) = DOMAIN c
    BY <1>0, <1>5 DEF Apply
  <2>2. TablesOf(Apply(s, c)) = TablesOf(c)
    BY <2>1 DEF TablesOf
  <2>3. bm \in TablesOf(c) => DOMAIN Apply(s, c).tables[bm] = DOMAIN c.tables[bm]
    BY <2>1 DEF TablesOf
  <2> QED BY <1>5, <2>1, <2>2, <2>3 DEF Shaped, Tame
<1>6. CASE s.kind = "set_not_null"
  <2>1. /\ Apply(s, c).tables = [c.tables EXCEPT ![s.on].nullable = @ \ s.columns]
        /\ DOMAIN Apply(s, c) = DOMAIN c
    BY <1>0, <1>6 DEF Apply
  <2>2. TablesOf(Apply(s, c)) = TablesOf(c)
    BY <2>1 DEF TablesOf
  <2>3. bm \in TablesOf(c) =>
          /\ DOMAIN Apply(s, c).tables[bm] = DOMAIN c.tables[bm]
          /\ Apply(s, c).tables[bm].nullable \subseteq c.tables[bm].nullable
    <3>1. CASE s.on = bm
      BY <2>1, <3>1 DEF TablesOf, Shaped
    <3>2. CASE s.on # bm
      BY <2>1, <3>2 DEF TablesOf
    <3> QED BY <3>1, <3>2
  <2> QED BY <2>1, <2>2, <2>3 DEF Shaped, Loose
<1>7. CASE s.kind \notin {"create_type", "drop_type", "create_function", "drop_function", "create_trigger",
                          "create_table", "create_hypertable", "drop_not_null", "set_not_null", "drop_table"}
  <2>1. Apply(s, c) = [c EXCEPT !.triggers = {g \in @ : <<g.name, g.on>> # <<s.name, s.on>>}]
    BY <1>7 DEF Apply
  <2>2. Apply(s, c).tables = c.tables /\ DOMAIN Apply(s, c) = DOMAIN c
    BY <1>0, <2>1
  <2> QED BY <2>2 DEF Shaped, Loose, TablesOf
<1> QED BY <1>1, <1>2, <1>3, <1>4, <1>5, <1>6, <1>7

(* The script a migration is in, and its statement.                        *)
LEMMA StatementIsMild ==
  ASSUME MigrationInPlace, Unfinished
  PROVE  /\ Len(Script) \in Nat \ {0} /\ Mild(Statement)
         /\ migration.at < migration.to /\ migration.at + 1 = Latest => Len(Script) = 3 /\ Script = UpgradeRegistry
         /\ ~(migration.at < migration.to) /\ migration.at = Latest => Len(Script) = 3 /\ Script = DowngradeRegistry
         /\ ~(migration.at < migration.to /\ migration.at + 1 = Latest) => Tame(Statement)
<1> DEFINE up == migration.at < migration.to
<1>1. /\ migration.running /\ migration.at # migration.to
      /\ migration.at \in 0..4 /\ migration.to \in 0..4 /\ migration.done \in Nat
      /\ migration.done < Len(Script)
  BY DEF Unfinished, MigrationInPlace, Latest
<1>2. CASE up /\ migration.at + 1 = Latest
  <2>1. Script = UpgradeRegistry
    BY <1>2 DEF Script, Upgrade, Latest
  <2>2. Len(UpgradeRegistry) = 3
    BY DEF UpgradeRegistry
  <2>3. \A k \in 1..3 : UpgradeRegistry[k].kind # "create_table"
    BY DEF UpgradeRegistry, DropNotNull, CreateFunction, CreateTrigger
  <2>4. migration.done + 1 \in 1..3
    BY <1>1, <2>1, <2>2
  <2>5. Mild(Statement)
    BY <2>1, <2>3, <2>4 DEF Statement, Mild
  <2> QED BY <1>1, <1>2, <2>1, <2>2, <2>5
<1>3. CASE up /\ migration.at + 1 # Latest
  <2>1. migration.at + 1 \in 1..3
    BY <1>1, <1>3 DEF Latest
  <2>2. TameScript(Script)
    BY <1>3, <2>1, UpgradesAreTame DEF Script
  <2>3. migration.done + 1 \in 1..Len(Script) /\ Len(Script) \in Nat \ {0}
    BY <1>1, <2>2 DEF TameScript
  <2>4. Tame(Statement)
    BY <2>2, <2>3, TameStatement DEF Statement
  <2> QED BY <1>3, <2>3, <2>4 DEF Tame
<1>4. CASE ~up
  <2>1. migration.at \in 1..Latest
    BY <1>1, <1>4 DEF Latest
  <2>2. TameScript(Script)
    BY <1>4, <2>1, DowngradesAreTame DEF Script
  <2>3. migration.done + 1 \in 1..Len(Script) /\ Len(Script) \in Nat \ {0}
    BY <1>1, <2>2 DEF TameScript
  <2>4. Tame(Statement)
    BY <2>2, <2>3, TameStatement DEF Statement
  <2>5. migration.at = Latest => Script = DowngradeRegistry /\ Len(Script) = 3
    <3>1. Len(DowngradeRegistry) = 3
      BY DEF DowngradeRegistry
    <3>2. migration.at = Latest => Script = DowngradeRegistry
      BY <1>4 DEF Script, Downgrade, Latest
    <3> QED BY <3>1, <3>2
  <2> QED BY <1>4, <2>3, <2>4, <2>5 DEF Tame
<1> QED BY <1>2, <1>3, <1>4

(* Every script has a statement.                                           *)
LEMMA ScriptsAreLong == \A i \in 1..Latest : Len(Upgrade[i]) > 0 /\ Len(Downgrade[i]) > 0
<1>1. \A i \in 1..3 : Len(Upgrade[i]) > 0
  BY UpgradesAreTame DEF TameScript
<1>2. Len(Upgrade[4]) > 0
  BY DEF Upgrade, UpgradeRegistry
<1>3. \A i \in 1..Latest : Len(Downgrade[i]) > 0
  BY DowngradesAreTame DEF TameScript
<1> QED BY <1>1, <1>2, <1>3 DEF Latest
-----------------------------------------------------------------------------
(* -------- the head is pinned -------- *)

LEMMA InitPinInv == Init => PinInv
<1> SUFFICES ASSUME Init PROVE PinInv
  OBVIOUS
<1>1. /\ catalog = EmptyCatalog /\ revision = 0 /\ migration.running = FALSE
      /\ runs = {} /\ session = [c \in Connections |-> Outside]
  BY DEF Init, MigrationInit, RegistryInit, NoMigration
<1>2. DOMAIN catalog = {"tables", "types", "functions", "triggers"} /\ TablesOf(catalog) = {}
  BY <1>1 DEF EmptyCatalog, TablesOf
<1>3. MigrationInPlace /\ SchemaFollowsRevision
  BY <1>1, <1>2 DEF MigrationInPlace, SchemaFollowsRevision, Shaped, Loose, Latest
<1>4. SessionsShaped /\ RunsHoldNulls
  BY <1>1 DEF SessionsShaped, RunsHoldNulls, Outside
<1> QED BY <1>1, <1>3, <1>4 DEF PinInv, NoRunsBelowHead

LEMMA PinBeginStep ==
  ASSUME PinInv, NEW target \in Targets, BeginMigration(target), UNCHANGED registryVars
  PROVE  PinInv'
<1>1. /\ UNCHANGED <<catalog, revision, runs, session>> /\ target \in 0..Latest \ {revision}
      /\ migration' = [running |-> TRUE, to |-> target, at |-> revision, done |-> 0, work |-> catalog,
                       locked |-> [t \in {} |-> "everyone"]]
      /\ revision \in 0..Latest /\ Shaped(catalog)
  BY TargetsAssumption DEF BeginMigration, registryVars, PinInv, MigrationInPlace
<1>2. Script' = IF revision < target THEN Upgrade[revision + 1] ELSE Downgrade[revision]
  BY <1>1 DEF Script
<1>3. Len(Script') > 0
  <2>1. revision < target => revision + 1 \in 1..Latest
    BY <1>1 DEF Latest
  <2>2. ~(revision < target) => revision \in 1..Latest
    BY <1>1 DEF Latest
  <2> QED BY <1>2, <2>1, <2>2, ScriptsAreLong
<1>4. /\ DOMAIN migration' = {"running", "to", "at", "done", "work", "locked"}
      /\ migration'.to = target /\ migration'.at = revision /\ migration'.done = 0
      /\ migration'.work = catalog /\ migration'.running
  BY <1>1
<1>5. MigrationInPlace'
  BY <1>1, <1>3, <1>4 DEF MigrationInPlace, Shaped, TablesOf, Latest
<1>6. SchemaFollowsRevision'
  BY <1>1, <1>4 DEF PinInv, SchemaFollowsRevision, Loose, TablesOf, HasTrigger
<1> QED BY <1>1, <1>4, <1>5, <1>6 DEF PinInv, SessionsShaped, RunsHoldNulls, NoRunsBelowHead

(* The transaction ends without a commit.                                  *)
LEMMA PinRollbackStep ==
  ASSUME PinInv, migration' = NoMigration, UNCHANGED <<catalog, revision, registryVars>>
  PROVE  PinInv'
<1>1. migration'.running = FALSE /\ UNCHANGED <<catalog, revision, runs, session>>
  BY DEF NoMigration, registryVars
<1> QED BY <1>1 DEF PinInv, MigrationInPlace, SchemaFollowsRevision, SessionsShaped, RunsHoldNulls,
                    NoRunsBelowHead, Shaped, Loose, HasTrigger, TablesOf

LEMMA PinElsewhereStep ==
  ASSUME PinInv, UNCHANGED <<migrationVars, registryVars>>
  PROVE  PinInv'
<1>1. UNCHANGED <<catalog, revision, migration, runs, session>>
  BY DEF migrationVars, registryVars
<1> QED BY <1>1 DEF PinInv, MigrationInPlace, SchemaFollowsRevision, SessionsShaped, RunsHoldNulls,
                    NoRunsBelowHead, Shaped, Loose, HasTrigger, TablesOf, Script

(* The commit: what the last script left is what the revision promises.    *)
LEMMA PinCommitStep == ASSUME PinInv, CommitAndDrop PROVE PinInv'
<1>1. /\ migration.running /\ migration.at = migration.to /\ migration'.running = FALSE
      /\ catalog' = migration.work /\ revision' = migration.to /\ session' = session
      /\ runs' = Surviving("backtest_run", runs, {})
  BY DEF CommitAndDrop, CommitMigration, NoMigration
<1>2. /\ revision \in 0..Latest /\ migration.to \in 0..Latest \ {revision}
      /\ migration.done = 0 /\ Shaped(migration.work)
  BY <1>1 DEF PinInv, MigrationInPlace
<1>3. MigrationInPlace'
  BY <1>1, <1>2 DEF MigrationInPlace, Shaped, TablesOf
<1>4. SchemaFollowsRevision'
  BY <1>1, <1>2 DEF PinInv, SchemaFollowsRevision, Loose, HasTrigger, TablesOf
<1>5. runs = {} /\ \A c \in Connections : session[c].stage # "complete"
  <2>1. CASE revision = Latest
    BY <1>1, <1>2, <2>1 DEF PinInv, NoRunsBelowHead
  <2>2. CASE revision # Latest
    BY <2>2 DEF PinInv, RunsHoldNulls
  <2> QED BY <2>1, <2>2
<1>6. runs' = {}
  BY <1>1, <1>5 DEF Surviving
<1>7. SessionsShaped' /\ RunsHoldNulls' /\ NoRunsBelowHead'
  BY <1>1, <1>5, <1>6 DEF PinInv, SessionsShaped, RunsHoldNulls, NoRunsBelowHead
<1> QED BY <1>3, <1>4, <1>7 DEF PinInv

(* One statement.  The last one of the downgrade from the head is refused  *)
(* while a run is committed, and waits while one is about to be.           *)
LEMMA PinExecuteStep ==
  ASSUME PinInv, Execute(Uses, NullColumns), UNCHANGED registryVars
  PROVE  PinInv'
<1> DEFINE up    == migration.at < migration.to
           work  == migration.work
           locks == Locks(Statement, work)
<1>1. /\ UNCHANGED <<catalog, revision, runs, session>> /\ Unfinished
      /\ migration.running /\ migration.at # migration.to
      /\ ~Conflict(locks, Uses) /\ Can(Statement, work, NullColumns)
  BY DEF Execute, Unfinished, registryVars
<1>2. /\ revision \in 0..4 /\ migration.to \in 0..4 /\ migration.to # revision
      /\ migration.at \in 0..4 /\ migration.done \in Nat /\ migration.done < Len(Script)
      /\ DOMAIN migration = {"running", "to", "at", "done", "work", "locked"} /\ Shaped(work)
      /\ revision < migration.to => revision <= migration.at /\ migration.at <= migration.to
      /\ migration.to < revision => migration.to <= migration.at /\ migration.at <= revision
  BY <1>1 DEF PinInv, MigrationInPlace, Latest
<1>3. /\ migration'.work = Apply(Statement, work)
      /\ migration'.at = Place.at /\ migration'.done = Place.done
      /\ migration'.locked = [t \in DOMAIN migration.locked \union DOMAIN locks |->
                                IF \/ t \in DOMAIN migration.locked /\ migration.locked[t] = "everyone"
                                   \/ t \in DOMAIN locks /\ locks[t] = "everyone"
                                THEN "everyone" ELSE "writers"]
      /\ DOMAIN migration' = DOMAIN migration
      /\ migration'.running = migration.running /\ migration'.to = migration.to
  BY <1>2 DEF Execute
<1>4. /\ Len(Script) \in Nat \ {0} /\ Mild(Statement)
      /\ up /\ migration.at + 1 = 4 => Len(Script) = 3 /\ Script = UpgradeRegistry
      /\ ~up /\ migration.at = 4 => Len(Script) = 3 /\ Script = DowngradeRegistry
      /\ ~(up /\ migration.at + 1 = 4) => Tame(Statement)
  BY <1>1, StatementIsMild DEF PinInv, Latest
<1>5. \/ /\ migration.done + 1 < Len(Script)
         /\ Place.at = migration.at /\ Place.done = migration.done + 1
      \/ /\ migration.done + 1 = Len(Script) /\ Place.done = 0
         /\ Place.at = IF up THEN migration.at + 1 ELSE migration.at - 1
  BY <1>2, <1>4 DEF Place
<1>6. Shaped(migration'.work) /\ (Tame(Statement) /\ Loose(migration'.work) => Loose(work))
  BY <1>2, <1>3, <1>4, ApplyShaped
<1>7. MigrationInPlace'
  <2>1. migration'.at # migration'.to => migration'.done < Len(Script')
    <3>1. Script' = IF migration'.at < migration'.to THEN Upgrade[migration'.at + 1] ELSE Downgrade[migration'.at]
      BY DEF Script
    <3>2. CASE Place.at = migration.at /\ Place.done = migration.done + 1 /\ migration.done + 1 < Len(Script)
      <4>1. Script' = Script
        BY <1>3, <3>1, <3>2 DEF Script
      <4> QED BY <1>3, <3>2, <4>1
    <3>3. CASE Place.done = 0 /\ Place.at = IF up THEN migration.at + 1 ELSE migration.at - 1
      <4>1. SUFFICES ASSUME migration'.at # migration'.to PROVE Len(Script') > 0
        BY <1>3, <3>3
      <4>2. migration'.at < migration'.to => migration'.at + 1 \in 1..Latest
        BY <1>1, <1>2, <1>3, <3>3 DEF Latest
      <4>3. ~(migration'.at < migration'.to) => migration'.at \in 1..Latest
        BY <1>1, <1>2, <1>3, <3>3, <4>1 DEF Latest
      <4> QED BY <3>1, <4>2, <4>3, ScriptsAreLong
    <3> QED BY <1>5, <3>2, <3>3
  <2>2. /\ migration'.at \in 0..4 /\ migration'.done \in Nat
        /\ revision < migration.to => revision <= migration'.at /\ migration'.at <= migration.to
        /\ migration.to < revision => migration.to <= migration'.at /\ migration'.at <= revision
    BY <1>1, <1>2, <1>3, <1>4, <1>5
  <2>3. migration'.at = migration'.to => migration'.done = 0
    BY <1>1, <1>3, <1>5
  <2>4. Shaped(catalog)'
    BY <1>1 DEF PinInv, MigrationInPlace, Shaped, TablesOf
  <2>5. Shaped(migration.work)'
    BY <1>6 DEF Shaped, TablesOf
  <2> QED BY <1>1, <1>2, <1>3, <2>1, <2>2, <2>3, <2>4, <2>5 DEF MigrationInPlace, Latest
<1>8. CASE up
  <2>1. revision < migration.to /\ revision < 4
    BY <1>1, <1>2, <1>8
  <2>2. Loose(migration'.work) => 4 \in {migration'.at, migration'.to}
    <3>1. CASE migration.at + 1 = 4
      BY <1>2, <1>3, <1>8, <3>1
    <3>2. CASE migration.at + 1 # 4
      <4>1. Loose(migration'.work) => Loose(work)
        BY <1>4, <1>6, <3>2
      <4>2. Loose(work) => 4 \in {migration.at, migration.to}
        BY <1>1 DEF PinInv, SchemaFollowsRevision, Latest
      <4> QED BY <1>2, <1>3, <1>8, <4>1, <4>2
    <3> QED BY <3>1, <3>2
  <2>3. migration'.at = 4 /\ migration'.done = 0 => HasTrigger(migration'.work)
    <3>1. SUFFICES ASSUME migration'.at = 4, migration'.done = 0 PROVE HasTrigger(migration'.work)
      OBVIOUS
    <3>2. migration.at + 1 = 4 /\ migration.done + 1 = Len(Script)
      BY <1>2, <1>3, <1>5, <1>8, <3>1
    <3>3. Statement = UpgradeRegistry[3]
      BY <1>4, <1>8, <3>2 DEF Statement
    <3>4. Statement = CreateTrigger("backtest_run_append_only", "backtest_run", "prevent_backtest_run_mutation")
      BY <3>3 DEF UpgradeRegistry
    <3>5. Apply(Statement, work).triggers = work.triggers \union
            {[name |-> "backtest_run_append_only", on |-> "backtest_run",
              function |-> "prevent_backtest_run_mutation"]}
      BY <1>2, <3>4 DEF Apply, CreateTrigger, Shaped
    <3>6. [name |-> "backtest_run_append_only", on |-> "backtest_run",
           function |-> "prevent_backtest_run_mutation"].name = "backtest_run_append_only"
      OBVIOUS
    <3> QED BY <1>3, <3>5, <3>6 DEF HasTrigger
  <2>4. SchemaFollowsRevision'
    BY <1>1, <2>2, <2>3 DEF PinInv, SchemaFollowsRevision, Loose, HasTrigger, TablesOf, Latest
  <2>5. NoRunsBelowHead'
    BY <1>1, <2>1 DEF NoRunsBelowHead, Latest
  <2> QED BY <1>1, <1>7, <2>4, <2>5 DEF PinInv, SessionsShaped, RunsHoldNulls
<1>9. CASE ~up
  <2>1. migration.to < revision /\ migration.to < 4 /\ Tame(Statement) /\ migration'.at <= migration.at
    BY <1>1, <1>2, <1>3, <1>4, <1>5, <1>9
  <2>2. CASE migration.at = 4 /\ migration'.at # 4
    <3>1. migration.done + 1 = 3 /\ Script = DowngradeRegistry
      BY <1>3, <1>4, <1>5, <1>9, <2>2
    <3>2. Statement = SetNotNull("backtest_metrics", NullableMetrics)
      BY <3>1 DEF Statement, DowngradeRegistry
    <3>3. /\ Statement.kind = "set_not_null" /\ Statement.on = "backtest_metrics"
          /\ Statement.columns = NullableMetrics /\ "volatility" \in NullableMetrics
      BY <3>2 DEF SetNotNull, NullableMetrics
    <3>4. ~Loose(migration'.work)
      <4>1. Apply(Statement, work).tables =
              [work.tables EXCEPT !["backtest_metrics"].nullable = @ \ NullableMetrics]
        BY <1>2, <3>3 DEF Apply, Shaped
      <4>2. "backtest_metrics" \in TablesOf(work)
        BY <1>1, <3>3 DEF Can
      <4>3. Apply(Statement, work).tables["backtest_metrics"].nullable =
              work.tables["backtest_metrics"].nullable \ NullableMetrics
        BY <1>2, <4>1, <4>2 DEF Shaped, TablesOf
      <4> QED BY <1>3, <3>3, <4>3 DEF Loose
    <3>5. runs = {}
      <4>1. ASSUME NEW r \in runs PROVE FALSE
        <5>1. <<"backtest_metrics", "volatility">> \in NullColumns
          BY <4>1 DEF NullColumns, PinInv, RunsHoldNulls
        <5>2. \A col \in NullableMetrics : <<"backtest_metrics", col>> \notin NullColumns
          BY <1>1, <3>3 DEF Can
        <5> QED BY <3>3, <5>1, <5>2
      <4> QED BY <4>1
    <3>6. locks = [t \in {"backtest_metrics"} |-> "everyone"]
      BY <3>3 DEF Locks
    <3>7. \A c \in Connections : session[c].stage # "complete"
      <4>1. SUFFICES ASSUME NEW c \in Connections, session[c].stage = "complete" PROVE FALSE
        OBVIOUS
      <4>2. <<"backtest_metrics", "write">> \in SessionUses(c)
        BY <4>1 DEF SessionUses, MetricsUses
      <4>3. <<"backtest_metrics", "write">> \in Uses
        BY <4>2 DEF Uses
      <4>4. <<"backtest_metrics", "write">>[1] = "backtest_metrics"
        OBVIOUS
      <4> QED BY <1>1, <3>6, <4>3, <4>4 DEF Conflict
    <3>8. /\ "backtest_metrics" \in DOMAIN migration'.locked
          /\ migration'.locked["backtest_metrics"] = "everyone"
      BY <1>3, <3>6
    <3>9. SchemaFollowsRevision'
      BY <1>1, <1>3, <2>2, <3>4 DEF PinInv, SchemaFollowsRevision, Loose, HasTrigger, TablesOf, Latest
    <3>10. NoRunsBelowHead'
      BY <1>1, <3>5, <3>7, <3>8 DEF NoRunsBelowHead
    <3> QED BY <1>1, <1>7, <3>9, <3>10 DEF PinInv, SessionsShaped, RunsHoldNulls
  <2>3. CASE ~(migration.at = 4 /\ migration'.at # 4)
    <3>1. migration'.at = 4 <=> migration.at = 4
      BY <1>2, <1>3, <1>5, <1>9, <2>3
    <3>2. migration'.at = 4 => migration'.done # 0
      BY <1>2, <1>3, <1>5, <1>9, <3>1
    <3>3. Loose(migration'.work) => 4 \in {migration'.at, migration'.to}
      BY <1>1, <1>3, <1>6, <2>1, <3>1 DEF PinInv, SchemaFollowsRevision, Latest
    <3>4. SchemaFollowsRevision'
      BY <1>1, <3>2, <3>3 DEF PinInv, SchemaFollowsRevision, Loose, HasTrigger, TablesOf, Latest
    <3>5. NoRunsBelowHead'
      <4>1. SUFFICES ASSUME revision = 4, migration'.at # 4 PROVE NoRunsBelowHead'
        BY <1>1 DEF NoRunsBelowHead, Latest
      <4>2. /\ runs = {} /\ \A c \in Connections : session[c].stage # "complete"
            /\ "backtest_metrics" \in DOMAIN migration.locked
            /\ migration.locked["backtest_metrics"] = "everyone"
        BY <1>1, <3>1, <4>1 DEF PinInv, NoRunsBelowHead, Latest
      <4>3. /\ "backtest_metrics" \in DOMAIN migration'.locked
            /\ migration'.locked["backtest_metrics"] = "everyone"
        BY <1>3, <4>2
      <4> QED BY <1>1, <4>2, <4>3 DEF NoRunsBelowHead
    <3> QED BY <1>1, <1>7, <3>4, <3>5 DEF PinInv, SessionsShaped, RunsHoldNulls
  <2> QED BY <2>2, <2>3
<1> QED BY <1>8, <1>9

(* A transaction that moves without touching the metrics.                  *)
SessionShape(v) ==
  \/ v \in {Outside, Inside}
  \/ /\ DOMAIN v = {"stage", "id", "strategy", "trial", "before", "nulls"}
     /\ v.stage \in {"counted", "inserted", "complete"}

LEMMA PinSessionStep ==
  ASSUME PinInv, UNCHANGED <<migrationVars, runs>>, NEW c \in Connections, NEW v,
         session' = [session EXCEPT ![c] = v], SessionShape(v), v.stage # "complete"
  PROVE  PinInv'
<1>1. UNCHANGED <<catalog, revision, migration>>
  BY DEF migrationVars
<1>2. DOMAIN session = Connections
  BY DEF PinInv, SessionsShaped
<1>3. \A d \in Connections : session'[d] = IF d = c THEN v ELSE session[d]
  BY <1>2
<1>4. SessionsShaped'
  BY <1>2, <1>3 DEF PinInv, SessionsShaped, SessionShape
<1>5. RunsHoldNulls' /\ NoRunsBelowHead'
  BY <1>1, <1>3 DEF PinInv, RunsHoldNulls, NoRunsBelowHead
<1> QED
  BY <1>1, <1>4, <1>5 DEF PinInv, MigrationInPlace, SchemaFollowsRevision, Shaped, Loose, HasTrigger,
                          TablesOf, Script

(* NULL metrics go into the head's table only, and not once a downgrade    *)
(* has locked it.                                                          *)
LEMMA PinInsertStep ==
  ASSUME PinInv, UNCHANGED migrationVars, NEW c \in Connections, NEW missing, InsertMetrics(c, missing)
  PROVE  PinInv'
<1> DEFINE v == [session[c] EXCEPT !.stage = "complete", !.nulls = NeverComputed \union missing]
<1>1. /\ UNCHANGED <<catalog, revision, migration, runs>> /\ session[c].stage = "inserted"
      /\ Free(MetricsUses) /\ NeverComputed \union missing \subseteq NullableNow
      /\ session' = [session EXCEPT ![c].stage = "complete", ![c].nulls = NeverComputed \union missing]
  BY DEF InsertMetrics, migrationVars
<1>2. /\ DOMAIN session = Connections
      /\ DOMAIN session[c] = {"stage", "id", "strategy", "trial", "before", "nulls"}
  BY <1>1 DEF PinInv, SessionsShaped, Outside, Inside
<1>3. /\ \A d \in Connections \ {c} : session'[d] = session[d]
      /\ DOMAIN session' = Connections /\ DOMAIN session'[c] = DOMAIN session[c]
      /\ session'[c].stage = "complete" /\ session'[c].nulls = NeverComputed \union missing
  BY <1>1, <1>2
<1>4. "volatility" \in NeverComputed
  BY DEF NeverComputed
<1>5. Loose(catalog)
  BY <1>1, <1>4 DEF NullableNow, Has, Loose
<1>6. revision = Latest
  BY <1>5 DEF PinInv, SchemaFollowsRevision
<1>7. ~(migration.running /\ migration.at # Latest)
  <2>1. SUFFICES ASSUME migration.running, migration.at # Latest PROVE FALSE
    OBVIOUS
  <2>2. /\ "backtest_metrics" \in DOMAIN migration.locked
        /\ migration.locked["backtest_metrics"] = "everyone"
    BY <1>6, <2>1 DEF PinInv, NoRunsBelowHead
  <2>3. <<"backtest_metrics", "write">> \in MetricsUses
    BY DEF MetricsUses
  <2>4. <<"backtest_metrics", "write">>[1] = "backtest_metrics"
    OBVIOUS
  <2> QED BY <1>1, <2>1, <2>2, <2>3, <2>4 DEF Free, Conflict
<1>8. SessionsShaped'
  BY <1>1, <1>2, <1>3 DEF PinInv, SessionsShaped
<1>9. RunsHoldNulls' /\ NoRunsBelowHead'
  BY <1>1, <1>3, <1>4, <1>6, <1>7 DEF PinInv, RunsHoldNulls, NoRunsBelowHead
<1> QED
  BY <1>1, <1>8, <1>9 DEF PinInv, MigrationInPlace, SchemaFollowsRevision, Shaped, Loose, HasTrigger,
                          TablesOf, Script

LEMMA PinCommitRunStep ==
  ASSUME PinInv, UNCHANGED migrationVars, NEW c \in Connections, CommitRun(c)
  PROVE  PinInv'
<1> DEFINE txn == session[c]
           new == [id |-> txn.id, strategy |-> txn.strategy, trial |-> txn.trial,
                   before |-> txn.before, nulls |-> txn.nulls]
<1>1. /\ UNCHANGED <<catalog, revision, migration>> /\ txn.stage = "complete"
      /\ runs' = runs \union {new} /\ session' = [session EXCEPT ![c] = Outside]
  BY DEF CommitRun, migrationVars
<1>2. DOMAIN session = Connections
  BY DEF PinInv, SessionsShaped
<1>3. revision = Latest /\ "volatility" \in new.nulls
  BY <1>1 DEF PinInv, RunsHoldNulls
<1>4. ~(migration.running /\ migration.at # Latest)
  BY <1>1, <1>3 DEF PinInv, NoRunsBelowHead
<1>5. \A d \in Connections : session'[d] = IF d = c THEN Outside ELSE session[d]
  BY <1>1, <1>2
<1>6. SessionsShaped'
  BY <1>1, <1>2, <1>5 DEF PinInv, SessionsShaped
<1>7. Outside.stage # "complete"
  BY DEF Outside
<1>8. RunsHoldNulls'
  BY <1>1, <1>3, <1>5, <1>7 DEF PinInv, RunsHoldNulls
<1>9. NoRunsBelowHead'
  BY <1>1, <1>4 DEF NoRunsBelowHead
<1> QED
  BY <1>1, <1>6, <1>8, <1>9 DEF PinInv, MigrationInPlace, SchemaFollowsRevision, Shaped, Loose,
                                HasTrigger, TablesOf, Script

(* The trigger is there whenever a run is, for both its operations.        *)
LEMMA TriggerRaises ==
  ASSUME PinInv, NEW r \in runs, NEW s, UpdateRun(r, s) \/ DeleteRun(r)
  PROVE  UNCHANGED registryVars
<1>1. revision = Latest
  BY DEF PinInv, RunsHoldNulls
<1>2. Protected
  BY <1>1 DEF PinInv, SchemaFollowsRevision, HasTrigger, Protected
<1> QED BY <1>2 DEF UpdateRun, DeleteRun, registryVars

LEMMA PinRegistryStep ==
  ASSUME PinInv, RegistryStep, UNCHANGED migrationVars
  PROVE  PinInv'
<1>1. ASSUME NEW r \in runs, NEW s, UpdateRun(r, s) \/ DeleteRun(r) PROVE PinInv'
  BY <1>1, TriggerRaises, PinElsewhereStep
<1>2. ASSUME NEW c \in Connections, ConnectionStep(c) PROVE PinInv'
  <2>1. Outside.stage # "complete" /\ Inside.stage # "complete" /\ SessionShape(Outside) /\ SessionShape(Inside)
    BY DEF Outside, Inside, SessionShape
  <2>2. CASE Enter(c)
    BY <2>1, <2>2, PinSessionStep DEF Enter
  <2>3. CASE Exit(c)
    BY <2>1, <2>3, PinSessionStep DEF Exit
  <2>4. CASE AbortRun(c)
    BY <2>1, <2>4, PinSessionStep DEF AbortRun
  <2>5. ASSUME NEW missing, MetricsRefused(c, missing) PROVE PinInv'
    BY <2>1, <2>5, PinSessionStep DEF MetricsRefused
  <2>6. ASSUME NEW missing, InsertMetrics(c, missing) PROVE PinInv'
    BY <2>6, PinInsertStep
  <2>7. CASE CommitRun(c)
    BY <2>7, PinCommitRunStep
  <2>8. CASE InsertRun(c)
    <3> DEFINE v == [session[c] EXCEPT !.stage = "inserted"]
    <3>1. session' = [session EXCEPT ![c] = v] /\ session[c].stage = "counted" /\ UNCHANGED runs
      BY <2>8 DEF InsertRun
    <3>2. DOMAIN session[c] = {"stage", "id", "strategy", "trial", "before", "nulls"}
      BY <3>1 DEF PinInv, SessionsShaped, Outside, Inside
    <3>3. SessionShape(v) /\ v.stage # "complete"
      BY <3>2 DEF SessionShape
    <3> HIDE DEF v
    <3> QED BY <3>1, <3>3, PinSessionStep
  <2>9. ASSUME NEW s, CountTrials(c, s) PROVE PinInv'
    <3> DEFINE v == [stage |-> "counted", id |-> FreshId, strategy |-> s, trial |-> CountOf(s),
                     before |-> {r.id : r \in RunsOf(s)}, nulls |-> {}]
    <3>1. session' = [session EXCEPT ![c] = v] /\ UNCHANGED runs
      BY <2>9 DEF CountTrials
    <3>2. SessionShape(v) /\ v.stage # "complete"
      BY DEF SessionShape
    <3> HIDE DEF v
    <3> QED BY <3>1, <3>2, PinSessionStep
  <2> QED BY <1>2, <2>2, <2>3, <2>4, <2>5, <2>6, <2>7, <2>8, <2>9 DEF ConnectionStep
<1> QED BY <1>1, <1>2 DEF RegistryStep

LEMMA NextPinInv == PinInv /\ [Next]_vars => PinInv'
<1> SUFFICES ASSUME PinInv, [Next]_vars PROVE PinInv'
  OBVIOUS
<1>1. CASE Migrate
  <2>1. CASE CommitAndDrop
    BY <2>1, PinCommitStep
  <2>2. ASSUME NEW target \in Targets, BeginMigration(target), UNCHANGED registryVars PROVE PinInv'
    BY <2>2, PinBeginStep
  <2>3. CASE Execute(Uses, NullColumns) /\ UNCHANGED registryVars
    BY <2>3, PinExecuteStep
  <2>4. CASE Refused(Uses, NullColumns) /\ UNCHANGED registryVars
    BY <2>4, PinRollbackStep DEF Refused
  <2>5. CASE CrashMigration /\ UNCHANGED registryVars
    BY <2>5, PinRollbackStep DEF CrashMigration
  <2> QED BY <1>1, <2>1, <2>2, <2>3, <2>4, <2>5 DEF Migrate
<1>2. CASE RegistryStep /\ UNCHANGED migrationVars
  BY <1>2, PinRegistryStep
<1>3. CASE UNCHANGED <<migrationVars, registryVars>>
  BY <1>3, PinElsewhereStep
<1> QED BY <1>1, <1>2, <1>3 DEF Next, vars

LEMMA PinInvAlways == Spec => []PinInv
BY InitPinInv, NextPinInv, PTL DEF Spec
-----------------------------------------------------------------------------
(* Once a run is committed the schema stays at the head, whatever is       *)
(* upgraded, downgraded, refused or crashed from then on: the downgrade    *)
(* from the head meets a NULL, and waits while one is being written.       *)
THEOREM RunsPinTheHead == Spec => []LoggedRunsPinTheSchema
<1>1. PinInv => LoggedRunsPinTheSchema
  BY DEF PinInv, RunsHoldNulls, LoggedRunsPinTheSchema
<1> QED BY <1>1, PinInvAlways, PTL

(* No program and no migration changes or removes a committed run.         *)
THEOREM RunsOnlyGrow == Spec => RunsAreAppendOnly
<1>1. ASSUME PinInv, [Next]_vars PROVE runs \subseteq runs'
  <2>1. CASE CommitAndDrop
    <3>1. migration.running /\ migration.at = migration.to
      BY <2>1 DEF CommitAndDrop, CommitMigration
    <3>2. runs = {}
      BY <1>1, <3>1 DEF PinInv, MigrationInPlace, RunsHoldNulls, NoRunsBelowHead
    <3> QED BY <3>2
  <2>2. ASSUME NEW r \in runs, NEW s, UpdateRun(r, s) \/ DeleteRun(r) PROVE runs \subseteq runs'
    BY <1>1, <2>2, TriggerRaises DEF registryVars
  <2>3. ASSUME NEW c \in Connections, ConnectionStep(c) PROVE runs \subseteq runs'
    BY <2>3 DEF ConnectionStep, Enter, Exit, CountTrials, InsertRun, InsertMetrics, MetricsRefused,
                CommitRun, AbortRun
  <2>4. CASE UNCHANGED registryVars
    BY <2>4 DEF registryVars
  <2> QED BY <1>1, <2>1, <2>2, <2>3, <2>4 DEF Next, Migrate, RegistryStep, vars
<1>2. PinInv /\ [Next]_vars => [runs \subseteq runs']_vars
  BY <1>1
<1> QED BY <1>2, PinInvAlways, PTL DEF Spec, RunsAreAppendOnly
-----------------------------------------------------------------------------
(* -------- the trial counts -------- *)

LEMMA InitTrialInv == Init => TrialInv
<1> SUFFICES ASSUME Init PROVE TrialInv
  OBVIOUS
<1>1. runs = {} /\ session = [c \in Connections |-> Outside]
  BY DEF Init, RegistryInit
<1>2. Pending = {}
  BY <1>1 DEF Pending, Outside
<1>3. IdsAreFresh
  BY <1>1, <1>2, FS_EmptySet DEF IdsAreFresh
<1>4. CountsHold /\ TrialsFollowHistory
  BY <1>1, <1>2 DEF CountsHold, TrialsFollowHistory
<1> QED BY <1>1, <1>3, <1>4 DEF TrialInv

LEMMA TrialElsewhereStep == ASSUME TrialInv, UNCHANGED registryVars PROVE TrialInv'
<1>1. /\ UNCHANGED <<runs, session>> /\ Pending' = Pending /\ Ids(runs)' = Ids(runs)
      /\ \A s : RunsOf(s)' = RunsOf(s)
  BY DEF registryVars, Pending, Ids, RunsOf
<1>2. IdsAreFresh'
  BY <1>1 DEF TrialInv, IdsAreFresh
<1>3. CountsHold'
  <2>1. \A d \in Pending : RunsOf(session[d].strategy)' = RunsOf(session[d].strategy)
    BY <1>1 DEF RunsOf
  <2> QED BY <1>1, <2>1 DEF TrialInv, CountsHold
<1>4. TrialsFollowHistory'
  BY <1>1 DEF TrialInv, TrialsFollowHistory
<1> QED BY <1>1, <1>2, <1>3, <1>4 DEF TrialInv

(* A transaction that ends, or moves on with what it counted.              *)
LEMMA TrialSessionStep ==
  ASSUME TrialInv, UNCHANGED runs, NEW c \in Connections, NEW v, DOMAIN session = Connections,
         session' = [session EXCEPT ![c] = v],
         v.stage \in {"counted", "inserted", "complete"} =>
           /\ c \in Pending
           /\ v.id = session[c].id /\ v.strategy = session[c].strategy
           /\ v.trial = session[c].trial /\ v.before = session[c].before
  PROVE  TrialInv'
<1>1. \A d \in Connections : session'[d] = IF d = c THEN v ELSE session[d]
  OBVIOUS
<1>2. \A d \in Pending' :
        /\ d \in Pending
        /\ session'[d].id = session[d].id /\ session'[d].strategy = session[d].strategy
        /\ session'[d].trial = session[d].trial /\ session'[d].before = session[d].before
  BY <1>1 DEF Pending
<1>3. \A s : RunsOf(s)' = RunsOf(s)
  BY DEF RunsOf
<1>4. Ids(runs)' = Ids(runs)
  BY DEF Ids
<1>5. IdsAreFresh'
  BY <1>2, <1>4 DEF TrialInv, IdsAreFresh
<1>6. CountsHold'
  BY <1>2, <1>3, <1>4 DEF TrialInv, CountsHold
<1>7. TrialsFollowHistory'
  BY <1>3 DEF TrialInv, TrialsFollowHistory
<1> QED BY <1>5, <1>6, <1>7 DEF TrialInv

(* Below the bound on the runs there is an id that is neither a run's nor  *)
(* an open transaction's.                                                  *)
LEMMA FreshIdIsFresh ==
  ASSUME TrialInv, Cardinality(runs) + Cardinality(Pending) < MaxRuns
  PROVE  /\ FreshId \notin Ids(runs)
         /\ \A d \in Pending : session[d].id # FreshId
<1> DEFINE Held == {session[d].id : d \in Pending}
<1>1. IsFiniteSet(runs) /\ IsFiniteSet(Pending)
  BY RegistryAssumption, FS_Subset DEF TrialInv, IdsAreFresh, Pending
<1>2. IsFiniteSet(Ids(runs)) /\ Cardinality(Ids(runs)) <= Cardinality(runs)
  <2>1. [r \in runs |-> r.id] \in Surjection(runs, Ids(runs))
    BY DEF Surjection, Ids
  <2> QED BY <1>1, <2>1, FS_Surjection
<1>3. IsFiniteSet(Held) /\ Cardinality(Held) <= Cardinality(Pending)
  <2>1. [d \in Pending |-> session[d].id] \in Surjection(Pending, Held)
    BY DEF Surjection
  <2> QED BY <1>1, <2>1, FS_Surjection
<1>4. Cardinality(Ids(runs) \union Held) < MaxRuns /\ IsFiniteSet(Ids(runs) \union Held)
  <2>1. /\ IsFiniteSet(Ids(runs) \union Held)
        /\ Cardinality(Ids(runs) \union Held)
             = Cardinality(Ids(runs)) + Cardinality(Held) - Cardinality(Ids(runs) \cap Held)
    BY <1>2, <1>3, FS_Union
  <2>2. Cardinality(Ids(runs) \cap Held) \in Nat
    BY <1>2, FS_Intersection, FS_CardinalityType
  <2>3. /\ Cardinality(Ids(runs)) \in Nat /\ Cardinality(Held) \in Nat
        /\ Cardinality(runs) \in Nat /\ Cardinality(Pending) \in Nat
    BY <1>1, <1>2, <1>3, FS_CardinalityType
  <2> HIDE DEF Held
  <2> QED BY <1>2, <1>3, <2>1, <2>2, <2>3, RegistryAssumption
<1>5. Cardinality(1..MaxRuns) = MaxRuns
  BY RegistryAssumption, FS_Interval
<1>6. PICK n \in 1..MaxRuns : n \notin Ids(runs) \union Held
  <2>1. SUFFICES ASSUME 1..MaxRuns \subseteq Ids(runs) \union Held PROVE FALSE
    OBVIOUS
  <2>2. Cardinality(1..MaxRuns) <= Cardinality(Ids(runs) \union Held)
    BY <1>4, <2>1, FS_Subset
  <2>3. Cardinality(Ids(runs) \union Held) \in Nat
    BY <1>4, FS_CardinalityType
  <2> QED BY <1>4, <1>5, <2>2, <2>3, RegistryAssumption
<1>7. \E k \in 1..MaxRuns : (\A r \in runs : r.id # k) /\ (\A d \in Pending : session[d].id # k)
  BY <1>6 DEF Ids
<1>8. (\A r \in runs : r.id # FreshId) /\ (\A d \in Pending : session[d].id # FreshId)
  BY <1>7 DEF FreshId
<1> QED BY <1>8 DEF Ids

(* The count: it sees every run of the strategy that is committed.         *)
LEMMA TrialCountStep ==
  ASSUME TrialInv, NEW c \in Connections, NEW s, DOMAIN session = Connections, CountTrials(c, s)
  PROVE  TrialInv'
<1> DEFINE v == [stage |-> "counted", id |-> FreshId, strategy |-> s, trial |-> CountOf(s),
                 before |-> {r.id : r \in RunsOf(s)}, nulls |-> {}]
<1>1. /\ session' = [session EXCEPT ![c] = v] /\ runs' = runs /\ session[c] = Inside
      /\ Cardinality(runs) + Cardinality(Pending) < MaxRuns
  BY DEF CountTrials
<1>2. /\ FreshId \notin Ids(runs)
      /\ \A d \in Pending : session[d].id # FreshId
  BY <1>1, FreshIdIsFresh
<1>3. \A d \in Connections \ {c} : session'[d] = session[d]
  BY <1>1
<1>4. /\ session'[c].id = FreshId /\ session'[c].strategy = s /\ session'[c].trial = CountOf(s)
      /\ session'[c].before = Ids(RunsOf(s))
  BY <1>1 DEF Ids
<1>5. c \notin Pending /\ Pending' = Pending \union {c}
  BY <1>1 DEF Pending, Inside
<1>6. \A k : RunsOf(k)' = RunsOf(k)
  BY <1>1 DEF RunsOf
<1>7. IdsAreFresh'
  BY <1>1, <1>2, <1>3, <1>4, <1>5 DEF TrialInv, IdsAreFresh, Ids
<1>8. IsFiniteSet(RunsOf(s)) /\ CountOf(s) \in Nat /\ CountOf(s) = Cardinality(RunsOf(s))
  BY FS_Subset, FS_CardinalityType DEF TrialInv, IdsAreFresh, RunsOf, CountOf
<1>9. \A q \in RunsOf(s) : q.trial < CountOf(s)
  <2>1. SUFFICES ASSUME NEW q \in RunsOf(s) PROVE q.trial < CountOf(s)
    OBVIOUS
  <2>2. q \in runs /\ q.strategy = s /\ q.trial \in Nat
    BY DEF TrialInv, RunsOf
  <2>3. q.trial <= Cardinality(RunsOf(s) \ {q})
    BY <2>2 DEF TrialInv, TrialsFollowHistory
  <2>4. Cardinality(RunsOf(s) \ {q}) = Cardinality(RunsOf(s)) - 1
    BY <1>8, FS_RemoveElement
  <2> QED BY <1>8, <2>2, <2>3, <2>4
<1>10. CountsHold'
  <2>1. \A r \in runs' : r.before \subseteq Ids(runs')
    BY <1>1 DEF TrialInv, CountsHold
  <2>2. ASSUME NEW d \in Pending'
        PROVE  /\ session'[d].before \subseteq Ids(runs')
               /\ session'[d].trial \in Nat
               /\ session'[d].trial <= Cardinality(RunsOf(session'[d].strategy))
               /\ \A q \in RunsOf(session'[d].strategy) :
                    q.id \in session'[d].before => q.trial < session'[d].trial
    <3>1. CASE d = c
      <4>1. Ids(RunsOf(s)) \subseteq Ids(runs)
        BY DEF Ids, RunsOf
      <4> QED BY <1>1, <1>4, <1>8, <1>9, <3>1, <4>1
    <3>2. CASE d # c
      <4>1. d \in Pending /\ session'[d] = session[d]
        BY <1>3, <1>5, <3>2 DEF Pending
      <4> QED BY <1>1, <4>1 DEF TrialInv, CountsHold
    <3> QED BY <3>1, <3>2
  <2> QED BY <1>6, <2>1, <2>2 DEF CountsHold
<1>11. TrialsFollowHistory'
  BY <1>1, <1>6 DEF TrialInv, TrialsFollowHistory
<1> QED BY <1>1, <1>7, <1>10, <1>11 DEF TrialInv

(* The commit: the runs counted are still there, and no other open         *)
(* transaction has counted this one.                                       *)
LEMMA TrialCommitStep ==
  ASSUME TrialInv, NEW c \in Connections, DOMAIN session = Connections, CommitRun(c)
  PROVE  TrialInv'
<1> DEFINE txn == session[c]
           new == [id |-> txn.id, strategy |-> txn.strategy, trial |-> txn.trial,
                   before |-> txn.before, nulls |-> txn.nulls]
           Later(k) == {r \in runs' : r.strategy = k}
<1>1. /\ txn.stage = "complete" /\ c \in Pending
      /\ runs' = runs \union {new} /\ session' = [session EXCEPT ![c] = Outside]
  BY DEF CommitRun, Pending
<1>2. /\ new.id = txn.id /\ new.strategy = txn.strategy /\ new.trial = txn.trial
      /\ new.before = txn.before
  OBVIOUS
<1> HIDE DEF new
<1>3. /\ IsFiniteSet(runs) /\ txn.id \notin Ids(runs) /\ new \notin runs
      /\ txn.before \subseteq Ids(runs) /\ txn.trial \in Nat
      /\ txn.trial <= Cardinality(RunsOf(txn.strategy))
      /\ \A q \in RunsOf(txn.strategy) : q.id \in txn.before => q.trial < txn.trial
  BY <1>1, <1>2 DEF TrialInv, IdsAreFresh, CountsHold, Ids
<1>4. /\ \A d \in Pending' : d \in Pending /\ d # c /\ session'[d] = session[d]
      /\ Ids(runs') = Ids(runs) \union {txn.id}
  <2>1. Outside.stage \notin {"counted", "inserted", "complete"}
    BY DEF Outside
  <2>2. \A d \in Connections : session'[d] = IF d = c THEN Outside ELSE session[d]
    BY <1>1
  <2>3. \A d \in Pending' : d \in Pending /\ d # c /\ session'[d] = session[d]
    BY <2>1, <2>2 DEF Pending
  <2>4. Ids(runs') = Ids(runs) \union {txn.id}
    BY <1>1, <1>2 DEF Ids
  <2> QED BY <2>3, <2>4
<1>5. \A k : /\ RunsOf(k) \subseteq Later(k) /\ Later(k) \subseteq RunsOf(k) \union {new}
            /\ IsFiniteSet(Later(k)) /\ Cardinality(Later(k)) \in Nat
            /\ Cardinality(RunsOf(k)) \in Nat
            /\ Cardinality(RunsOf(k)) <= Cardinality(Later(k))
  <2>1. SUFFICES ASSUME NEW k
                 PROVE  /\ RunsOf(k) \subseteq Later(k) /\ Later(k) \subseteq RunsOf(k) \union {new}
                        /\ IsFiniteSet(Later(k)) /\ Cardinality(Later(k)) \in Nat
                        /\ Cardinality(RunsOf(k)) \in Nat
                        /\ Cardinality(RunsOf(k)) <= Cardinality(Later(k))
    OBVIOUS
  <2>2. RunsOf(k) \subseteq Later(k) /\ Later(k) \subseteq RunsOf(k) \union {new}
    BY <1>1 DEF RunsOf
  <2>3. IsFiniteSet(RunsOf(k) \union {new}) /\ IsFiniteSet(RunsOf(k))
    BY <1>3, FS_AddElement, FS_Subset DEF RunsOf
  <2>4. IsFiniteSet(Later(k))
    BY <2>2, <2>3, FS_Subset
  <2> QED BY <2>2, <2>3, <2>4, FS_Subset, FS_CardinalityType
<1>6. IdsAreFresh'
  <2>1. IsFiniteSet(runs')
    BY <1>1, <1>3, FS_AddElement
  <2>2. \A q, r \in runs' : q.id = r.id => q = r
    BY <1>1, <1>2, <1>3 DEF TrialInv, IdsAreFresh, Ids
  <2>3. \A d \in Pending' : session'[d].id \notin Ids(runs')
    BY <1>1, <1>4 DEF TrialInv, IdsAreFresh
  <2>4. \A d, e \in Pending' : session'[d].id = session'[e].id => d = e
    BY <1>4 DEF TrialInv, IdsAreFresh
  <2> QED BY <2>1, <2>2, <2>3, <2>4 DEF IdsAreFresh
<1>7. CountsHold'
  <2>1. \A r \in runs' : r.before \subseteq Ids(runs')
    BY <1>1, <1>2, <1>3, <1>4 DEF TrialInv, CountsHold
  <2>2. ASSUME NEW d \in Pending'
        PROVE  /\ session'[d].before \subseteq Ids(runs')
               /\ session'[d].trial \in Nat
               /\ session'[d].trial <= Cardinality(Later(session'[d].strategy))
               /\ \A q \in Later(session'[d].strategy) :
                    q.id \in session'[d].before => q.trial < session'[d].trial
    <3> DEFINE k == session[d].strategy
    <3>1. d \in Pending /\ session'[d] = session[d]
      BY <1>4
    <3>2. /\ session[d].before \subseteq Ids(runs) /\ session[d].trial \in Nat
          /\ session[d].trial <= Cardinality(RunsOf(k))
          /\ \A q \in RunsOf(k) : q.id \in session[d].before => q.trial < session[d].trial
      BY <3>1 DEF TrialInv, CountsHold
    <3>3. session[d].trial <= Cardinality(Later(k))
      BY <1>5, <3>2
    <3>4. new.id \notin session[d].before
      BY <1>2, <1>3, <3>2
    <3>5. \A q \in Later(k) : q.id \in session[d].before => q.trial < session[d].trial
      BY <1>5, <3>2, <3>4
    <3> QED BY <1>4, <3>1, <3>2, <3>3, <3>5
  <2> QED BY <2>1, <2>2 DEF CountsHold, RunsOf
<1>8. TrialsFollowHistory'
  <2>1. SUFFICES ASSUME NEW r \in runs'
                 PROVE  /\ r.trial <= Cardinality(Later(r.strategy) \ {r})
                        /\ \A q \in Later(r.strategy) : q.id \in r.before => q.trial < r.trial
    BY DEF TrialsFollowHistory, RunsOf
  <2>2. CASE r = new
    <3>1. Later(r.strategy) \ {r} = RunsOf(r.strategy)
      <4>1. r \notin RunsOf(r.strategy)
        BY <1>3, <2>2 DEF RunsOf
      <4> HIDE DEF Later
      <4> QED BY <1>5, <2>2, <4>1
    <3>2. \A q \in Later(r.strategy) : q.id \in r.before => q \in RunsOf(r.strategy)
      BY <1>2, <1>3, <1>5, <2>2
    <3> QED BY <1>2, <1>3, <2>2, <3>1, <3>2
  <2>3. CASE r \in runs
    <3> DEFINE k == r.strategy
    <3>1. /\ r.trial \in Nat /\ r.trial <= Cardinality(RunsOf(k) \ {r})
          /\ r.before \subseteq Ids(runs)
          /\ \A q \in RunsOf(k) : q.id \in r.before => q.trial < r.trial
      BY <2>3 DEF TrialInv, TrialsFollowHistory, CountsHold
    <3>2. IsFiniteSet(Later(k) \ {r}) /\ RunsOf(k) \ {r} \subseteq Later(k) \ {r}
      <4>1. IsFiniteSet(Later(k)) /\ RunsOf(k) \subseteq Later(k)
        BY <1>5
      <4> HIDE DEF Later
      <4> QED BY <4>1, FS_RemoveElement
    <3>3. /\ Cardinality(RunsOf(k) \ {r}) <= Cardinality(Later(k) \ {r})
          /\ Cardinality(RunsOf(k) \ {r}) \in Nat /\ Cardinality(Later(k) \ {r}) \in Nat
      BY <3>2, FS_Subset, FS_CardinalityType
    <3>4. r.trial <= Cardinality(Later(k) \ {r})
      BY <3>1, <3>3
    <3>5. \A q \in Later(k) : q.id \in r.before => q.trial < r.trial
      BY <1>2, <1>3, <1>5, <3>1
    <3> QED BY <3>4, <3>5
  <2> QED BY <1>1, <2>1, <2>2, <2>3
<1>9. \A r \in runs' : r.trial \in Nat
  BY <1>1, <1>2, <1>3 DEF TrialInv
<1> QED BY <1>6, <1>7, <1>8, <1>9 DEF TrialInv

LEMMA TrialRegistryStep == ASSUME TrialInv, PinInv, RegistryStep PROVE TrialInv'
<1>0. DOMAIN session = Connections
  BY DEF PinInv, SessionsShaped
<1>1. ASSUME NEW r \in runs, NEW s, UpdateRun(r, s) \/ DeleteRun(r) PROVE TrialInv'
  BY <1>1, TriggerRaises, TrialElsewhereStep
<1>2. ASSUME NEW c \in Connections, ConnectionStep(c) PROVE TrialInv'
  <2>1. /\ Outside.stage \notin {"counted", "inserted", "complete"}
        /\ Inside.stage \notin {"counted", "inserted", "complete"}
    BY DEF Outside, Inside
  <2>2. CASE Enter(c)
    BY <1>0, <2>1, <2>2, TrialSessionStep DEF Enter
  <2>3. CASE Exit(c)
    BY <1>0, <2>1, <2>3, TrialSessionStep DEF Exit
  <2>4. CASE AbortRun(c)
    BY <1>0, <2>1, <2>4, TrialSessionStep DEF AbortRun
  <2>5. ASSUME NEW missing, MetricsRefused(c, missing) PROVE TrialInv'
    BY <1>0, <2>1, <2>5, TrialSessionStep DEF MetricsRefused
  <2>6. ASSUME NEW missing, InsertMetrics(c, missing) PROVE TrialInv'
    <3> DEFINE v == [session[c] EXCEPT !.stage = "complete", !.nulls = NeverComputed \union missing]
    <3>1. session' = [session EXCEPT ![c] = v] /\ session[c].stage = "inserted" /\ UNCHANGED runs
      BY <2>6 DEF InsertMetrics
    <3>2. /\ v.id = session[c].id /\ v.strategy = session[c].strategy
          /\ v.trial = session[c].trial /\ v.before = session[c].before /\ c \in Pending
      BY <3>1 DEF Pending
    <3> HIDE DEF v
    <3> QED BY <1>0, <3>1, <3>2, TrialSessionStep
  <2>7. CASE CommitRun(c)
    BY <1>0, <2>7, TrialCommitStep
  <2>8. CASE InsertRun(c)
    <3> DEFINE v == [session[c] EXCEPT !.stage = "inserted"]
    <3>1. session' = [session EXCEPT ![c] = v] /\ session[c].stage = "counted" /\ UNCHANGED runs
      BY <2>8 DEF InsertRun
    <3>2. /\ v.id = session[c].id /\ v.strategy = session[c].strategy
          /\ v.trial = session[c].trial /\ v.before = session[c].before /\ c \in Pending
      BY <3>1 DEF Pending
    <3> HIDE DEF v
    <3> QED BY <1>0, <3>1, <3>2, TrialSessionStep
  <2>9. ASSUME NEW s, CountTrials(c, s) PROVE TrialInv'
    BY <1>0, <2>9, TrialCountStep
  <2> QED BY <1>2, <2>2, <2>3, <2>4, <2>5, <2>6, <2>7, <2>8, <2>9 DEF ConnectionStep
<1> QED BY <1>1, <1>2 DEF RegistryStep

LEMMA NextTrialInv == TrialInv /\ PinInv /\ [Next]_vars => TrialInv'
<1> SUFFICES ASSUME TrialInv, PinInv, [Next]_vars PROVE TrialInv'
  OBVIOUS
<1>1. CASE CommitAndDrop
  <2>1. migration.running /\ migration.at = migration.to
    BY <1>1 DEF CommitAndDrop, CommitMigration
  <2>2. runs = {}
    BY <2>1 DEF PinInv, MigrationInPlace, RunsHoldNulls, NoRunsBelowHead
  <2>3. UNCHANGED registryVars
    BY <1>1, <2>2 DEF CommitAndDrop, Surviving, registryVars
  <2> QED BY <2>3, TrialElsewhereStep
<1>2. CASE RegistryStep
  BY <1>2, TrialRegistryStep
<1>3. CASE UNCHANGED registryVars
  BY <1>3, TrialElsewhereStep
<1> QED BY <1>1, <1>2, <1>3 DEF Next, Migrate, vars

(* However the transactions of the connections interleave, a run's trial   *)
(* count is at most the number of the strategy's other runs, and exceeds   *)
(* that of every run its transaction could see.                            *)
THEOREM TrialsCountWhatTheySaw == Spec => []TrialsFollowHistory
<1>1. Spec => []TrialInv
  BY InitTrialInv, NextTrialInv, PinInvAlways, PTL DEF Spec
<1>2. TrialInv => TrialsFollowHistory
  BY DEF TrialInv
<1> QED BY <1>1, <1>2, PTL
-----------------------------------------------------------------------------
(* -------- induction along a script -------- *)

(* A set of naturals that is not empty has a least element.                *)
LEMMA LeastNatural ==
  ASSUME NEW T, T \subseteq Nat, T # {}
  PROVE  \E x \in T : \A y \in T : x <= y
<1> DEFINE Below == OpToRel(<, Nat)
<1>1. IsWellFoundedOn(Below, Nat)
  BY NatLessThanWellFounded, Zenon
<1>2. \A x, y \in Nat : x < y => <<x, y>> \in Below
  BY DEF OpToRel
<1> HIDE DEF Below
<1>3. \E x \in T : \A y \in T : ~(<<y, x>> \in Below)
  BY <1>1, WFMin, Zenon
<1>4. PICK x \in T : \A y \in T : ~(<<y, x>> \in Below)
  BY <1>3
<1>5. ASSUME NEW y \in T PROVE x <= y
  <2>1. x \in Nat /\ y \in Nat /\ ~(y < x)
    BY <1>2, <1>4
  <2> QED BY <2>1
<1> QED BY <1>5

(* What holds of 0 and of the next of every number it holds of, up to n.   *)
LEMMA InductionTo ==
  ASSUME NEW n \in Nat, NEW T, 0 \in T, \A k \in 0..n - 1 : k \in T => k + 1 \in T
  PROVE  0..n \subseteq T
<1>1. SUFFICES ASSUME (0..n) \ T # {} PROVE FALSE
  OBVIOUS
<1>2. PICK x \in (0..n) \ T : \A y \in (0..n) \ T : x <= y
  <2>1. (0..n) \ T \subseteq Nat
    OBVIOUS
  <2> QED BY <1>1, <2>1, LeastNatural
<1>3. x - 1 \in 0..n - 1 /\ x - 1 \notin (0..n) \ T /\ (x - 1) + 1 = x
  BY <1>2
<1> QED BY <1>2, <1>3

(* The catalogs that a script passes through: the equations of Passed have *)
(* a solution, so what is chosen to satisfy them does.                     *)
HasLength(script, n) == Len(script) = n

LEMMA PassedSteps ==
  ASSUME NEW script, NEW n \in Nat, HasLength(script, n), NEW c
  PROVE  /\ Passed(script, c)[0] = c
         /\ \A k \in 1..n : Passed(script, c)[k] = Apply(script[k], Passed(script, c)[k - 1])
<1> DEFINE Solves(f, m) == f = [k \in 0..m |-> IF k = 0 THEN c ELSE Apply(script[k], f[k - 1])]
           T == {m \in 0..n : \E f : Solves(f, m)}
<1>1. 0 \in T
  <2> DEFINE z == [k \in 0..0 |-> c]
  <2>1. \A k \in 0..0 : z[k] = IF k = 0 THEN c ELSE Apply(script[k], z[k - 1])
    OBVIOUS
  <2>2. z = [k \in 0..0 |-> z[k]]
    OBVIOUS
  <2>3. Solves(z, 0)
    <3> HIDE DEF z
    <3> QED BY <2>1, <2>2
  <2> HIDE DEF Solves
  <2> QED BY <2>3
<1>2. ASSUME NEW m \in 0..n - 1, m \in T PROVE m + 1 \in T
  <2>1. PICK f : Solves(f, m)
    BY <1>2
  <2> DEFINE g == [k \in 0..m + 1 |-> IF k = m + 1 THEN Apply(script[m + 1], f[m]) ELSE f[k]]
  <2>2. \A k \in 0..m + 1 : g[k] = IF k = 0 THEN c ELSE Apply(script[k], g[k - 1])
    <3>1. \A k \in 0..m : g[k] = f[k]
      BY m \in Nat
    <3>2. \A k \in 0..m : f[k] = IF k = 0 THEN c ELSE Apply(script[k], f[k - 1])
      BY <2>1
    <3>3. g[m + 1] = Apply(script[m + 1], g[(m + 1) - 1])
      BY <3>1, m \in Nat
    <3>4. ASSUME NEW k \in 1..m PROVE g[k] = Apply(script[k], g[k - 1])
      <4>1. k \in 0..m /\ k - 1 \in 0..m /\ k # 0
        BY m \in Nat
      <4> HIDE DEF g
      <4> QED BY <3>1, <3>2, <4>1
    <3>5. g[0] = c
      BY <3>1, <3>2, m \in Nat
    <3> HIDE DEF g
    <3>6. \A k \in 0..m + 1 : k = 0 \/ k \in 1..m \/ (k = m + 1 /\ k # 0)
      BY m \in Nat
    <3>7. \A k \in 1..m : k # 0
      OBVIOUS
    <3> QED BY <3>3, <3>4, <3>5, <3>6, <3>7
  <2>3. Solves(g, m + 1)
    <3>1. g = [k \in 0..m + 1 |-> g[k]]
      OBVIOUS
    <3> HIDE DEF g
    <3> QED BY <2>2, <3>1
  <2>4. m + 1 \in 0..n
    OBVIOUS
  <2> HIDE DEF Solves, g
  <2> QED BY <2>3, <2>4
<1>3. 0..n \subseteq T
  <2> HIDE DEF T
  <2> QED BY <1>1, <1>2, InductionTo
<1>4. n \in T
  <2>1. n \in 0..n
    OBVIOUS
  <2> HIDE DEF T
  <2> QED BY <1>3, <2>1
<1>5. \E f : Solves(f, n)
  BY <1>4
<1>6. Solves(CHOOSE f : Solves(f, n), n)
  <2> HIDE DEF Solves
  <2> QED BY <1>5
<1>7. Passed(script, c) = CHOOSE f : Solves(f, n)
  BY DEF Passed, HasLength
<1>8. Solves(Passed(script, c), n)
  <2> HIDE DEF Solves
  <2> QED BY <1>6, <1>7
<1>9. \A k \in 0..n : Passed(script, c)[k] = IF k = 0 THEN c ELSE Apply(script[k], Passed(script, c)[k - 1])
  <2> DEFINE P == Passed(script, c)
  <2>1. P = [k \in 0..n |-> IF k = 0 THEN c ELSE Apply(script[k], P[k - 1])]
    BY <1>8
  <2> HIDE DEF P
  <2>2. \A k \in 0..n : P[k] = IF k = 0 THEN c ELSE Apply(script[k], P[k - 1])
    BY <2>1
  <2> QED BY <2>2 DEF P
<1> QED BY <1>9

(* What the revisions build, from the equations of Built.                  *)
LEMMA BuiltSteps ==
  /\ Built[0] = EmptyCatalog
  /\ \A r \in 1..Latest : Built[r] = Passed(Upgrade[r], Built[r - 1])[Len(Upgrade[r])]
<1> DEFINE Step(r, c) == Passed(Upgrade[r], c)[Len(Upgrade[r])]
           Solves(f) == f = [r \in 0..Latest |-> IF r = 0 THEN EmptyCatalog ELSE Step(r, f[r - 1])]
           c1 == Step(1, EmptyCatalog)
           c2 == Step(2, c1)
           c3 == Step(3, c2)
           f == [r \in 0..4 |-> IF r = 0 THEN EmptyCatalog ELSE IF r = 1 THEN c1 ELSE IF r = 2 THEN c2
                                ELSE IF r = 3 THEN c3 ELSE Step(4, c3)]
<1>1. Solves(f)
  <2>1. \A r \in 0..4 : f[r] = IF r = 0 THEN EmptyCatalog ELSE Step(r, f[r - 1])
    <3> HIDE DEF Step
    <3>1. \A r \in 0..4 : r \in {0, 1, 2, 3, 4}
      OBVIOUS
    <3>2. f[0] = EmptyCatalog /\ f[1] = c1 /\ f[2] = c2 /\ f[3] = c3 /\ f[4] = Step(4, c3)
      OBVIOUS
    <3> HIDE DEF f
    <3> QED BY <3>1, <3>2
  <2>2. f = [r \in 0..4 |-> f[r]]
    OBVIOUS
  <2> HIDE DEF f, Step
  <2> QED BY <2>1, <2>2 DEF Latest
<1>2. Built = CHOOSE g : Solves(g)
  BY DEF Built
<1>3. Solves(CHOOSE g : Solves(g))
  <2> HIDE DEF Solves, f
  <2> QED BY <1>1
<1>4. Solves(Built)
  <2> HIDE DEF Solves
  <2> QED BY <1>2, <1>3
<1>5. \A r \in 0..Latest : Built[r] = IF r = 0 THEN EmptyCatalog ELSE Step(r, Built[r - 1])
  <2> HIDE DEF Step
  <2> QED BY <1>4
<1> QED BY <1>5 DEF Latest

(* -------- statements on a catalog given by its four parts -------- *)

Cat(T, Y, F, G) == [tables |-> T, types |-> Y, functions |-> F, triggers |-> G]

With(T, n, def)    == [t \in DOMAIN T \union {n} |-> IF t = n THEN def ELSE T[t]]
Without(T, n)      == [t \in DOMAIN T \ {n} |-> T[t]]
Repart(def, col)   == [def EXCEPT !.partition = col]
Reparted(T, n, col)   == [T EXCEPT ![n] = Repart(T[n], col)]
Loosened(T, n, cols)  == [T EXCEPT ![n].nullable = @ \union cols]
Tightened(T, n, cols) == [T EXCEPT ![n].nullable = @ \ cols]

(* What each statement makes of a catalog.                                 *)
LEMMA ApplyCreateType ==
  ASSUME NEW T, NEW Y, NEW F, NEW G, NEW n
  PROVE  Apply(CreateType(n), Cat(T, Y, F, G)) = Cat(T, Y \union {n}, F, G)
  BY DEF Apply, CreateType, Cat

LEMMA ApplyDropType ==
  ASSUME NEW T, NEW Y, NEW F, NEW G, NEW n
  PROVE  Apply(DropType(n), Cat(T, Y, F, G)) = Cat(T, Y \ {n}, F, G)
  BY DEF Apply, DropType, Cat

LEMMA ApplyCreateTable ==
  ASSUME NEW T, NEW Y, NEW F, NEW G, NEW n, NEW def
  PROVE  Apply(CreateTable(n, def), Cat(T, Y, F, G)) = Cat(With(T, n, def), Y, F, G)
  BY DEF Apply, CreateTable, Cat, With, TablesOf

LEMMA ApplyHypertable ==
  ASSUME NEW T, NEW Y, NEW F, NEW G, NEW n, NEW col
  PROVE  Apply(Hypertable(n, col), Cat(T, Y, F, G)) = Cat(Reparted(T, n, col), Y, F, G)
  BY DEF Apply, Hypertable, Cat, Reparted, Repart

LEMMA ApplyDropTable ==
  ASSUME NEW T, NEW Y, NEW F, NEW n
  PROVE  Apply(DropTable(n), Cat(T, Y, F, {})) = Cat(Without(T, n), Y, F, {})
  BY DEF Apply, DropTable, Cat, Without, TablesOf

LEMMA ApplyDropNotNull ==
  ASSUME NEW T, NEW Y, NEW F, NEW G, NEW n, NEW cols
  PROVE  Apply(DropNotNull(n, cols), Cat(T, Y, F, G)) = Cat(Loosened(T, n, cols), Y, F, G)
  BY DEF Apply, DropNotNull, Cat, Loosened

LEMMA ApplySetNotNull ==
  ASSUME NEW T, NEW Y, NEW F, NEW G, NEW n, NEW cols
  PROVE  Apply(SetNotNull(n, cols), Cat(T, Y, F, G)) = Cat(Tightened(T, n, cols), Y, F, G)
  BY DEF Apply, SetNotNull, Cat, Tightened

LEMMA ApplyCreateFunction ==
  ASSUME NEW T, NEW Y, NEW f
  PROVE  Apply(CreateFunction(f), Cat(T, Y, {}, {})) = Cat(T, Y, {f}, {})
  BY DEF Apply, CreateFunction, Cat

LEMMA ApplyDropFunction ==
  ASSUME NEW T, NEW Y, NEW f
  PROVE  Apply(DropFunction(f), Cat(T, Y, {f}, {})) = Cat(T, Y, {}, {})
  BY DEF Apply, DropFunction, Cat

Trigger(n, t, f) == [name |-> n, on |-> t, function |-> f]

LEMMA ApplyCreateTrigger ==
  ASSUME NEW T, NEW Y, NEW n, NEW t, NEW f
  PROVE  Apply(CreateTrigger(n, t, f), Cat(T, Y, {f}, {})) = Cat(T, Y, {f}, {Trigger(n, t, f)})
  BY DEF Apply, CreateTrigger, Cat, Trigger

LEMMA ApplyDropTrigger ==
  ASSUME NEW T, NEW Y, NEW n, NEW t, NEW f
  PROVE  Apply(DropTrigger(n, t), Cat(T, Y, {f}, {Trigger(n, t, f)})) = Cat(T, Y, {f}, {})
<1> DEFINE g == Trigger(n, t, f)
           s == DropTrigger(n, t)
           c == Cat(T, Y, {f}, {g})
<1>1. {h \in {g} : <<h.name, h.on>> # <<s.name, s.on>>} = {}
  BY DEF DropTrigger, Trigger
<1>2. s.kind = "drop_trigger" /\ c.triggers = {g}
  BY DEF DropTrigger, Cat
<1>3. Apply(s, c) = [c EXCEPT !.triggers = {h \in @ : <<h.name, h.on>> # <<s.name, s.on>>}]
  <2> HIDE DEF s, c
  <2> QED BY <1>2 DEF Apply
<1>4. Apply(s, c) = [c EXCEPT !.triggers = {}]
  <2> HIDE DEF s, c, g
  <2> QED BY <1>1, <1>2, <1>3
<1>5. [c EXCEPT !.triggers = {}] = Cat(T, Y, {f}, {})
  BY DEF Cat
<1> QED BY <1>4, <1>5

(* When each of them can be run, whatever rows there are.                  *)
LEMMA CanCreateType ==
  ASSUME NEW T, NEW Y, NEW F, NEW G, NEW n, NEW nulls, n \notin Y
  PROVE  Can(CreateType(n), Cat(T, Y, F, G), nulls)
  BY DEF Can, CreateType, Cat

LEMMA CanDropType ==
  ASSUME NEW T, NEW Y, NEW F, NEW G, NEW n, NEW nulls, n \in Y,
         \A t \in DOMAIN T : n \notin TypesUsed(T[t])
  PROVE  Can(DropType(n), Cat(T, Y, F, G), nulls)
  BY DEF Can, DropType, Cat, TablesOf

LEMMA CanCreateTable ==
  ASSUME NEW T, NEW Y, NEW F, NEW G, NEW n, NEW nulls, NEW def, n \notin DOMAIN T,
         Referenced(def) \subseteq DOMAIN T \union {n}, TypesUsed(def) \subseteq Y
  PROVE  Can(CreateTable(n, def), Cat(T, Y, F, G), nulls)
  BY DEF Can, CreateTable, Cat, TablesOf

LEMMA CanHypertable ==
  ASSUME NEW T, NEW Y, NEW F, NEW G, NEW n, NEW nulls, NEW col, n \in DOMAIN T,
         \A k \in T[n].keys : col \in k
  PROVE  Can(Hypertable(n, col), Cat(T, Y, F, G), nulls)
  BY DEF Can, Hypertable, Cat, TablesOf

LEMMA CanDropTable ==
  ASSUME NEW T, NEW Y, NEW F, NEW G, NEW n, NEW nulls, n \in DOMAIN T,
         \A t \in DOMAIN T \ {n} : n \notin Referenced(T[t])
  PROVE  Can(DropTable(n), Cat(T, Y, F, G), nulls)
  BY DEF Can, DropTable, Cat, TablesOf

LEMMA CanDropNotNull ==
  ASSUME NEW T, NEW Y, NEW F, NEW G, NEW n, NEW nulls, NEW cols, n \in DOMAIN T
  PROVE  Can(DropNotNull(n, cols), Cat(T, Y, F, G), nulls)
  BY DEF Can, DropNotNull, Cat, TablesOf

(* With no NULL to stand in the way.                                       *)
LEMMA CanSetNotNull ==
  ASSUME NEW T, NEW Y, NEW F, NEW G, NEW n, NEW cols, n \in DOMAIN T
  PROVE  Can(SetNotNull(n, cols), Cat(T, Y, F, G), {})
  BY DEF Can, SetNotNull, Cat, TablesOf

LEMMA CanCreateFunction == ASSUME NEW f, NEW c, NEW nulls PROVE Can(CreateFunction(f), c, nulls)
  BY DEF Can, CreateFunction

LEMMA CanDropFunction ==
  ASSUME NEW T, NEW Y, NEW f, NEW nulls
  PROVE  Can(DropFunction(f), Cat(T, Y, {f}, {}), nulls)
  BY DEF Can, DropFunction, Cat

LEMMA CanCreateTrigger ==
  ASSUME NEW T, NEW Y, NEW n, NEW t, NEW f, NEW nulls, t \in DOMAIN T
  PROVE  Can(CreateTrigger(n, t, f), Cat(T, Y, {f}, {}), nulls)
  BY DEF Can, CreateTrigger, Cat, TablesOf

LEMMA CanDropTrigger ==
  ASSUME NEW T, NEW Y, NEW n, NEW t, NEW f, NEW nulls
  PROVE  Can(DropTrigger(n, t), Cat(T, Y, {f}, {Trigger(n, t, f)}), nulls)
  BY DEF Can, DropTrigger, Cat, Trigger

-----------------------------------------------------------------------------
(* -------- the statements of the baseline -------- *)

(* The tables that the downgrade of the baseline drops from place m on,    *)
(* and its enum types.                                                     *)
Late(m) == {DropOrder[i] : i \in m..24}
Listed  == {BaselineTypes[i] : i \in 1..14}

(* The place in that order of a table others refer to.                     *)
Rank(t) ==
  CASE t = "fill" -> 2 [] t = "order" -> 5 [] t = "risk_decision" -> 6 [] t = "order_intent" -> 7
    [] t = "signal" -> 8 [] t = "strategy_instance" -> 17 [] t = "instrument" -> 18
    [] t = "account" -> 19 [] t = "backtest_run" -> 20 [] t = "strategy" -> 21
    [] t = "venue" -> 22 [] t = "dataset_version" -> 23 [] OTHER -> 0

Plain(def) == def = Table(def.refs, def.enums, def.nullable, def.keys, def.checks)

(* A statement that creates the table of place m: with references to       *)
(* itself or to later places only, and with types of the baseline.         *)
WellMade(s, m) ==
  /\ s = CreateTable(DropOrder[m], s.def)
  /\ Plain(s.def)
  /\ \A r \in s.def.refs : m <= Rank(r[2])
  /\ \A e \in s.def.enums : e[2] \in Listed

(* No name is listed twice, and the later revisions bring new ones.        *)
LEMMA Distinct ==
  /\ \A i, j \in 1..24 : DropOrder[i] = DropOrder[j] => i = j
  /\ \A i, j \in 1..14 : BaselineTypes[i] = BaselineTypes[j] => i = j
  /\ \A i \in 1..24 : DropOrder[i] \notin {"candle_backfill_checkpoint", "data_quality_event"}
  /\ \A i \in 1..14 : BaselineTypes[i] \notin {"backfill_checkpoint_status", "data_quality_event_severity"}
<1>1. \A i, j \in 1..24 : DropOrder[i] = DropOrder[j] => i = j
  BY DEF DropOrder
<1>2. \A i, j \in 1..14 : BaselineTypes[i] = BaselineTypes[j] => i = j
  BY DEF BaselineTypes
<1>3. \A i \in 1..24 : DropOrder[i] \notin {"candle_backfill_checkpoint", "data_quality_event"}
  BY DEF DropOrder
<1>4. \A i \in 1..14 : BaselineTypes[i] \notin {"backfill_checkpoint_status", "data_quality_event_severity"}
  BY DEF BaselineTypes
<1> QED BY <1>1, <1>2, <1>3, <1>4

(* The place is the one in DropOrder.                                      *)
LEMMA RankIsPlace == \A t : Rank(t) > 0 => Rank(t) \in 1..24 /\ t = DropOrder[Rank(t)]
<1>1. /\ DropOrder[2] = "fill" /\ DropOrder[5] = "order" /\ DropOrder[6] = "risk_decision"
      /\ DropOrder[7] = "order_intent" /\ DropOrder[8] = "signal" /\ DropOrder[17] = "strategy_instance"
      /\ DropOrder[18] = "instrument" /\ DropOrder[19] = "account" /\ DropOrder[20] = "backtest_run"
      /\ DropOrder[21] = "strategy" /\ DropOrder[22] = "venue" /\ DropOrder[23] = "dataset_version"
  BY DEF DropOrder
<1> QED BY <1>1 DEF Rank

(* What a well made table refers to is of its own place or a later one.    *)
LEMMA RefersLater ==
  ASSUME NEW s, NEW m \in 1..24, WellMade(s, m)
  PROVE  Referenced(s.def) \subseteq Late(m) /\ TypesUsed(s.def) \subseteq Listed
<1>1. ASSUME NEW r \in s.def.refs PROVE r[2] \in Late(m)
  <2>1. Rank(r[2]) \in m..24 /\ r[2] = DropOrder[Rank(r[2])]
    <3>1. m <= Rank(r[2])
      BY DEF WellMade
    <3>2. Rank(r[2]) \in Int
      BY DEF Rank
    <3> QED BY <3>1, <3>2, RankIsPlace
  <2> QED BY <2>1 DEF Late
<1> QED BY <1>1 DEF WellMade, Referenced, TypesUsed

(* A table definition as the migrations write it is in no partition.       *)
LEMMA TableIsPlain == ASSUME NEW r, NEW e, NEW n, NEW k, NEW c PROVE Plain(Table(r, e, n, k, c))
  BY DEF Plain, Table

(* The statements of the baseline make the tables in the reverse of the    *)
(* order they are dropped in.                                              *)
LEMMA RootsWellMade == \A i \in 1..6 : WellMade(CreateRoots[i], 25 - i)
<1>1. \A i \in 1..6 : CreateRoots[i] = CreateTable(DropOrder[25 - i], CreateRoots[i].def)
  BY DEF CreateRoots, CreateTable, DropOrder
<1>2. \A i \in 1..6 : Plain(CreateRoots[i].def)
  BY TableIsPlain DEF CreateRoots, CreateTable
<1>3. \A i \in 1..6 : \A r \in CreateRoots[i].def.refs : 25 - i <= Rank(r[2])
  BY DEF CreateRoots, CreateTable, Table, Rank
<1>4. \A i \in 1..6 : \A e \in CreateRoots[i].def.enums : e[2] \in Listed
  BY DEF CreateRoots, CreateTable, Table, Listed, BaselineTypes
<1> QED BY <1>1, <1>2, <1>3, <1>4 DEF WellMade

LEMMA InstrumentsWellMade == \A i \in 1..5 : WellMade(CreateInstruments[i], 19 - i)
<1>1. \A i \in 1..5 : CreateInstruments[i] = CreateTable(DropOrder[19 - i], CreateInstruments[i].def)
  BY DEF CreateInstruments, CreateTable, DropOrder
<1>2. \A i \in 1..5 : Plain(CreateInstruments[i].def)
  BY TableIsPlain DEF CreateInstruments, CreateTable
<1>3. \A i \in 1..5 : \A r \in CreateInstruments[i].def.refs : 19 - i <= Rank(r[2])
  BY DEF CreateInstruments, CreateTable, Table, Rank
<1>4. \A i \in 1..5 : \A e \in CreateInstruments[i].def.enums : e[2] \in Listed
  BY DEF CreateInstruments, CreateTable, Table, Listed, BaselineTypes
<1> QED BY <1>1, <1>2, <1>3, <1>4 DEF WellMade

(* The place of the i-th statement about the series; three of them make    *)
(* the table before them a hypertable on a column of its key.              *)
SeriesPlace(i) == CASE i = 1 -> 13 [] i = 3 -> 12 [] i = 5 -> 11 [] i = 6 -> 10 [] i = 8 -> 9 [] OTHER -> 0

LEMMA SeriesWellMade ==
  /\ \A i \in {1, 3, 5, 6, 8} : WellMade(CreateSeries[i], SeriesPlace(i))
  /\ \A i \in {2, 4, 7} :
       \E col : /\ CreateSeries[i] = Hypertable(CreateSeries[i - 1].on, col)
                /\ \A k \in CreateSeries[i - 1].def.keys : col \in k
<1>1. \A i \in {1, 3, 5, 6, 8} : CreateSeries[i] = CreateTable(DropOrder[SeriesPlace(i)], CreateSeries[i].def)
  BY DEF CreateSeries, CreateTable, DropOrder, SeriesPlace
<1>2. \A i \in {1, 3, 5, 6, 8} : Plain(CreateSeries[i].def)
  BY TableIsPlain DEF CreateSeries, CreateTable
<1>3. \A i \in {1, 3, 5, 6, 8} : \A r \in CreateSeries[i].def.refs : SeriesPlace(i) <= Rank(r[2])
  BY DEF CreateSeries, CreateTable, Table, Rank, SeriesPlace
<1>4. \A i \in {1, 3, 5, 6, 8} : \A e \in CreateSeries[i].def.enums : e[2] \in Listed
  BY DEF CreateSeries, CreateTable, Table, Listed, BaselineTypes
<1>5. /\ CreateSeries[2] = Hypertable(CreateSeries[1].on, "open_time")
      /\ CreateSeries[4] = Hypertable(CreateSeries[3].on, "ts")
      /\ CreateSeries[7] = Hypertable(CreateSeries[6].on, "ts")
  BY DEF CreateSeries, CreateTable, Hypertable
<1>6. /\ \A k \in CreateSeries[1].def.keys : "open_time" \in k
      /\ \A k \in CreateSeries[3].def.keys : "ts" \in k
      /\ \A k \in CreateSeries[6].def.keys : "ts" \in k
  BY DEF CreateSeries, CreateTable, Table
<1> QED BY <1>1, <1>2, <1>3, <1>4, <1>5, <1>6 DEF WellMade

LEMMA OrderFlowWellMade == \A i \in 1..8 : WellMade(CreateOrderFlow[i], 9 - i)
<1>1. \A i \in 1..8 : CreateOrderFlow[i] = CreateTable(DropOrder[9 - i], CreateOrderFlow[i].def)
  BY DEF CreateOrderFlow, CreateTable, DropOrder
<1>2. \A i \in 1..8 : Plain(CreateOrderFlow[i].def)
  BY TableIsPlain DEF CreateOrderFlow, CreateTable
<1>3. \A i \in 1..8 : \A r \in CreateOrderFlow[i].def.refs : 9 - i <= Rank(r[2])
  BY DEF CreateOrderFlow, CreateTable, Table, Rank
<1>4. \A i \in 1..8 : \A e \in CreateOrderFlow[i].def.enums : e[2] \in Listed
  BY DEF CreateOrderFlow, CreateTable, Table, Listed, BaselineTypes
<1> QED BY <1>1, <1>2, <1>3, <1>4 DEF WellMade
-----------------------------------------------------------------------------
(* Scripts of a known length, and two of them, one after the other.        *)
IsList(s, n)  == s = [k \in 1..n |-> s[k]] /\ Len(s) = n
IsJoin(u, s, t) == u = s \o t

(* The statements of two scripts, one after the other.                     *)
LEMMA Joined ==
  ASSUME NEW m \in Nat, NEW n \in Nat, NEW s, NEW t, IsList(s, m), IsList(t, n),
         NEW u, IsJoin(u, s, t)
  PROVE  /\ IsList(u, m + n)
         /\ \A k \in 1..m : u[k] = s[k]
         /\ \A k \in 1..n : u[m + k] = t[k]
<1> DEFINE S == {s[k] : k \in 1..m} \union {t[k] : k \in 1..n}
<1>1. s \in Seq(S) /\ Len(s) = m
  <2>1. s \in [1..m -> S]
    BY DEF IsList
  <2> QED BY <2>1
<1>2. t \in Seq(S) /\ Len(t) = n
  <2>1. t \in [1..n -> S]
    BY DEF IsList
  <2> QED BY <2>1
<1> HIDE DEF S
<1>3. s \o t \in Seq(S) /\ Len(s \o t) = m + n
  BY <1>1, <1>2
<1>4. \A k \in 1..m : (s \o t)[k] = s[k]
  BY <1>1, <1>2
<1>5. ASSUME NEW k \in 1..n PROVE (s \o t)[m + k] = t[k]
  <2>1. m + k \in 1..m + n /\ ~(m + k <= m) /\ (m + k) - m = k
    OBVIOUS
  <2> QED BY <1>1, <1>2, <2>1
<1>6. u = s \o t
  BY DEF IsJoin
<1>7. IsList(s \o t, m + n)
  <2> DEFINE j == s \o t
  <2>1. j \in Seq(S) /\ Len(j) = m + n
    BY <1>3
  <2> HIDE DEF j
  <2>2. j = [k \in 1..Len(j) |-> j[k]]
    BY <2>1
  <2>3. j = [k \in 1..m + n |-> j[k]]
    BY <2>1, <2>2
  <2>4. IsList(j, m + n)
    BY <2>1, <2>3 DEF IsList
  <2> QED BY <2>4 DEF j
<1> HIDE DEF IsList
<1> QED BY <1>4, <1>5, <1>6, <1>7, Zenon

(* The 41 statements of the baseline.                                      *)
LEMMA BaselineStatements ==
  /\ Len(Upgrade[1]) = 41
  /\ \A k \in 1..14 : Upgrade[1][k] = CreateType(BaselineTypes[k])
  /\ \A k \in 1..6  : Upgrade[1][14 + k] = CreateRoots[k]
  /\ \A k \in 1..5  : Upgrade[1][20 + k] = CreateInstruments[k]
  /\ \A k \in 1..8  : Upgrade[1][25 + k] = CreateSeries[k]
  /\ \A k \in 1..8  : Upgrade[1][33 + k] = CreateOrderFlow[k]
<1> DEFINE A == CreateTypes
           B == A \o CreateRoots
           C == B \o CreateInstruments
           D == C \o CreateSeries
           E == D \o CreateOrderFlow
<1>1. IsList(A, 14) /\ \A k \in 1..14 : A[k] = CreateType(BaselineTypes[k])
  BY DEF CreateTypes, BaselineTypes, IsList
<1>2. IsList(CreateRoots, 6)
  BY DEF CreateRoots, IsList
<1>3. IsList(CreateInstruments, 5)
  BY DEF CreateInstruments, IsList
<1>4. IsList(CreateSeries, 8)
  BY DEF CreateSeries, IsList
<1>5. IsList(CreateOrderFlow, 8)
  BY DEF CreateOrderFlow, IsList
<1>6. /\ Upgrade[1] = E
      /\ IsJoin(B, A, CreateRoots) /\ IsJoin(C, B, CreateInstruments)
      /\ IsJoin(D, C, CreateSeries) /\ IsJoin(E, D, CreateOrderFlow)
  BY DEF Upgrade, IsJoin
<1> HIDE DEF A, B, C, D, E
<1>7. /\ IsList(B, 20)
      /\ \A k \in 1..14 : B[k] = A[k]
      /\ \A k \in 1..6 : B[14 + k] = CreateRoots[k]
  <2>1. 14 \in Nat /\ 6 \in Nat /\ 14 + 6 = 20
    OBVIOUS
  <2>2. IsList(A, 14) /\ IsList(CreateRoots, 6) /\ IsJoin(B, A, CreateRoots)
    BY <1>1, <1>2, <1>6
  <2> QED BY <2>1, <2>2, Joined
<1>8. /\ IsList(C, 25)
      /\ \A k \in 1..20 : C[k] = B[k]
      /\ \A k \in 1..5 : C[20 + k] = CreateInstruments[k]
  <2>1. 20 \in Nat /\ 5 \in Nat /\ 20 + 5 = 25
    OBVIOUS
  <2>2. IsList(B, 20) /\ IsList(CreateInstruments, 5) /\ IsJoin(C, B, CreateInstruments)
    BY <1>3, <1>7, <1>6
  <2> QED BY <2>1, <2>2, Joined
<1>9. /\ IsList(D, 33)
      /\ \A k \in 1..25 : D[k] = C[k]
      /\ \A k \in 1..8 : D[25 + k] = CreateSeries[k]
  <2>1. 25 \in Nat /\ 8 \in Nat /\ 25 + 8 = 33
    OBVIOUS
  <2>2. IsList(C, 25) /\ IsList(CreateSeries, 8) /\ IsJoin(D, C, CreateSeries)
    BY <1>4, <1>8, <1>6
  <2> QED BY <2>1, <2>2, Joined
<1>10. /\ IsList(E, 41)
       /\ \A k \in 1..33 : E[k] = D[k]
       /\ \A k \in 1..8 : E[33 + k] = CreateOrderFlow[k]
  <2>1. 33 \in Nat /\ 8 \in Nat /\ 33 + 8 = 41
    OBVIOUS
  <2>2. IsList(D, 33) /\ IsList(CreateOrderFlow, 8) /\ IsJoin(E, D, CreateOrderFlow)
    BY <1>5, <1>9, <1>6
  <2> QED BY <2>1, <2>2, Joined
<1>11. \A k \in 1..14 : E[k] = A[k]
  BY <1>7, <1>8, <1>9, <1>10
<1>12. \A k \in 1..6 : E[14 + k] = CreateRoots[k]
  <2>1. \A k \in 1..6 : 14 + k \in 1..20
    OBVIOUS
  <2> QED BY <1>7, <1>8, <1>9, <1>10, <2>1
<1>13. \A k \in 1..5 : E[20 + k] = CreateInstruments[k]
  <2>1. \A k \in 1..5 : 20 + k \in 1..25
    OBVIOUS
  <2> QED BY <1>8, <1>9, <1>10, <2>1
<1>14. \A k \in 1..8 : E[25 + k] = CreateSeries[k]
  <2>1. \A k \in 1..8 : 25 + k \in 1..33
    OBVIOUS
  <2> QED BY <1>9, <1>10, <2>1
<1>15. Len(E) = 41
  BY <1>10 DEF IsList
<1> QED BY <1>1, <1>6, <1>10, <1>11, <1>12, <1>13, <1>14, <1>15

(* -------- the catalogs of the baseline -------- *)

(* The place of the table made last by the first k statements, and which   *)
(* statement makes the table of a place.                                   *)
Newest(k) ==
  CASE k \in 0..14  -> 25
    [] k \in 15..26 -> 39 - k
    [] k = 27       -> 13
    [] k \in 28..29 -> 12
    [] k = 30       -> 11
    [] k \in 31..32 -> 10
    [] OTHER        -> 42 - k

Maker(m) ==
  CASE m \in 1..9 -> 42 - m
    [] m = 10     -> 31
    [] m = 11     -> 30
    [] m = 12     -> 28
    [] m = 13     -> 26
    [] OTHER      -> 39 - m

DefOf(m) == Upgrade[1][Maker(m)].def

(* Every place of DropOrder has a statement that makes its table.          *)
LEMMA MakersMake == \A m \in 1..24 : WellMade(Upgrade[1][Maker(m)], m)
<1> DEFINE U == Upgrade[1]
<1>0. /\ \A k \in 1..6  : U[14 + k] = CreateRoots[k]
      /\ \A k \in 1..5  : U[20 + k] = CreateInstruments[k]
      /\ \A k \in 1..8  : U[25 + k] = CreateSeries[k]
      /\ \A k \in 1..8  : U[33 + k] = CreateOrderFlow[k]
  BY BaselineStatements
<1> HIDE DEF U
<1>1. ASSUME NEW m \in 19..24 PROVE WellMade(U[Maker(m)], m)
  <2>1. Maker(m) = 14 + (25 - m) /\ 25 - m \in 1..6 /\ 25 - (25 - m) = m
    BY DEF Maker
  <2>2. WellMade(CreateRoots[25 - m], m)
    BY <2>1, RootsWellMade
  <2> QED BY <1>0, <2>1, <2>2
<1>2. ASSUME NEW m \in 14..18 PROVE WellMade(U[Maker(m)], m)
  <2>1. Maker(m) = 20 + (19 - m) /\ 19 - m \in 1..5 /\ 19 - (19 - m) = m
    BY DEF Maker
  <2>2. WellMade(CreateInstruments[19 - m], m)
    BY <2>1, InstrumentsWellMade
  <2> QED BY <1>0, <2>1, <2>2
<1>3. ASSUME NEW m \in 9..13 PROVE WellMade(U[Maker(m)], m)
  <2>1. PICK i \in {1, 3, 5, 6, 8} : Maker(m) = 25 + i /\ SeriesPlace(i) = m
    BY DEF Maker, SeriesPlace
  <2>2. WellMade(CreateSeries[i], m) /\ i \in 1..8
    BY <2>1, SeriesWellMade
  <2> QED BY <1>0, <2>1, <2>2
<1>4. ASSUME NEW m \in 1..8 PROVE WellMade(U[Maker(m)], m)
  <2>1. Maker(m) = 33 + (9 - m) /\ 9 - m \in 1..8 /\ 9 - (9 - m) = m
    BY DEF Maker
  <2>2. WellMade(CreateOrderFlow[9 - m], m)
    BY <2>1, OrderFlowWellMade
  <2> QED BY <1>0, <2>1, <2>2
<1>5. \A m \in 1..24 : m \in 19..24 \/ m \in 14..18 \/ m \in 9..13 \/ m \in 1..8
  OBVIOUS
<1> QED BY <1>1, <1>2, <1>3, <1>4, <1>5 DEF U

(* The k-th statement adds a type, or the next table, or makes the newest  *)
(* table a hypertable.                                                     *)
LEMMA BaselineStatement ==
  ASSUME NEW k \in 1..41
  PROVE  LET s == Upgrade[1][k]
             m == Newest(k)
         IN  \/ /\ k \in 1..14 /\ m = 25 /\ Newest(k - 1) = 25
                /\ s = CreateType(BaselineTypes[k])
             \/ /\ k \in 15..41 /\ m \in 1..24 /\ Newest(k - 1) = m + 1
                /\ s = CreateTable(DropOrder[m], DefOf(m))
             \/ /\ k \in 15..41 /\ m \in 1..24 /\ Newest(k - 1) = m
                /\ \E col : s = Hypertable(DropOrder[m], col) /\ \A key \in DefOf(m).keys : col \in key
<1> DEFINE U == Upgrade[1]
           m == Newest(k)
<1>1. CASE k \in 1..14
  <2>1. m = 25 /\ Newest(k - 1) = 25
    BY <1>1 DEF Newest
  <2> QED BY <1>1, <2>1, BaselineStatements
<1>2. CASE k \in 15..41 /\ k \notin {27, 29, 32}
  <2>1. m \in 1..24 /\ Newest(k - 1) = m + 1 /\ Maker(m) = k
    BY <1>2 DEF Newest, Maker
  <2>2. U[k] = CreateTable(DropOrder[m], DefOf(m))
    BY <2>1, MakersMake DEF WellMade, DefOf
  <2> HIDE DEF m
  <2> QED BY <1>2, <2>1, <2>2 DEF m
<1>3. CASE k \in {27, 29, 32}
  <2>1. m \in 1..24 /\ Newest(k - 1) = m /\ Maker(m) = k - 1 /\ k \in 15..41
    BY <1>3 DEF Newest, Maker
  <2>2. PICK i \in {2, 4, 7} : k = 25 + i /\ k - 1 = 25 + (i - 1) /\ i \in 1..8 /\ i - 1 \in 1..8
    BY <1>3
  <2>3. U[k] = CreateSeries[i] /\ U[k - 1] = CreateSeries[i - 1]
    BY <2>2, BaselineStatements
  <2>4. PICK col : /\ CreateSeries[i] = Hypertable(CreateSeries[i - 1].on, col)
                   /\ \A key \in CreateSeries[i - 1].def.keys : col \in key
    BY SeriesWellMade
  <2>5. U[k - 1].on = DropOrder[m] /\ U[k - 1].def = DefOf(m)
    <3>1. U[k - 1] = CreateTable(DropOrder[m], U[k - 1].def)
      BY <2>1, MakersMake DEF WellMade
    <3>2. U[k - 1].on = DropOrder[m]
      BY <3>1 DEF CreateTable
    <3> QED BY <2>1, <3>2 DEF DefOf
  <2>6. U[k] = Hypertable(DropOrder[m], col) /\ \A key \in DefOf(m).keys : col \in key
    BY <2>3, <2>4, <2>5
  <2> HIDE DEF m, U
  <2>7. \/ FALSE
        \/ /\ k \in 15..41 /\ m \in 1..24 /\ Newest(k - 1) = m
           /\ \E c : U[k] = Hypertable(DropOrder[m], c) /\ \A key \in DefOf(m).keys : c \in key
    BY <2>1, <2>6
  <2> QED BY <2>7 DEF m, U
<1>4. k \in 1..14 \/ (k \in 15..41 /\ k \notin {27, 29, 32}) \/ k \in {27, 29, 32}
  OBVIOUS
<1> QED BY <1>1, <1>2, <1>3, <1>4

(* A table, with another partition column or none.                         *)
LEMMA OtherPartition ==
  ASSUME NEW d, Plain(d), NEW p
  PROVE  /\ Repart(d, p).refs = d.refs /\ Repart(d, p).enums = d.enums
         /\ Repart(d, p).nullable = d.nullable /\ Repart(d, p).keys = d.keys
         /\ \A q : Repart(Repart(d, p), q) = Repart(d, q)
         /\ Repart(d, "none") = d
<1>1. PICK r, u, n, k, c : d = [refs |-> r, enums |-> u, nullable |-> n, keys |-> k, checks |-> c,
                                partition |-> "none"]
  BY DEF Plain, Table
<1>2. Repart(d, p) = [refs |-> r, enums |-> u, nullable |-> n, keys |-> k, checks |-> c, partition |-> p]
  BY <1>1 DEF Repart
<1>3. Repart(d, "none") = d
  BY <1>1 DEF Repart
<1>4. \A q : Repart(Repart(d, p), q) = Repart(d, q)
  BY <1>1 DEF Repart
<1>5. d.refs = r /\ d.enums = u /\ d.nullable = n /\ d.keys = k
  BY <1>1
<1>6. Repart(d, p).refs = r /\ Repart(d, p).enums = u /\ Repart(d, p).nullable = n /\ Repart(d, p).keys = k
  BY <1>2
<1> QED BY <1>3, <1>4, <1>5, <1>6

(* What the table of a place refers to.                                    *)
LEMMA DefsArePlain ==
  ASSUME NEW m \in 1..24
  PROVE  /\ Plain(DefOf(m)) /\ Referenced(DefOf(m)) \subseteq Late(m) /\ TypesUsed(DefOf(m)) \subseteq Listed
<1>1. WellMade(Upgrade[1][Maker(m)], m)
  BY MakersMake
<1> QED BY <1>1, RefersLater DEF WellMade, DefOf

(* The tables of the baseline from place m on, as they are made but for    *)
(* their partition columns.                                                *)
Made(T, m) ==
  /\ T = [t \in Late(m) |-> T[t]]
  /\ \A i \in m..24 : \E p : T[DropOrder[i]] = Repart(DefOf(i), p)

FirstTypes(k) == {BaselineTypes[i] : i \in {j \in 1..14 : j <= k}}
LastTypes(k)  == {BaselineTypes[i] : i \in {j \in 1..14 : k < j}}

(* The places from m on, one by one.                                       *)
LEMMA LateSteps ==
  /\ Late(25) = {}
  /\ \A m \in 1..24 : Late(m) = Late(m + 1) \union {DropOrder[m]} /\ DropOrder[m] \notin Late(m + 1)
<1>1. Late(25) = {}
  BY DEF Late
<1>2. ASSUME NEW m \in 1..24
      PROVE  Late(m) = Late(m + 1) \union {DropOrder[m]} /\ DropOrder[m] \notin Late(m + 1)
  <2>1. \A i : i \in m..24 <=> (i = m \/ i \in m + 1..24)
    OBVIOUS
  <2>2. \A i \in m + 1..24 : DropOrder[i] # DropOrder[m]
    BY Distinct
  <2> QED BY <2>1, <2>2 DEF Late
<1> QED BY <1>1, <1>2

(* What is known of one of the tables that are made.                       *)
LEMMA MadeTable ==
  ASSUME NEW T, NEW m \in 1..25, Made(T, m), NEW i \in m..24
  PROVE  /\ DropOrder[i] \in DOMAIN T
         /\ T[DropOrder[i]].keys = DefOf(i).keys /\ T[DropOrder[i]].nullable = DefOf(i).nullable
         /\ Referenced(T[DropOrder[i]]) \subseteq Late(i) /\ TypesUsed(T[DropOrder[i]]) \subseteq Listed
         /\ Repart(T[DropOrder[i]], "none") = DefOf(i)
<1>0. i \in 1..24
  OBVIOUS
<1>1. PICK p : T[DropOrder[i]] = Repart(DefOf(i), p)
  BY DEF Made
<1>2. Plain(DefOf(i)) /\ Referenced(DefOf(i)) \subseteq Late(i) /\ TypesUsed(DefOf(i)) \subseteq Listed
  BY <1>0, DefsArePlain
<1> DEFINE d == T[DropOrder[i]]
           e == Repart(DefOf(i), p)
<1>3. /\ e.refs = DefOf(i).refs /\ e.enums = DefOf(i).enums
      /\ e.nullable = DefOf(i).nullable /\ e.keys = DefOf(i).keys
      /\ Repart(e, "none") = Repart(DefOf(i), "none")
      /\ Repart(DefOf(i), "none") = DefOf(i)
  BY <1>2, OtherPartition
<1>4. d = e
  BY <1>1
<1>5. DropOrder[i] \in DOMAIN T
  <2>1. DropOrder[i] \in Late(m)
    BY DEF Late
  <2> QED BY <2>1 DEF Made
<1> HIDE DEF d, e
<1>6. Referenced(d) = Referenced(DefOf(i)) /\ TypesUsed(d) = TypesUsed(DefOf(i))
  BY <1>3, <1>4 DEF Referenced, TypesUsed
<1>7. d.keys = DefOf(i).keys /\ d.nullable = DefOf(i).nullable /\ Repart(d, "none") = DefOf(i)
  BY <1>3, <1>4
<1> QED BY <1>2, <1>5, <1>6, <1>7 DEF d

(* One more table, of the place before.                                    *)
LEMMA MadeWith ==
  ASSUME NEW T, NEW m \in 1..24, Made(T, m + 1)
  PROVE  Made(With(T, DropOrder[m], DefOf(m)), m)
<1> DEFINE n == DropOrder[m]
           W == With(T, n, DefOf(m))
<1>1. DOMAIN T = Late(m + 1) /\ n \notin Late(m + 1) /\ Late(m) = Late(m + 1) \union {n}
  BY LateSteps DEF Made
<1>2. /\ W = [t \in Late(m) |-> W[t]] /\ W[n] = DefOf(m)
      /\ \A t \in Late(m + 1) : W[t] = T[t]
  BY <1>1 DEF With
<1>3. ASSUME NEW i \in m..24 PROVE \E p : W[DropOrder[i]] = Repart(DefOf(i), p)
  <2>1. CASE i = m
    <3>1. DefOf(m) = Repart(DefOf(m), "none")
      BY DefsArePlain, OtherPartition
    <3> HIDE DEF W
    <3> QED BY <1>2, <2>1, <3>1
  <2>2. CASE i # m
    <3>1. i \in m + 1..24 /\ DropOrder[i] \in Late(m + 1)
      BY <2>2 DEF Late
    <3>2. PICK p : T[DropOrder[i]] = Repart(DefOf(i), p)
      BY <3>1 DEF Made
    <3> HIDE DEF W
    <3> QED BY <1>2, <3>1, <3>2
  <2> QED BY <2>1, <2>2
<1> HIDE DEF W
<1>4. Made(W, m)
  BY <1>2, <1>3 DEF Made
<1> QED BY <1>4 DEF W

(* One of them becomes a hypertable.                                       *)
LEMMA MadePartition ==
  ASSUME NEW T, NEW m \in 1..24, Made(T, m), NEW col
  PROVE  Made(Reparted(T, DropOrder[m], col), m)
<1> DEFINE n == DropOrder[m]
           W == Reparted(T, n, col)
<1>1. DOMAIN T = Late(m) /\ n \in Late(m)
  BY LateSteps DEF Made
<1>2. /\ W = [t \in Late(m) |-> W[t]] /\ W[n] = Repart(T[n], col)
      /\ \A t \in Late(m) : t # n => W[t] = T[t]
  BY <1>1 DEF Reparted
<1>3. ASSUME NEW i \in m..24 PROVE \E p : W[DropOrder[i]] = Repart(DefOf(i), p)
  <2>1. PICK p : T[DropOrder[i]] = Repart(DefOf(i), p)
    BY DEF Made
  <2>2. CASE i = m
    <3>1. Repart(Repart(DefOf(m), p), col) = Repart(DefOf(m), col)
      BY DefsArePlain, OtherPartition
    <3>2. W[n] = Repart(DefOf(m), col)
      BY <1>2, <2>1, <2>2, <3>1
    <3> HIDE DEF W
    <3> QED BY <2>2, <3>2
  <2>3. CASE i # m
    <3>1. DropOrder[i] \in Late(m) /\ DropOrder[i] # n
      BY <2>3, Distinct DEF Late
    <3> HIDE DEF W, n
    <3> QED BY <1>2, <2>1, <3>1
  <2> QED BY <2>2, <2>3
<1> HIDE DEF W
<1>4. Made(W, m)
  BY <1>2, <1>3 DEF Made
<1> QED BY <1>4 DEF W

(* The table of the first place goes; none of the others refers to it.     *)
LEMMA MadeWithout ==
  ASSUME NEW T, NEW m \in 1..24, Made(T, m)
  PROVE  /\ Made(Without(T, DropOrder[m]), m + 1)
         /\ \A t \in DOMAIN T \ {DropOrder[m]} : DropOrder[m] \notin Referenced(T[t])
<1> DEFINE n == DropOrder[m]
           W == Without(T, n)
<1>1. DOMAIN T = Late(m) /\ n \notin Late(m + 1) /\ Late(m) = Late(m + 1) \union {n}
  BY LateSteps DEF Made
<1>2. Late(m) \ {n} = Late(m + 1)
  BY <1>1
<1>3. W = [t \in Late(m + 1) |-> T[t]]
  BY <1>1, <1>2 DEF Without
<1>4. Made(W, m + 1)
  <2>1. \A i \in m + 1..24 : DropOrder[i] \in Late(m + 1) /\ i \in m..24
    BY DEF Late
  <2>2. W = [t \in Late(m + 1) |-> W[t]] /\ \A i \in m + 1..24 : W[DropOrder[i]] = T[DropOrder[i]]
    BY <1>3, <2>1
  <2>3. ASSUME NEW i \in m + 1..24 PROVE \E p : W[DropOrder[i]] = Repart(DefOf(i), p)
    <3>1. PICK p : T[DropOrder[i]] = Repart(DefOf(i), p)
      BY <2>1 DEF Made
    <3> HIDE DEF W
    <3> QED BY <2>2, <3>1
  <2> HIDE DEF W
  <2> QED BY <2>2, <2>3 DEF Made
<1>5. ASSUME NEW t \in DOMAIN T \ {n} PROVE n \notin Referenced(T[t])
  <2>1. t \in Late(m + 1)
    BY <1>1, <1>2
  <2>2. PICK i \in m + 1..24 : t = DropOrder[i]
    BY <2>1 DEF Late
  <2>3. Referenced(T[t]) \subseteq Late(i)
    <3>1. i \in m..24 /\ m \in 1..25
      OBVIOUS
    <3> QED BY <2>2, <3>1, MadeTable
  <2>4. n \notin Late(i)
    <3>1. \A j \in i..24 : DropOrder[j] # DropOrder[m]
      BY Distinct
    <3> QED BY <3>1 DEF Late
  <2> QED BY <2>3, <2>4
<1> HIDE DEF W
<1> QED BY <1>4, <1>5 DEF W
-----------------------------------------------------------------------------
(* After k statements of the baseline.                                     *)
UpTo(k, c) == \E T : Made(T, Newest(k)) /\ c = Cat(T, FirstTypes(k), {}, {})

(* One statement of the baseline.                                          *)
LEMMA BaselineStep ==
  ASSUME NEW k \in 1..41, NEW c, UpTo(k - 1, c), NEW nulls
  PROVE  Can(Upgrade[1][k], c, nulls) /\ UpTo(k, Apply(Upgrade[1][k], c))
<1> DEFINE s == Upgrade[1][k]
           m == Newest(k)
           Y == FirstTypes(k - 1)
<1>1. PICK T : Made(T, Newest(k - 1)) /\ c = Cat(T, Y, {}, {})
  BY DEF UpTo
<1> HIDE DEF s, m, Y
<1>2. CASE k \in 1..14 /\ m = 25 /\ Newest(k - 1) = 25 /\ s = CreateType(BaselineTypes[k])
  <2>1. BaselineTypes[k] \notin Y /\ FirstTypes(k) = Y \union {BaselineTypes[k]}
    <3>1. \A j \in 1..14 : j <= k - 1 => BaselineTypes[j] # BaselineTypes[k]
      BY <1>2, Distinct
    <3>2. \A j \in 1..14 : j <= k <=> (j <= k - 1 \/ j = k)
      BY <1>2
    <3> QED BY <1>2, <3>1, <3>2 DEF FirstTypes, Y
  <2>2. Can(s, c, nulls)
    BY <1>1, <1>2, <2>1, CanCreateType
  <2>3. Apply(s, c) = Cat(T, FirstTypes(k), {}, {})
    BY <1>1, <1>2, <2>1, ApplyCreateType
  <2> QED BY <1>1, <1>2, <2>2, <2>3 DEF UpTo, s, m
<1>3. ASSUME k \in 15..41 PROVE Y = Listed /\ FirstTypes(k) = Listed
  <2>1. \A j \in 1..14 : j <= k - 1 /\ j <= k
    BY <1>3
  <2> QED BY <2>1 DEF FirstTypes, Listed, Y
<1>4. CASE /\ k \in 15..41 /\ m \in 1..24 /\ Newest(k - 1) = m + 1
           /\ s = CreateTable(DropOrder[m], DefOf(m))
  <2> DEFINE W == With(T, DropOrder[m], DefOf(m))
  <2>1. Made(W, m)
    BY <1>1, <1>4, MadeWith
  <2>2. DropOrder[m] \notin DOMAIN T /\ Referenced(DefOf(m)) \subseteq DOMAIN T \union {DropOrder[m]}
    <3>1. DOMAIN T = Late(m + 1)
      BY <1>1, <1>4 DEF Made
    <3> QED BY <1>4, <3>1, LateSteps, DefsArePlain
  <2>3. TypesUsed(DefOf(m)) \subseteq Listed
    BY <1>4, DefsArePlain
  <2>4. Can(s, c, nulls)
    BY <1>1, <1>3, <1>4, <2>2, <2>3, CanCreateTable
  <2>5. Apply(s, c) = Cat(W, Listed, {}, {})
    BY <1>1, <1>3, <1>4, ApplyCreateTable
  <2> HIDE DEF W
  <2> QED BY <1>3, <1>4, <2>1, <2>4, <2>5 DEF UpTo, s, m
<1>5. CASE /\ k \in 15..41 /\ m \in 1..24 /\ Newest(k - 1) = m
           /\ \E col : s = Hypertable(DropOrder[m], col) /\ \A key \in DefOf(m).keys : col \in key
  <2>1. PICK col : s = Hypertable(DropOrder[m], col) /\ \A key \in DefOf(m).keys : col \in key
    BY <1>5
  <2> DEFINE W == Reparted(T, DropOrder[m], col)
  <2>2. Made(W, m)
    BY <1>1, <1>5, MadePartition
  <2>3. DropOrder[m] \in DOMAIN T /\ T[DropOrder[m]].keys = DefOf(m).keys
    <3>1. m \in 1..25 /\ m \in m..24
      BY <1>5
    <3> QED BY <1>1, <1>5, <3>1, MadeTable
  <2>4. Can(s, c, nulls)
    BY <1>1, <2>1, <2>3, CanHypertable
  <2>5. Apply(s, c) = Cat(W, Listed, {}, {})
    BY <1>1, <1>3, <1>5, <2>1, ApplyHypertable
  <2> HIDE DEF W
  <2> QED BY <1>3, <1>5, <2>2, <2>4, <2>5 DEF UpTo, s, m
<1> QED BY <1>2, <1>4, <1>5, BaselineStatement DEF s, m

(* Before the first of them.                                               *)
LEMMA BaselineStart == UpTo(0, EmptyCatalog)
<1> DEFINE T == [t \in {} |-> t]
<1>1. Newest(0) = 25
  BY DEF Newest
<1>2. Late(25) = {}
  BY LateSteps
<1>3. Made(T, 25)
  BY <1>2 DEF Made
<1>4. FirstTypes(0) = {}
  BY DEF FirstTypes
<1>5. EmptyCatalog = Cat(T, {}, {}, {})
  BY DEF EmptyCatalog, Cat
<1> HIDE DEF T
<1> QED BY <1>1, <1>3, <1>4, <1>5 DEF UpTo

(* Every statement of the baseline runs, whatever rows there are.          *)
LEMMA BaselineRuns ==
  LET c == Passed(Upgrade[1], EmptyCatalog) IN
  /\ \A k \in 0..41 : UpTo(k, c[k])
  /\ \A k \in 1..41 : \A nulls : Can(Upgrade[1][k], c[k - 1], nulls)
<1> DEFINE c == Passed(Upgrade[1], EmptyCatalog)
           T == {k \in 0..41 : UpTo(k, c[k])}
<1>1. c[0] = EmptyCatalog /\ \A k \in 1..41 : c[k] = Apply(Upgrade[1][k], c[k - 1])
  <2>1. HasLength(Upgrade[1], 41) /\ 41 \in Nat
    BY BaselineStatements DEF HasLength
  <2> QED BY <2>1, PassedSteps
<1> HIDE DEF c
<1>2. 0 \in T
  BY <1>1, BaselineStart
<1>3. ASSUME NEW k \in 0..41 - 1, k \in T PROVE k + 1 \in T
  <2>1. k + 1 \in 1..41 /\ (k + 1) - 1 = k
    OBVIOUS
  <2>2. UpTo(k, c[k]) /\ c[k + 1] = Apply(Upgrade[1][k + 1], c[k])
    BY <1>1, <1>3, <2>1
  <2>3. UpTo(k + 1, c[k + 1])
    BY <2>1, <2>2, BaselineStep
  <2> QED BY <2>1, <2>3
<1>4. 0..41 \subseteq T
  <2>1. 41 \in Nat
    OBVIOUS
  <2> HIDE DEF T
  <2> QED BY <1>2, <1>3, <2>1, InductionTo
<1>5. \A k \in 0..41 : UpTo(k, c[k])
  BY <1>4
<1>6. ASSUME NEW k \in 1..41, NEW nulls PROVE Can(Upgrade[1][k], c[k - 1], nulls)
  <2>1. UpTo(k - 1, c[k - 1])
    BY <1>5
  <2> QED BY <2>1, BaselineStep
<1> QED BY <1>5, <1>6 DEF c

-----------------------------------------------------------------------------
(* The statements of the downgrade of the baseline.                        *)
LEMMA BaselineDropStatements ==
  /\ Len(Downgrade[1]) = 38
  /\ \A k \in 1..24 : Downgrade[1][k] = DropTable(DropOrder[k])
  /\ \A k \in 1..14 : Downgrade[1][24 + k] = DropType(BaselineTypes[k])
<1> DEFINE A == DropTables
           B == DropTypes
           E == A \o B
<1>1. IsList(A, 24) /\ \A k \in 1..24 : A[k] = DropTable(DropOrder[k])
  BY DEF DropTables, DropOrder, IsList
<1>2. IsList(B, 14) /\ \A k \in 1..14 : B[k] = DropType(BaselineTypes[k])
  BY DEF DropTypes, BaselineTypes, IsList
<1>3. Downgrade[1] = E /\ IsJoin(E, A, B)
  BY DEF Downgrade, IsJoin
<1> HIDE DEF A, B, E
<1>4. /\ IsList(E, 38)
      /\ \A k \in 1..24 : E[k] = A[k]
      /\ \A k \in 1..14 : E[24 + k] = B[k]
  <2>1. 24 \in Nat /\ 14 \in Nat /\ 24 + 14 = 38
    OBVIOUS
  <2> QED BY <1>1, <1>2, <1>3, <2>1, Joined
<1>5. Len(E) = 38
  BY <1>4 DEF IsList
<1> QED BY <1>1, <1>2, <1>3, <1>4, <1>5

(* After k statements of that downgrade: first the tables go, then the     *)
(* types.                                                                  *)
FirstLeft(k) == IF k <= 24 THEN k + 1 ELSE 25

DownTo(k, c) == \E T : Made(T, FirstLeft(k)) /\ c = Cat(T, LastTypes(k - 24), {}, {})

(* One statement of its downgrade.                                         *)
LEMMA BaselineDropStep ==
  ASSUME NEW k \in 1..38, NEW c, DownTo(k - 1, c), NEW nulls
  PROVE  Can(Downgrade[1][k], c, nulls) /\ DownTo(k, Apply(Downgrade[1][k], c))
<1> DEFINE s == Downgrade[1][k]
           m == FirstLeft(k - 1)
           Y == LastTypes((k - 1) - 24)
           Z == LastTypes(k - 24)
<1>1. PICK T : Made(T, m) /\ c = Cat(T, Y, {}, {})
  BY DEF DownTo
<1> HIDE DEF s, m, Y, Z
<1>2. CASE k \in 1..24
  <2>1. m = k /\ FirstLeft(k) = k + 1
    BY <1>2 DEF FirstLeft, m
  <2>2. Z = Y
    <3>1. \A j \in 1..14 : (k - 1) - 24 < j /\ k - 24 < j
      BY <1>2
    <3> QED BY <3>1 DEF LastTypes, Y, Z
  <2>3. s = DropTable(DropOrder[k])
    BY <1>2, BaselineDropStatements DEF s
  <2> DEFINE W == Without(T, DropOrder[k])
  <2>4. Made(W, k + 1) /\ \A t \in DOMAIN T \ {DropOrder[k]} : DropOrder[k] \notin Referenced(T[t])
    BY <1>1, <1>2, <2>1, MadeWithout
  <2>5. DropOrder[k] \in DOMAIN T
    BY <1>1, <1>2, <2>1, LateSteps DEF Made
  <2>6. Can(s, c, nulls)
    BY <1>1, <2>3, <2>4, <2>5, CanDropTable
  <2>7. Apply(s, c) = Cat(W, Z, {}, {})
    BY <1>1, <2>2, <2>3, ApplyDropTable
  <2> HIDE DEF W
  <2> QED BY <2>1, <2>4, <2>6, <2>7 DEF DownTo, s, Z
<1>3. CASE k \in 25..38
  <2> DEFINE i == k - 24
  <2>0. i \in 1..14 /\ k = 24 + i /\ (k - 1) - 24 = i - 1 /\ k - 24 = i
    BY <1>3
  <2> HIDE DEF i
  <2>1. m = 25 /\ FirstLeft(k) = 25
    BY <1>3 DEF FirstLeft, m
  <2>2. BaselineTypes[i] \in Y /\ Z = Y \ {BaselineTypes[i]}
    <3>1. \A j \in 1..14 : i - 1 < j <=> (i < j \/ j = i)
      BY <2>0
    <3>2. \A j \in 1..14 : i < j => BaselineTypes[j] # BaselineTypes[i]
      BY <2>0, Distinct
    <3>3. Y = LastTypes(i - 1) /\ Z = LastTypes(i)
      BY <2>0 DEF Y, Z
    <3> QED BY <2>0, <3>1, <3>2, <3>3 DEF LastTypes
  <2>3. s = DropType(BaselineTypes[i])
    BY <2>0, BaselineDropStatements DEF s
  <2>4. DOMAIN T = {}
    BY <1>1, <2>1, LateSteps DEF Made
  <2>5. Can(s, c, nulls)
    BY <1>1, <2>2, <2>3, <2>4, CanDropType
  <2>6. Apply(s, c) = Cat(T, Z, {}, {})
    BY <1>1, <2>2, <2>3, ApplyDropType
  <2> QED BY <1>1, <2>1, <2>5, <2>6 DEF DownTo, s, Z
<1>4. k \in 1..24 \/ k \in 25..38
  OBVIOUS
<1> QED BY <1>2, <1>3, <1>4 DEF s

(* The catalog at the baseline: its tables and its types.                  *)
Baseline(T, c) == Made(T, 1) /\ c = Cat(T, Listed, {}, {})

(* The first revision builds the baseline.                                 *)
LEMMA BuiltBaseline == \E T : Baseline(T, Built[1])
<1>1. Built[1] = Passed(Upgrade[1], EmptyCatalog)[41]
  <2>1. 1 \in 1..Latest /\ 1 - 1 = 0 /\ Len(Upgrade[1]) = 41
    BY BaselineStatements DEF Latest
  <2> QED BY <2>1, BuiltSteps
<1>2. UpTo(41, Built[1])
  BY <1>1, BaselineRuns
<1>3. Newest(41) = 1
  BY DEF Newest
<1>4. FirstTypes(41) = Listed
  BY DEF FirstTypes, Listed
<1> QED BY <1>2, <1>3, <1>4 DEF UpTo, Baseline

(* Every statement of the downgrade to the empty database runs, and the    *)
(* last of them leaves nothing behind.                                     *)
LEMMA BaselineDrops ==
  ASSUME NEW b, NEW T0, Baseline(T0, b)
  PROVE  LET c == Passed(Downgrade[1], b) IN
         /\ c[38] = EmptyCatalog
         /\ \A k \in 1..38 : \A nulls : Can(Downgrade[1][k], c[k - 1], nulls)
<1> DEFINE c == Passed(Downgrade[1], b)
           T == {k \in 0..38 : DownTo(k, c[k])}
<1>1. c[0] = b /\ \A k \in 1..38 : c[k] = Apply(Downgrade[1][k], c[k - 1])
  <2>1. HasLength(Downgrade[1], 38) /\ 38 \in Nat
    BY BaselineDropStatements DEF HasLength
  <2> QED BY <2>1, PassedSteps
<1> HIDE DEF c
<1>2. 0 \in T
  <2>1. FirstLeft(0) = 1
    BY DEF FirstLeft
  <2>2. LastTypes(0 - 24) = Listed
    BY DEF LastTypes, Listed
  <2> QED BY <1>1, <2>1, <2>2 DEF DownTo, Baseline
<1>3. ASSUME NEW k \in 0..38 - 1, k \in T PROVE k + 1 \in T
  <2>1. k + 1 \in 1..38 /\ (k + 1) - 1 = k
    OBVIOUS
  <2>2. DownTo(k, c[k]) /\ c[k + 1] = Apply(Downgrade[1][k + 1], c[k])
    BY <1>1, <1>3, <2>1
  <2>3. DownTo(k + 1, c[k + 1])
    BY <2>1, <2>2, BaselineDropStep
  <2> QED BY <2>1, <2>3
<1>4. 0..38 \subseteq T
  <2>1. 38 \in Nat
    OBVIOUS
  <2> HIDE DEF T
  <2> QED BY <1>2, <1>3, <2>1, InductionTo
<1>5. \A k \in 0..38 : DownTo(k, c[k])
  BY <1>4
<1>6. ASSUME NEW k \in 1..38, NEW nulls PROVE Can(Downgrade[1][k], c[k - 1], nulls)
  <2>1. DownTo(k - 1, c[k - 1])
    BY <1>5
  <2> QED BY <2>1, BaselineDropStep
<1>7. c[38] = EmptyCatalog
  <2>1. PICK W : Made(W, FirstLeft(38)) /\ c[38] = Cat(W, LastTypes(38 - 24), {}, {})
    BY <1>5 DEF DownTo
  <2>2. FirstLeft(38) = 25 /\ Late(25) = {}
    BY LateSteps DEF FirstLeft
  <2>3. LastTypes(38 - 24) = {}
    BY DEF LastTypes
  <2>4. W = [t \in {} |-> t]
    <3>1. W = [t \in {} |-> W[t]]
      BY <2>1, <2>2 DEF Made
    <3> QED BY <3>1
  <2> QED BY <2>1, <2>3, <2>4 DEF Cat, EmptyCatalog
<1> QED BY <1>6, <1>7 DEF c

-----------------------------------------------------------------------------
(* One statement takes a catalog to another, and can be refused only for   *)
(* a NULL in a column it makes NOT NULL; a script likewise.                *)
Runs(s, c, d) ==
  /\ Apply(s, c) = d
  /\ \A nulls : Can(s, c, nulls) \/ (nulls # {} /\ s.kind = "set_not_null")

Leads(script, c, d) ==
  /\ Passed(script, c)[Len(script)] = d
  /\ \A k \in 1..Len(script) : \A nulls :
       \/ Can(script[k], Passed(script, c)[k - 1], nulls)
       \/ nulls # {} /\ script[k].kind = "set_not_null"

(* A script of two statements, and one of three.                           *)
LEMMA LeadsTwo ==
  ASSUME NEW script, HasLength(script, 2), NEW a, NEW b, NEW d,
         Runs(script[1], a, b), Runs(script[2], b, d)
  PROVE  Leads(script, a, d)
<1> DEFINE c == Passed(script, a)
<1>1. c[0] = a /\ \A k \in 1..2 : c[k] = Apply(script[k], c[k - 1])
  <2>1. 2 \in Nat
    OBVIOUS
  <2> QED BY <2>1, PassedSteps
<1> HIDE DEF c
<1>2. c[1] = b /\ c[2] = d
  <2>1. c[1] = Apply(script[1], c[0]) /\ c[2] = Apply(script[2], c[1])
    BY <1>1
  <2> QED BY <1>1, <2>1 DEF Runs
<1>3. \A k \in 1..2 : (k = 1 /\ k - 1 = 0) \/ (k = 2 /\ k - 1 = 1)
  OBVIOUS
<1>4. ASSUME NEW k \in 1..2, NEW nulls
      PROVE  Can(script[k], c[k - 1], nulls) \/ (nulls # {} /\ script[k].kind = "set_not_null")
  BY <1>1, <1>2, <1>3 DEF Runs
<1> QED BY <1>2, <1>4 DEF Leads, HasLength, c

LEMMA LeadsThree ==
  ASSUME NEW script, HasLength(script, 3), NEW a, NEW b, NEW e, NEW d,
         Runs(script[1], a, b), Runs(script[2], b, e), Runs(script[3], e, d)
  PROVE  Leads(script, a, d)
<1> DEFINE c == Passed(script, a)
<1>1. c[0] = a /\ \A k \in 1..3 : c[k] = Apply(script[k], c[k - 1])
  <2>1. 3 \in Nat
    OBVIOUS
  <2> QED BY <2>1, PassedSteps
<1> HIDE DEF c
<1>2. c[1] = b /\ c[2] = e /\ c[3] = d
  <2>1. c[1] = Apply(script[1], c[0]) /\ c[2] = Apply(script[2], c[1]) /\ c[3] = Apply(script[3], c[2])
    BY <1>1
  <2> QED BY <1>1, <2>1 DEF Runs
<1>3. \A k \in 1..3 : (k = 1 /\ k - 1 = 0) \/ (k = 2 /\ k - 1 = 1) \/ (k = 3 /\ k - 1 = 2)
  OBVIOUS
<1>4. ASSUME NEW k \in 1..3, NEW nulls
      PROVE  Can(script[k], c[k - 1], nulls) \/ (nulls # {} /\ script[k].kind = "set_not_null")
  BY <1>1, <1>2, <1>3 DEF Runs
<1> QED BY <1>2, <1>4 DEF Leads, HasLength, c

(* Foreign keys and enum types that are there.                             *)
Closed(T, Y) ==
  /\ T = [t \in DOMAIN T |-> T[t]]
  /\ \A t \in DOMAIN T : Referenced(T[t]) \subseteq DOMAIN T /\ TypesUsed(T[t]) \subseteq Y

(* The baseline has all that its tables refer to.                          *)
LEMMA MadeClosed == ASSUME NEW T, Made(T, 1) PROVE Closed(T, Listed) /\ DOMAIN T = Late(1)
<1>1. DOMAIN T = Late(1) /\ T = [t \in DOMAIN T |-> T[t]]
  BY DEF Made
<1>2. ASSUME NEW t \in DOMAIN T PROVE Referenced(T[t]) \subseteq Late(1) /\ TypesUsed(T[t]) \subseteq Listed
  <2>1. PICK i \in 1..24 : t = DropOrder[i]
    BY <1>1 DEF Late
  <2>2. 1 \in 1..25 /\ i \in 1..24
    OBVIOUS
  <2>3. Referenced(T[t]) \subseteq Late(i) /\ TypesUsed(T[t]) \subseteq Listed
    BY <2>1, <2>2, MadeTable
  <2>4. Late(i) \subseteq Late(1)
    <3>1. \A j \in i..24 : j \in 1..24
      OBVIOUS
    <3> QED BY <3>1 DEF Late
  <2> QED BY <2>3, <2>4
<1> QED BY <1>1, <1>2 DEF Closed

(* A revision that adds one table and the enum type it uses, and the       *)
(* downgrade that removes both.                                            *)
Grows(up, n, y, def) == HasLength(up, 2) /\ up[1] = CreateType(y) /\ up[2] = CreateTable(n, def)
Shrinks(down, n, y)  == HasLength(down, 2) /\ down[1] = DropTable(n) /\ down[2] = DropType(y)

(* A table that is added and dropped leaves no trace.                      *)
LEMMA WithoutWith ==
  ASSUME NEW T, NEW Y, Closed(T, Y), NEW n, n \notin DOMAIN T, NEW def
  PROVE  Without(With(T, n, def), n) = T
<1>1. DOMAIN With(T, n, def) \ {n} = DOMAIN T
  BY DEF With
<1>2. \A t \in DOMAIN T : With(T, n, def)[t] = T[t]
  BY DEF With
<1>3. Without(With(T, n, def), n) = [t \in DOMAIN T |-> T[t]]
  BY <1>1, <1>2 DEF Without
<1> QED BY <1>3 DEF Closed

(* A table that refers to others, and not to itself.                       *)
LEMMA WithClosed ==
  ASSUME NEW T, NEW Y, Closed(T, Y), NEW n, n \notin DOMAIN T, NEW y, NEW def,
         Referenced(def) \subseteq DOMAIN T, TypesUsed(def) \subseteq {y}
  PROVE  /\ Closed(With(T, n, def), Y \union {y})
         /\ DOMAIN With(T, n, def) = DOMAIN T \union {n}
         /\ \A t \in DOMAIN With(T, n, def) : n \notin Referenced(With(T, n, def)[t])
<1> DEFINE W == With(T, n, def)
<1>1. DOMAIN W = DOMAIN T \union {n} /\ W = [t \in DOMAIN W |-> W[t]]
  BY DEF With
<1>2. W[n] = def /\ \A t \in DOMAIN T : W[t] = T[t]
  BY DEF With
<1> HIDE DEF W
<1>3. ASSUME NEW t \in DOMAIN W
      PROVE  Referenced(W[t]) \subseteq DOMAIN T /\ TypesUsed(W[t]) \subseteq Y \union {y}
  <2>1. CASE t = n
    BY <1>2, <2>1
  <2>2. CASE t # n
    <3>1. t \in DOMAIN T /\ W[t] = T[t]
      BY <1>1, <1>2, <2>2
    <3> QED BY <3>1 DEF Closed
  <2> QED BY <2>1, <2>2
<1>4. Closed(W, Y \union {y})
  BY <1>1, <1>3 DEF Closed
<1>5. \A t \in DOMAIN W : n \notin Referenced(W[t])
  BY <1>3
<1> QED BY <1>1, <1>4, <1>5 DEF W

(* Such a revision and its downgrade lead from one catalog to the other    *)
(* and back.                                                               *)
LEMMA RevisionGrows ==
  ASSUME NEW T, NEW Y, Closed(T, Y), NEW n, n \notin DOMAIN T, NEW y, y \notin Y, NEW def,
         Referenced(def) \subseteq DOMAIN T, TypesUsed(def) \subseteq {y},
         NEW up, Grows(up, n, y, def), NEW down, Shrinks(down, n, y)
  PROVE  LET a == Cat(T, Y, {}, {})
             b == Cat(With(T, n, def), Y \union {y}, {}, {})
         IN  Leads(up, a, b) /\ Leads(down, b, a)
<1> DEFINE W == With(T, n, def)
           Z == Y \union {y}
           a == Cat(T, Y, {}, {})
           i == Cat(T, Z, {}, {})
           b == Cat(W, Z, {}, {})
<1>0. /\ up[1] = CreateType(y) /\ up[2] = CreateTable(n, def) /\ HasLength(up, 2)
      /\ down[1] = DropTable(n) /\ down[2] = DropType(y) /\ HasLength(down, 2)
  BY DEF Grows, Shrinks
<1>1. Runs(CreateType(y), a, i)
  <2>1. \A nulls : Can(CreateType(y), a, nulls)
    BY CanCreateType
  <2> QED BY <2>1, ApplyCreateType DEF Runs
<1>2. Runs(CreateTable(n, def), i, b)
  <2>1. Referenced(def) \subseteq DOMAIN T \union {n} /\ TypesUsed(def) \subseteq Z
    OBVIOUS
  <2> HIDE DEF Z
  <2>2. \A nulls : Can(CreateTable(n, def), i, nulls)
    BY <2>1, CanCreateTable
  <2>3. Apply(CreateTable(n, def), i) = b
    BY ApplyCreateTable
  <2> QED BY <2>2, <2>3 DEF Runs
<1>3. Runs(DropTable(n), b, i)
  <2>1. DOMAIN W = DOMAIN T \union {n} /\ \A t \in DOMAIN W : n \notin Referenced(W[t])
    BY WithClosed
  <2>2. Without(W, n) = T
    BY WithoutWith
  <2> HIDE DEF W, Z
  <2>3. \A nulls : Can(DropTable(n), b, nulls)
    BY <2>1, CanDropTable
  <2>4. Apply(DropTable(n), b) = i
    BY <2>2, ApplyDropTable
  <2> QED BY <2>3, <2>4 DEF Runs
<1>4. Runs(DropType(y), i, a)
  <2>1. y \in Z /\ Z \ {y} = Y
    OBVIOUS
  <2>2. \A t \in DOMAIN T : y \notin TypesUsed(T[t])
    BY DEF Closed
  <2> HIDE DEF Z
  <2>3. \A nulls : Can(DropType(y), i, nulls)
    BY <2>1, <2>2, CanDropType
  <2>4. Apply(DropType(y), i) = a
    BY <2>1, ApplyDropType
  <2> QED BY <2>3, <2>4 DEF Runs
<1> HIDE DEF W, Z, a, i, b
<1>5. Leads(up, a, b)
  BY <1>0, <1>1, <1>2, LeadsTwo
<1>6. Leads(down, b, a)
  BY <1>0, <1>3, <1>4, LeadsTwo
<1> QED BY <1>5, <1>6 DEF W, Z, a, b

-----------------------------------------------------------------------------
CheckpointDef == UpgradeCheckpoint[2].def
QualityDef    == UpgradeQuality[2].def

(* Revision 2 adds the backfill checkpoints.                               *)
LEMMA CheckpointGrows ==
  /\ Grows(Upgrade[2], "candle_backfill_checkpoint", "backfill_checkpoint_status", CheckpointDef)
  /\ Shrinks(Downgrade[2], "candle_backfill_checkpoint", "backfill_checkpoint_status")
  /\ Referenced(CheckpointDef) = {"venue", "instrument"}
  /\ TypesUsed(CheckpointDef) = {"backfill_checkpoint_status"}
  /\ Plain(CheckpointDef)
<1>1. Upgrade[2] = UpgradeCheckpoint /\ Downgrade[2] = DowngradeCheckpoint
  BY DEF Upgrade, Downgrade
<1>2. /\ Len(UpgradeCheckpoint) = 2
      /\ UpgradeCheckpoint[1] = CreateType("backfill_checkpoint_status")
      /\ UpgradeCheckpoint[2] = CreateTable("candle_backfill_checkpoint", CheckpointDef)
  BY DEF UpgradeCheckpoint, CheckpointDef, CreateTable
<1>3. /\ Len(DowngradeCheckpoint) = 2
      /\ DowngradeCheckpoint[1] = DropTable("candle_backfill_checkpoint")
      /\ DowngradeCheckpoint[2] = DropType("backfill_checkpoint_status")
  BY DEF DowngradeCheckpoint
<1>4. /\ CheckpointDef.refs = {<<"venue_id", "venue">>, <<"instrument_id", "instrument">>}
      /\ CheckpointDef.enums = {<<"status", "backfill_checkpoint_status">>}
      /\ Plain(CheckpointDef)
  BY TableIsPlain DEF UpgradeCheckpoint, CheckpointDef, CreateTable, Table
<1> HIDE DEF CheckpointDef
<1>5. /\ Referenced(CheckpointDef) = {"venue", "instrument"}
      /\ TypesUsed(CheckpointDef) = {"backfill_checkpoint_status"}
  BY <1>4 DEF Referenced, TypesUsed
<1> QED BY <1>1, <1>2, <1>3, <1>4, <1>5 DEF Grows, Shrinks, HasLength

(* Revision 3 adds the data quality events.                                *)
LEMMA QualityGrows ==
  /\ Grows(Upgrade[3], "data_quality_event", "data_quality_event_severity", QualityDef)
  /\ Shrinks(Downgrade[3], "data_quality_event", "data_quality_event_severity")
  /\ Referenced(QualityDef) = {"instrument"}
  /\ TypesUsed(QualityDef) = {"data_quality_event_severity"}
  /\ Plain(QualityDef)
<1>1. Upgrade[3] = UpgradeQuality /\ Downgrade[3] = DowngradeQuality
  BY DEF Upgrade, Downgrade
<1>2. /\ Len(UpgradeQuality) = 2
      /\ UpgradeQuality[1] = CreateType("data_quality_event_severity")
      /\ UpgradeQuality[2] = CreateTable("data_quality_event", QualityDef)
  BY DEF UpgradeQuality, QualityDef, CreateTable
<1>3. /\ Len(DowngradeQuality) = 2
      /\ DowngradeQuality[1] = DropTable("data_quality_event")
      /\ DowngradeQuality[2] = DropType("data_quality_event_severity")
  BY DEF DowngradeQuality
<1>4. /\ QualityDef.refs = {<<"instrument_id", "instrument">>}
      /\ QualityDef.enums = {<<"severity", "data_quality_event_severity">>}
      /\ Plain(QualityDef)
  BY TableIsPlain DEF UpgradeQuality, QualityDef, CreateTable, Table
<1> HIDE DEF QualityDef
<1>5. /\ Referenced(QualityDef) = {"instrument"}
      /\ TypesUsed(QualityDef) = {"data_quality_event_severity"}
  BY <1>4 DEF Referenced, TypesUsed
<1> QED BY <1>1, <1>2, <1>3, <1>4, <1>5 DEF Grows, Shrinks, HasLength

(* The last revision loosens the metrics and guards the runs; its          *)
(* downgrade takes both back, if no metric was nullable before.            *)
Guard == Trigger("backtest_run_append_only", "backtest_run", "prevent_backtest_run_mutation")

(* Revision 4 and its downgrade, on tables whose metrics are NOT NULL.     *)
LEMMA RegistryLeads ==
  ASSUME NEW T, NEW Y, T = [t \in DOMAIN T |-> T[t]], "backtest_run" \in DOMAIN T,
         "backtest_metrics" \in DOMAIN T, NEW d, Plain(d), NEW p,
         T["backtest_metrics"] = Repart(d, p), d.nullable = {}
  PROVE  LET a == Cat(T, Y, {}, {})
             b == Cat(Loosened(T, "backtest_metrics", NullableMetrics), Y,
                      {"prevent_backtest_run_mutation"}, {Guard})
         IN  Leads(Upgrade[4], a, b) /\ Leads(Downgrade[4], b, a)
<1> DEFINE n == "backtest_metrics"
           f == "prevent_backtest_run_mutation"
           g == "backtest_run_append_only"
           N == NullableMetrics
           W == Loosened(T, n, N)
           a == Cat(T, Y, {}, {})
           i == Cat(W, Y, {}, {})
           j == Cat(W, Y, {f}, {})
           b == Cat(W, Y, {f}, {Guard})
<1>0. /\ HasLength(Upgrade[4], 3) /\ HasLength(Downgrade[4], 3)
      /\ Upgrade[4][1] = DropNotNull(n, N) /\ Upgrade[4][2] = CreateFunction(f)
      /\ Upgrade[4][3] = CreateTrigger(g, "backtest_run", f)
      /\ Downgrade[4][1] = DropTrigger(g, "backtest_run") /\ Downgrade[4][2] = DropFunction(f)
      /\ Downgrade[4][3] = SetNotNull(n, N)
  BY DEF Upgrade, Downgrade, UpgradeRegistry, DowngradeRegistry, HasLength
<1>1. DOMAIN W = DOMAIN T
  BY DEF Loosened
<1>2. Tightened(W, n, N) = T
  <2>1. PICK r, u, k, h : T[n] = [refs |-> r, enums |-> u, nullable |-> {}, keys |-> k, checks |-> h,
                                  partition |-> p]
    <3>1. PICK r, u, x, k, h : d = [refs |-> r, enums |-> u, nullable |-> x, keys |-> k, checks |-> h,
                                    partition |-> "none"]
      BY DEF Plain, Table
    <3>2. x = {}
      BY <3>1
    <3>3. T[n] = [refs |-> r, enums |-> u, nullable |-> {}, keys |-> k, checks |-> h, partition |-> p]
      BY <3>1, <3>2 DEF Repart
    <3> QED BY <3>3
  <2> DEFINE loose == [refs |-> r, enums |-> u, nullable |-> N, keys |-> k, checks |-> h,
                       partition |-> p]
  <2>2. [T[n] EXCEPT !.nullable = @ \union N] = loose
    BY <2>1
  <2>3. [loose EXCEPT !.nullable = @ \ N] = T[n]
    <3>1. N \ N = {}
      OBVIOUS
    <3> HIDE DEF N
    <3> QED BY <2>1, <3>1
  <2> HIDE DEF loose
  <2>4. W = [T EXCEPT ![n] = loose]
    <3>1. W = [T EXCEPT ![n] = [T[n] EXCEPT !.nullable = @ \union N]]
      BY Zenon DEF Loosened
    <3> QED BY <2>2, <3>1
  <2>5. W[n] = loose /\ \A t \in DOMAIN T : t # n => W[t] = T[t]
    BY <2>4
  <2>6. Tightened(W, n, N) = [W EXCEPT ![n] = [W[n] EXCEPT !.nullable = @ \ N]]
    BY Zenon DEF Tightened
  <2>7. Tightened(W, n, N) = [W EXCEPT ![n] = T[n]]
    BY <2>3, <2>5, <2>6
  <2>8. [W EXCEPT ![n] = T[n]] = [t \in DOMAIN T |-> T[t]]
    <3> DEFINE V == [W EXCEPT ![n] = T[n]]
    <3>1. DOMAIN V = DOMAIN T /\ V = [t \in DOMAIN T |-> V[t]] /\ V[n] = T[n]
      BY <1>1
    <3>2. \A t \in DOMAIN T : V[t] = T[t]
      BY <1>1, <2>5, <3>1
    <3> HIDE DEF V, W
    <3>3. V = [t \in DOMAIN T |-> T[t]]
      BY <3>1, <3>2
    <3> QED BY <3>3 DEF V
  <2> QED BY <2>7, <2>8
<1> HIDE DEF N, W
<1>3. Runs(DropNotNull(n, N), a, i)
  <2>1. \A nulls : Can(DropNotNull(n, N), a, nulls)
    BY CanDropNotNull
  <2>2. Apply(DropNotNull(n, N), a) = i
    BY ApplyDropNotNull DEF W
  <2> QED BY <2>1, <2>2 DEF Runs
<1>4. Runs(CreateFunction(f), i, j)
  <2>1. \A nulls : Can(CreateFunction(f), i, nulls)
    BY CanCreateFunction
  <2> QED BY <2>1, ApplyCreateFunction DEF Runs
<1>5. Runs(CreateTrigger(g, "backtest_run", f), j, b)
  <2>1. \A nulls : Can(CreateTrigger(g, "backtest_run", f), j, nulls)
    BY <1>1, CanCreateTrigger
  <2>2. Apply(CreateTrigger(g, "backtest_run", f), j) = b
    BY ApplyCreateTrigger DEF Guard
  <2> QED BY <2>1, <2>2 DEF Runs
<1>6. Runs(DropTrigger(g, "backtest_run"), b, j)
  <2>1. \A nulls : Can(DropTrigger(g, "backtest_run"), b, nulls)
    BY CanDropTrigger DEF Guard
  <2>2. Apply(DropTrigger(g, "backtest_run"), b) = j
    BY ApplyDropTrigger DEF Guard
  <2> QED BY <2>1, <2>2 DEF Runs
<1>7. Runs(DropFunction(f), j, i)
  <2>1. \A nulls : Can(DropFunction(f), j, nulls)
    BY CanDropFunction
  <2>2. Apply(DropFunction(f), j) = i
    BY ApplyDropFunction
  <2> QED BY <2>1, <2>2 DEF Runs
<1>8. Runs(SetNotNull(n, N), i, a)
  <2>1. Can(SetNotNull(n, N), i, {})
    BY <1>1, CanSetNotNull
  <2>2. Apply(SetNotNull(n, N), i) = a
    BY <1>2, ApplySetNotNull
  <2>3. SetNotNull(n, N).kind = "set_not_null"
    BY DEF SetNotNull
  <2>4. \A nulls : nulls = {} \/ nulls # {}
    OBVIOUS
  <2> HIDE DEF i, a
  <2> QED BY <2>1, <2>2, <2>3, <2>4 DEF Runs
<1> HIDE DEF a, i, j, b, n, f, g
<1>9. Leads(Upgrade[4], a, b)
  BY <1>0, <1>3, <1>4, <1>5, LeadsThree
<1>10. Leads(Downgrade[4], b, a)
  BY <1>0, <1>6, <1>7, <1>8, LeadsThree
<1> QED BY <1>9, <1>10 DEF a, b, n, f, N, W

(* The tables of the head, given those of the baseline.                    *)
Checked(T)  == With(T, "candle_backfill_checkpoint", CheckpointDef)
Audited(T)  == With(Checked(T), "data_quality_event", QualityDef)
HeadTables(T)     == Loosened(Audited(T), "backtest_metrics", NullableMetrics)
HeadTypes   == (Listed \union {"backfill_checkpoint_status"}) \union {"data_quality_event_severity"}

(* The tables of the baseline that the later revisions need, and the names *)
(* they add.                                                               *)
LEMMA LateTables ==
  /\ {"venue", "instrument", "backtest_run", "backtest_metrics"} \subseteq Late(1)
  /\ "candle_backfill_checkpoint" \notin Late(1) /\ "data_quality_event" \notin Late(1)
  /\ "backfill_checkpoint_status" \notin Listed /\ "data_quality_event_severity" \notin Listed
<1>1. /\ DropOrder[22] = "venue" /\ DropOrder[18] = "instrument"
      /\ DropOrder[20] = "backtest_run" /\ DropOrder[15] = "backtest_metrics"
  BY DEF DropOrder
<1>2. {"venue", "instrument", "backtest_run", "backtest_metrics"} \subseteq Late(1)
  <2>1. 22 \in 1..24 /\ 18 \in 1..24 /\ 20 \in 1..24 /\ 15 \in 1..24
    OBVIOUS
  <2> QED BY <1>1, <2>1 DEF Late
<1>3. "candle_backfill_checkpoint" \notin Late(1) /\ "data_quality_event" \notin Late(1)
  BY Distinct DEF Late
<1>4. "backfill_checkpoint_status" \notin Listed /\ "data_quality_event_severity" \notin Listed
  BY Distinct DEF Listed
<1> QED BY <1>2, <1>3, <1>4

(* The baseline makes the metrics NOT NULL.                                *)
LEMMA NoMetricIsNullable ==
  /\ DropOrder[15] = "backtest_metrics" /\ Plain(DefOf(15)) /\ DefOf(15).nullable = {}
<1>1. Maker(15) = 20 + 4
  BY DEF Maker
<1>2. Upgrade[1][20 + 4] = CreateInstruments[4]
  <2>1. 4 \in 1..5
    OBVIOUS
  <2> QED BY <2>1, BaselineStatements
<1>3. CreateInstruments[4].def.nullable = {}
  BY DEF CreateInstruments, CreateTable, Table
<1>4. DefOf(15).nullable = {}
  BY <1>1, <1>2, <1>3 DEF DefOf
<1>5. Plain(DefOf(15))
  <2>1. 15 \in 1..24
    OBVIOUS
  <2> QED BY <2>1, DefsArePlain
<1>6. DropOrder[15] = "backtest_metrics"
  BY DEF DropOrder
<1> QED BY <1>4, <1>5, <1>6

(* The step of a revision with two or three statements.                    *)
LEMMA BuiltNext ==
  ASSUME NEW r \in 1..Latest, NEW d, Leads(Upgrade[r], Built[r - 1], d)
  PROVE  Built[r] = d
  BY BuiltSteps DEF Leads

(* What the revisions build, and that every upgrade builds the next and    *)
(* every downgrade takes it back.                                          *)
LEMMA Chain ==
  \E T : /\ Made(T, 1)
         /\ Built[4] = Cat(HeadTables(T), HeadTypes, {"prevent_backtest_run_mutation"}, {Guard})
         /\ \A r \in 1..Latest : /\ Leads(Upgrade[r], Built[r - 1], Built[r])
                                 /\ Leads(Downgrade[r], Built[r], Built[r - 1])
<1>0. Latest = 4
  BY DEF Latest
<1>1. PICK T : Baseline(T, Built[1])
  BY BuiltBaseline
<1> DEFINE Y2 == Listed \union {"backfill_checkpoint_status"}
           f == "prevent_backtest_run_mutation"
           b1 == Cat(T, Listed, {}, {})
           b2 == Cat(Checked(T), Y2, {}, {})
           b3 == Cat(Audited(T), HeadTypes, {}, {})
           b4 == Cat(HeadTables(T), HeadTypes, {f}, {Guard})
<1>2. Made(T, 1) /\ Built[1] = b1
  BY <1>1 DEF Baseline
<1>3. Closed(T, Listed) /\ DOMAIN T = Late(1)
  BY <1>2, MadeClosed
<1>4. Leads(Upgrade[2], b1, b2) /\ Leads(Downgrade[2], b2, b1)
  <2>1. /\ "candle_backfill_checkpoint" \notin DOMAIN T /\ "backfill_checkpoint_status" \notin Listed
        /\ Referenced(CheckpointDef) \subseteq DOMAIN T
        /\ TypesUsed(CheckpointDef) \subseteq {"backfill_checkpoint_status"}
    BY <1>3, LateTables, CheckpointGrows
  <2> HIDE DEF f
  <2> QED BY <1>3, <2>1, CheckpointGrows, RevisionGrows DEF Checked
<1>5. Closed(Checked(T), Y2) /\ DOMAIN Checked(T) = Late(1) \union {"candle_backfill_checkpoint"}
  <2>1. /\ "candle_backfill_checkpoint" \notin DOMAIN T
        /\ Referenced(CheckpointDef) \subseteq DOMAIN T
        /\ TypesUsed(CheckpointDef) \subseteq {"backfill_checkpoint_status"}
    BY <1>3, LateTables, CheckpointGrows
  <2> QED BY <1>3, <2>1, WithClosed DEF Checked
<1> HIDE DEF b1, b2, b3, b4, f
<1>6. Leads(Upgrade[3], b2, b3) /\ Leads(Downgrade[3], b3, b2)
  <2>1. /\ "data_quality_event" \notin DOMAIN Checked(T) /\ "data_quality_event_severity" \notin Y2
        /\ Referenced(QualityDef) \subseteq DOMAIN Checked(T)
        /\ TypesUsed(QualityDef) \subseteq {"data_quality_event_severity"}
    BY <1>5, LateTables, QualityGrows
  <2> QED BY <1>5, <2>1, QualityGrows, RevisionGrows DEF Audited, HeadTypes, b2, b3
<1>7. /\ Closed(Audited(T), HeadTypes)
      /\ DOMAIN Audited(T) = DOMAIN Checked(T) \union {"data_quality_event"}
  <2>1. /\ "data_quality_event" \notin DOMAIN Checked(T)
        /\ Referenced(QualityDef) \subseteq DOMAIN Checked(T)
        /\ TypesUsed(QualityDef) \subseteq {"data_quality_event_severity"}
    BY <1>5, LateTables, QualityGrows
  <2> QED BY <1>5, <2>1, WithClosed DEF Audited, HeadTypes
<1>8. Leads(Upgrade[4], b3, b4) /\ Leads(Downgrade[4], b4, b3)
  <2>1. Audited(T)["backtest_metrics"] = T["backtest_metrics"]
    BY <1>3, LateTables DEF Audited, Checked, With
  <2>2. PICK p : T["backtest_metrics"] = Repart(DefOf(15), p)
    <3>1. 15 \in 1..24
      OBVIOUS
    <3> QED BY <1>2, <3>1, NoMetricIsNullable DEF Made
  <2>3. /\ Audited(T) = [t \in DOMAIN Audited(T) |-> Audited(T)[t]]
        /\ "backtest_run" \in DOMAIN Audited(T) /\ "backtest_metrics" \in DOMAIN Audited(T)
    BY <1>5, <1>7, LateTables DEF Closed
  <2>4. Audited(T)["backtest_metrics"] = Repart(DefOf(15), p)
    BY <2>1, <2>2
  <2> QED BY <2>3, <2>4, NoMetricIsNullable, RegistryLeads DEF HeadTables, b3, b4, f
<1>9. Built[2] = b2
  <2>1. 2 \in 1..Latest /\ 2 - 1 = 1
    BY <1>0
  <2> QED BY <1>2, <1>4, <2>1, BuiltNext
<1>10. Built[3] = b3
  <2>1. 3 \in 1..Latest /\ 3 - 1 = 2
    BY <1>0
  <2> QED BY <1>6, <1>9, <2>1, BuiltNext
<1>11. Built[4] = b4
  <2>1. 4 \in 1..Latest /\ 4 - 1 = 3
    BY <1>0
  <2> QED BY <1>8, <1>10, <2>1, BuiltNext
<1>12. Leads(Upgrade[1], Built[0], Built[1])
  <2>1. Built[0] = EmptyCatalog /\ Built[1] = Passed(Upgrade[1], Built[0])[41]
    <3>1. 1 \in 1..Latest /\ 1 - 1 = 0 /\ Len(Upgrade[1]) = 41
      BY <1>0, BaselineStatements
    <3> QED BY <3>1, BuiltSteps
  <2>2. Len(Upgrade[1]) = 41
    BY BaselineStatements
  <2> QED BY <2>1, <2>2, BaselineRuns DEF Leads
<1>13. Leads(Downgrade[1], Built[1], Built[0])
  <2>1. Built[0] = EmptyCatalog
    BY BuiltSteps
  <2>2. Len(Downgrade[1]) = 38
    BY BaselineDropStatements
  <2> QED BY <1>1, <2>1, <2>2, BaselineDrops DEF Leads
<1>14. ASSUME NEW r \in 1..Latest
       PROVE  Leads(Upgrade[r], Built[r - 1], Built[r]) /\ Leads(Downgrade[r], Built[r], Built[r - 1])
  <2>1. (r = 1 /\ r - 1 = 0) \/ (r = 2 /\ r - 1 = 1) \/ (r = 3 /\ r - 1 = 2) \/ (r = 4 /\ r - 1 = 3)
    BY <1>0
  <2> QED BY <1>2, <1>4, <1>6, <1>8, <1>9, <1>10, <1>11, <1>12, <1>13, <2>1
<1> QED BY <1>2, <1>11, <1>14 DEF b4, f

-----------------------------------------------------------------------------
(* The committed catalog is what the revisions up to its own build, and a  *)
(* migration works on what the statements it has run make of that.         *)
WorkFollowsScript ==
  migration.running =>
    migration.work = IF migration.at = migration.to THEN Built[migration.at]
                     ELSE Passed(Script, Built[migration.at])[migration.done]

CatalogInv == catalog = Built[revision] /\ WorkFollowsScript

(* Every script has a length.                                              *)
LEMMA ScriptLengths == \A i \in 1..Latest : Len(Upgrade[i]) \in Nat /\ Len(Downgrade[i]) \in Nat
<1>1. Len(Upgrade[1]) \in Nat /\ Len(Downgrade[1]) \in Nat
  BY BaselineStatements, BaselineDropStatements
<1>2. Len(Upgrade[2]) \in Nat /\ Len(Downgrade[2]) \in Nat
  BY CheckpointGrows DEF Grows, Shrinks, HasLength
<1>3. Len(Upgrade[3]) \in Nat /\ Len(Downgrade[3]) \in Nat
  BY QualityGrows DEF Grows, Shrinks, HasLength
<1>4. Len(Upgrade[4]) \in Nat /\ Len(Downgrade[4]) \in Nat
  BY DEF Upgrade, Downgrade, UpgradeRegistry, DowngradeRegistry
<1> QED BY <1>1, <1>2, <1>3, <1>4 DEF Latest

(* Before its first statement a script has changed nothing.                *)
LEMMA PassedStart ==
  ASSUME NEW i \in 1..Latest, NEW c
  PROVE  Passed(Upgrade[i], c)[0] = c /\ Passed(Downgrade[i], c)[0] = c
<1>1. /\ Len(Upgrade[i]) \in Nat /\ HasLength(Upgrade[i], Len(Upgrade[i]))
      /\ Len(Downgrade[i]) \in Nat /\ HasLength(Downgrade[i], Len(Downgrade[i]))
  BY ScriptLengths DEF HasLength
<1>2. Passed(Upgrade[i], c)[0] = c
  BY <1>1, PassedSteps
<1>3. Passed(Downgrade[i], c)[0] = c
  BY <1>1, PassedSteps
<1> QED BY <1>2, <1>3

(* Where the script of a running migration leads.                          *)
LEMMA ScriptLeads ==
  ASSUME MigrationInPlace, migration.running, migration.at # migration.to
  PROVE  LET next == IF migration.at < migration.to THEN migration.at + 1 ELSE migration.at - 1 IN
         /\ Leads(Script, Built[migration.at], Built[next])
         /\ Len(Script) \in Nat /\ migration.done \in Nat /\ migration.done < Len(Script)
<1>1. /\ migration.at \in 0..4 /\ migration.to \in 0..4
      /\ migration.done \in Nat /\ migration.done < Len(Script)
  BY DEF MigrationInPlace, Latest
<1>2. PICK T : /\ Made(T, 1)
               /\ \A r \in 1..Latest : /\ Leads(Upgrade[r], Built[r - 1], Built[r])
                                       /\ Leads(Downgrade[r], Built[r], Built[r - 1])
  BY Chain
<1>3. CASE migration.at < migration.to
  <2>1. migration.at + 1 \in 1..Latest /\ (migration.at + 1) - 1 = migration.at
    BY <1>1, <1>3 DEF Latest
  <2>2. Script = Upgrade[migration.at + 1]
    BY <1>3 DEF Script
  <2> QED BY <1>1, <1>2, <1>3, <2>1, <2>2, ScriptLengths
<1>4. CASE ~(migration.at < migration.to)
  <2>1. migration.at \in 1..Latest
    BY <1>1, <1>4 DEF Latest
  <2>2. Script = Downgrade[migration.at]
    BY <1>4 DEF Script
  <2> QED BY <1>1, <1>2, <1>4, <2>1, <2>2, ScriptLengths
<1> QED BY <1>3, <1>4
-----------------------------------------------------------------------------
(* An empty database is at revision 0.                                     *)
LEMMA InitCatalogInv == Init => CatalogInv
<1> SUFFICES ASSUME Init PROVE CatalogInv
  OBVIOUS
<1>1. catalog = EmptyCatalog /\ revision = 0 /\ migration.running = FALSE
  BY DEF Init, MigrationInit, NoMigration
<1> QED BY <1>1, BuiltSteps DEF CatalogInv, WorkFollowsScript

(* A migration starts from the committed catalog, before its first         *)
(* statement.                                                              *)
LEMMA CatalogBeginStep ==
  ASSUME CatalogInv, PinInv, NEW target \in Targets, BeginMigration(target)
  PROVE  CatalogInv'
<1>1. /\ UNCHANGED <<catalog, revision>> /\ target \in 0..4 /\ target # revision
      /\ migration' = [running |-> TRUE, to |-> target, at |-> revision, done |-> 0, work |-> catalog,
                       locked |-> [t \in {} |-> "everyone"]]
      /\ revision \in 0..4
  BY TargetsAssumption DEF BeginMigration, PinInv, MigrationInPlace, Latest
<1>2. /\ migration'.to = target /\ migration'.at = revision /\ migration'.done = 0
      /\ migration'.work = catalog
  BY <1>1
<1>3. Script' = IF revision < target THEN Upgrade[revision + 1] ELSE Downgrade[revision]
  BY <1>2 DEF Script
<1>4. Passed(Script', catalog)[0] = catalog
  <2>1. CASE revision < target
    <3>1. revision + 1 \in 1..Latest
      BY <1>1, <2>1 DEF Latest
    <3> QED BY <1>3, <2>1, <3>1, PassedStart
  <2>2. CASE ~(revision < target)
    <3>1. revision \in 1..Latest
      BY <1>1, <2>2 DEF Latest
    <3> QED BY <1>3, <2>2, <3>1, PassedStart
  <2> QED BY <2>1, <2>2
<1>5. catalog = Built[revision]
  BY DEF CatalogInv
<1> QED BY <1>1, <1>2, <1>4, <1>5 DEF CatalogInv, WorkFollowsScript

(* One statement: the next catalog the script passes through, or the first *)
(* of the next script.                                                     *)
LEMMA CatalogExecuteStep ==
  ASSUME CatalogInv, PinInv, Execute(Uses, NullColumns)
  PROVE  CatalogInv'
<1> DEFINE at   == migration.at
           done == migration.done
           next == IF at < migration.to THEN at + 1 ELSE at - 1
<1>1. /\ UNCHANGED <<catalog, revision>> /\ MigrationInPlace
      /\ migration.running /\ at # migration.to /\ at \in 0..4 /\ migration.to \in 0..4
  BY DEF Execute, Unfinished, PinInv, MigrationInPlace, Latest
<1>2. /\ Leads(Script, Built[at], Built[next])
      /\ Len(Script) \in Nat /\ done \in Nat /\ done < Len(Script)
  BY <1>1, ScriptLeads
<1>3. DOMAIN migration = {"running", "to", "at", "done", "work", "locked"}
  BY <1>1 DEF MigrationInPlace
<1>4. /\ migration'.work = Apply(Statement, migration.work)
      /\ migration'.at = Place.at /\ migration'.done = Place.done /\ migration'.to = migration.to
  BY <1>3 DEF Execute
<1>5. migration'.work = Passed(Script, Built[at])[done + 1]
  <2>1. migration.work = Passed(Script, Built[at])[done]
    BY <1>1 DEF CatalogInv, WorkFollowsScript
  <2>2. HasLength(Script, Len(Script)) /\ done + 1 \in 1..Len(Script) /\ (done + 1) - 1 = done
    BY <1>2 DEF HasLength
  <2>3. Passed(Script, Built[at])[done + 1] = Apply(Script[done + 1], Passed(Script, Built[at])[done])
    BY <1>2, <2>2, PassedSteps
  <2> QED BY <1>4, <2>1, <2>3 DEF Statement
<1>6. CASE done + 1 < Len(Script)
  <2>1. migration'.at = at /\ migration'.done = done + 1
    BY <1>4, <1>6 DEF Place
  <2>2. Script' = Script
    BY <1>4, <2>1 DEF Script
  <2>3. WorkFollowsScript'
    BY <1>1, <1>4, <1>5, <2>1, <2>2 DEF WorkFollowsScript
  <2> QED BY <1>1, <2>3 DEF CatalogInv
<1>7. CASE ~(done + 1 < Len(Script))
  <2>1. migration'.at = next /\ migration'.done = 0
    BY <1>4, <1>7 DEF Place
  <2>2. done + 1 = Len(Script)
    BY <1>2, <1>7
  <2>3. migration'.work = Built[next]
    BY <1>2, <1>5, <2>2 DEF Leads
  <2>4. Script' = IF next < migration.to THEN Upgrade[next + 1] ELSE Downgrade[next]
    BY <1>4, <2>1 DEF Script
  <2>5. next # migration.to => Passed(Script', Built[next])[0] = Built[next]
    <3>1. SUFFICES ASSUME next # migration.to PROVE Passed(Script', Built[next])[0] = Built[next]
      OBVIOUS
    <3>2. CASE next < migration.to
      <4>1. next + 1 \in 1..Latest
        BY <1>1, <3>2 DEF Latest
      <4> HIDE DEF next
      <4> QED BY <2>4, <3>2, <4>1, PassedStart
    <3>3. CASE ~(next < migration.to)
      <4>1. next \in 1..Latest
        BY <1>1, <3>1, <3>3 DEF Latest
      <4> HIDE DEF next
      <4> QED BY <2>4, <3>3, <4>1, PassedStart
    <3> QED BY <3>2, <3>3
  <2> HIDE DEF next
  <2>6. WorkFollowsScript'
    BY <1>4, <2>1, <2>3, <2>5 DEF WorkFollowsScript
  <2> QED BY <1>1, <2>6 DEF CatalogInv
<1> QED BY <1>6, <1>7

(* The transaction ends without a commit.                                  *)
LEMMA CatalogRollbackStep ==
  ASSUME CatalogInv, migration' = NoMigration, UNCHANGED <<catalog, revision>>
  PROVE  CatalogInv'
<1>1. migration'.running = FALSE
  BY DEF NoMigration
<1> QED BY <1>1 DEF CatalogInv, WorkFollowsScript

(* The commit: the catalog of the revision reached.                        *)
LEMMA CatalogCommitStep == ASSUME CatalogInv, CommitMigration PROVE CatalogInv'
<1>1. /\ migration.running /\ migration.at = migration.to /\ migration'.running = FALSE
      /\ catalog' = migration.work /\ revision' = migration.to
  BY DEF CommitMigration, NoMigration
<1> QED BY <1>1 DEF CatalogInv, WorkFollowsScript

LEMMA CatalogElsewhereStep == ASSUME CatalogInv, UNCHANGED migrationVars PROVE CatalogInv'
<1>1. UNCHANGED <<catalog, revision, migration>>
  BY DEF migrationVars
<1> QED BY <1>1 DEF CatalogInv, WorkFollowsScript, Script

(* The invariant is inductive, given PinInv.                               *)
LEMMA NextCatalogInv == CatalogInv /\ PinInv /\ [Next]_vars => CatalogInv'
<1> SUFFICES ASSUME CatalogInv, PinInv, [Next]_vars PROVE CatalogInv'
  OBVIOUS
<1>1. CASE Migrate
  <2>1. CASE CommitAndDrop
    BY <2>1, CatalogCommitStep DEF CommitAndDrop
  <2>2. ASSUME NEW target \in Targets, BeginMigration(target) PROVE CatalogInv'
    BY <2>2, CatalogBeginStep
  <2>3. CASE Execute(Uses, NullColumns)
    BY <2>3, CatalogExecuteStep
  <2>4. CASE Refused(Uses, NullColumns)
    BY <2>4, CatalogRollbackStep DEF Refused
  <2>5. CASE CrashMigration
    BY <2>5, CatalogRollbackStep DEF CrashMigration
  <2> QED BY <1>1, <2>1, <2>2, <2>3, <2>4, <2>5 DEF Migrate
<1>2. CASE UNCHANGED migrationVars
  BY <1>2, CatalogElsewhereStep
<1> QED BY <1>1, <1>2 DEF Next, vars

LEMMA CatalogInvAlways == Spec => []CatalogInv
<1>1. CatalogInv /\ PinInv /\ PinInv' /\ [Next]_vars => CatalogInv'
  BY NextCatalogInv
<1> QED BY <1>1, InitCatalogInv, PinInvAlways, PTL DEF Spec
-----------------------------------------------------------------------------
(* A migration is refused for one reason only, whatever other programs do  *)
(* meanwhile: a logged run has a NULL in a metric that the downgrade from  *)
(* the head makes NOT NULL.                                                *)
THEOREM OnlyRunsBlock == Spec => []OnlyRunsBlockMigrations
<1>1. ASSUME CatalogInv, PinInv PROVE OnlyRunsBlockMigrations
  <2>1. SUFFICES ASSUME Unfinished, ~Can(Statement, migration.work, NullColumns)
                 PROVE  runs # {} /\ Statement.kind = "set_not_null"
    BY DEF OnlyRunsBlockMigrations
  <2>2. MigrationInPlace /\ migration.running /\ migration.at # migration.to
    BY <1>1, <2>1 DEF PinInv, Unfinished
  <2>3. migration.work = Passed(Script, Built[migration.at])[migration.done]
    BY <1>1, <2>2 DEF CatalogInv, WorkFollowsScript
  <2> DEFINE next == IF migration.at < migration.to THEN migration.at + 1 ELSE migration.at - 1
             k == migration.done + 1
  <2>4. /\ Leads(Script, Built[migration.at], Built[next])
        /\ k \in 1..Len(Script) /\ k - 1 = migration.done
    BY <2>2, ScriptLeads
  <2>5. \/ Can(Script[k], Passed(Script, Built[migration.at])[k - 1], NullColumns)
        \/ NullColumns # {} /\ Script[k].kind = "set_not_null"
    <3> HIDE DEF k, next
    <3> QED BY <2>4 DEF Leads
  <2>6. NullColumns # {} /\ Statement.kind = "set_not_null"
    BY <2>1, <2>3, <2>4, <2>5 DEF Statement
  <2>7. NullColumns # {} => runs # {}
    BY DEF NullColumns
  <2> QED BY <2>6, <2>7
<1> QED BY <1>1, CatalogInvAlways, PinInvAlways, PTL

-----------------------------------------------------------------------------
(* -------- the tables the application declares -------- *)

(* The file that declares a table.                                         *)
FileOf(t) ==
  CASE t = "event_log" -> AuditTables
    [] t = "candle_backfill_checkpoint" -> BackfillTables
    [] t \in {"dataset_version", "backtest_run", "backtest_trade", "backtest_metrics"} -> BacktestTables
    [] t = "data_quality_event" -> DataQualityEvents
    [] t \in {"order", "order_event", "fill", "reconciliation_check"} -> ExecutionTables
    [] t \in {"candle", "trade_tick"} -> MarketDataTables
    [] t \in {"account", "position", "ledger_entry", "equity_snapshot"} -> PortfolioTables
    [] t \in {"venue", "instrument", "universe_snapshot"} -> ReferenceTables
    [] t \in {"order_intent", "risk_decision", "system_halt_event"} -> RiskTables
    [] OTHER -> StrategyTables

(* Which tables every file declares.                                       *)
LEMMA FileDomains ==
  /\ DOMAIN AuditTables = {"event_log"}
  /\ DOMAIN BackfillTables = {"candle_backfill_checkpoint"}
  /\ DOMAIN BacktestTables = {"dataset_version", "backtest_run", "backtest_trade", "backtest_metrics"}
  /\ DOMAIN DataQualityEvents = {"data_quality_event"}
  /\ DOMAIN ExecutionTables = {"order", "order_event", "fill", "reconciliation_check"}
  /\ DOMAIN MarketDataTables = {"candle", "trade_tick"}
  /\ DOMAIN PortfolioTables = {"account", "position", "ledger_entry", "equity_snapshot"}
  /\ DOMAIN ReferenceTables = {"venue", "instrument", "universe_snapshot"}
  /\ DOMAIN RiskTables = {"order_intent", "risk_decision", "system_halt_event"}
  /\ DOMAIN StrategyTables = {"strategy", "strategy_instance", "signal"}
<1>1. /\ DOMAIN AuditTables = {"event_log"}
      /\ DOMAIN BackfillTables = {"candle_backfill_checkpoint"}
      /\ DOMAIN DataQualityEvents = {"data_quality_event"}
  BY DEF AuditTables, BackfillTables, DataQualityEvents
<1>2. DOMAIN BacktestTables = {"dataset_version", "backtest_run", "backtest_trade", "backtest_metrics"}
  BY DEF BacktestTables
<1>3. DOMAIN ExecutionTables = {"order", "order_event", "fill", "reconciliation_check"}
  BY DEF ExecutionTables
<1>4. DOMAIN MarketDataTables = {"candle", "trade_tick"}
  BY DEF MarketDataTables
<1>5. DOMAIN PortfolioTables = {"account", "position", "ledger_entry", "equity_snapshot"}
  BY DEF PortfolioTables
<1>6. DOMAIN ReferenceTables = {"venue", "instrument", "universe_snapshot"}
  BY DEF ReferenceTables
<1>7. DOMAIN RiskTables = {"order_intent", "risk_decision", "system_halt_event"}
  BY DEF RiskTables
<1>8. DOMAIN StrategyTables = {"strategy", "strategy_instance", "signal"}
  BY DEF StrategyTables
<1> QED BY <1>1, <1>2, <1>3, <1>4, <1>5, <1>6, <1>7, <1>8

(* No table is declared by two files.                                      *)
LEMMA DeclaredIn ==
  ASSUME NEW f \in Files, NEW t \in DOMAIN f
  PROVE  t \in DOMAIN Declared /\ Declared[t] = f[t]
<1>1. ASSUME NEW g \in Files, NEW u \in DOMAIN g PROVE FileOf(u) = g
  <2>1. CASE g = AuditTables
    BY <2>1, FileDomains DEF FileOf
  <2>2. CASE g = BackfillTables
    BY <2>2, FileDomains DEF FileOf
  <2>3. CASE g = BacktestTables
    BY <2>3, FileDomains DEF FileOf
  <2>4. CASE g = DataQualityEvents
    BY <2>4, FileDomains DEF FileOf
  <2>5. CASE g = ExecutionTables
    BY <2>5, FileDomains DEF FileOf
  <2>6. CASE g = MarketDataTables
    BY <2>6, FileDomains DEF FileOf
  <2>7. CASE g = PortfolioTables
    BY <2>7, FileDomains DEF FileOf
  <2>8. CASE g = ReferenceTables
    BY <2>8, FileDomains DEF FileOf
  <2>9. CASE g = RiskTables
    BY <2>9, FileDomains DEF FileOf
  <2>10. CASE g = StrategyTables
    BY <2>10, FileDomains DEF FileOf
  <2> QED BY <2>1, <2>2, <2>3, <2>4, <2>5, <2>6, <2>7, <2>8, <2>9, <2>10 DEF Files
<1> DEFINE g == CHOOSE h \in Files : t \in DOMAIN h
<1>2. g \in Files /\ t \in DOMAIN g
  OBVIOUS
<1> HIDE DEF g
<1>3. g = f
  BY <1>1, <1>2
<1>4. t \in UNION {DOMAIN h : h \in Files}
  OBVIOUS
<1>5. Declared[t] = g[t] /\ t \in DOMAIN Declared
  BY <1>4 DEF Declared, g
<1> QED BY <1>3, <1>5

(* Every file is on the list.                                              *)
LEMMA FileTables ==
  /\ AuditTables \in Files /\ BackfillTables \in Files /\ BacktestTables \in Files
  /\ DataQualityEvents \in Files /\ ExecutionTables \in Files /\ MarketDataTables \in Files
  /\ PortfolioTables \in Files /\ ReferenceTables \in Files /\ RiskTables \in Files
  /\ StrategyTables \in Files
  BY DEF Files

(* What the baseline creates, the metrics but for their nullable columns,  *)
(* is what the files declare.                                              *)
LEMMA RootsDeclared ==
  /\ CreateRoots[1].def = Declared["event_log"]
  /\ CreateRoots[2].def = Declared["dataset_version"]
  /\ CreateRoots[3].def = Declared["venue"]
  /\ CreateRoots[4].def = Declared["strategy"]
  /\ CreateRoots[5].def = Declared["backtest_run"]
  /\ CreateRoots[6].def = Declared["account"]
<1>1. CreateRoots[1].def = AuditTables["event_log"]
  BY DEF CreateRoots, CreateTable, AuditTables
<1>2. CreateRoots[2].def = BacktestTables["dataset_version"]
  BY DEF CreateRoots, CreateTable, BacktestTables
<1>3. CreateRoots[3].def = ReferenceTables["venue"]
  BY DEF CreateRoots, CreateTable, ReferenceTables
<1>4. CreateRoots[4].def = StrategyTables["strategy"]
  BY DEF CreateRoots, CreateTable, StrategyTables
<1>5. CreateRoots[5].def = BacktestTables["backtest_run"]
  BY DEF CreateRoots, CreateTable, BacktestTables
<1>6. CreateRoots[6].def = PortfolioTables["account"]
  BY DEF CreateRoots, CreateTable, PortfolioTables
<1>7. /\ Declared["event_log"] = AuditTables["event_log"]
      /\ Declared["dataset_version"] = BacktestTables["dataset_version"]
      /\ Declared["venue"] = ReferenceTables["venue"]
      /\ Declared["strategy"] = StrategyTables["strategy"]
      /\ Declared["backtest_run"] = BacktestTables["backtest_run"]
      /\ Declared["account"] = PortfolioTables["account"]
  BY FileTables, FileDomains, DeclaredIn
<1> QED BY <1>1, <1>2, <1>3, <1>4, <1>5, <1>6, <1>7

(* The same for the next three parts of the baseline.                      *)
LEMMA InstrumentsDeclared ==
  /\ CreateInstruments[1].def = Declared["instrument"]
  /\ CreateInstruments[2].def = Declared["strategy_instance"]
  /\ CreateInstruments[3].def = Declared["backtest_trade"]
  /\ CreateInstruments[5].def = Declared["reconciliation_check"]
<1>1. CreateInstruments[1].def = ReferenceTables["instrument"]
  BY DEF CreateInstruments, CreateTable, ReferenceTables
<1>2. CreateInstruments[2].def = StrategyTables["strategy_instance"]
  BY DEF CreateInstruments, CreateTable, StrategyTables
<1>3. CreateInstruments[3].def = BacktestTables["backtest_trade"]
  BY DEF CreateInstruments, CreateTable, BacktestTables
<1>4. CreateInstruments[5].def = ExecutionTables["reconciliation_check"]
  BY DEF CreateInstruments, CreateTable, ExecutionTables
<1>5. /\ Declared["instrument"] = ReferenceTables["instrument"]
      /\ Declared["strategy_instance"] = StrategyTables["strategy_instance"]
      /\ Declared["backtest_trade"] = BacktestTables["backtest_trade"]
      /\ Declared["reconciliation_check"] = ExecutionTables["reconciliation_check"]
  BY FileTables, FileDomains, DeclaredIn
<1> QED BY <1>1, <1>2, <1>3, <1>4, <1>5

LEMMA SeriesDeclared ==
  /\ CreateSeries[1].def = Declared["candle"]
  /\ CreateSeries[3].def = Declared["trade_tick"]
  /\ CreateSeries[5].def = Declared["position"]
  /\ CreateSeries[6].def = Declared["equity_snapshot"]
  /\ CreateSeries[8].def = Declared["universe_snapshot"]
<1>1. CreateSeries[1].def = MarketDataTables["candle"]
  BY DEF CreateSeries, CreateTable, MarketDataTables
<1>2. CreateSeries[3].def = MarketDataTables["trade_tick"]
  BY DEF CreateSeries, CreateTable, MarketDataTables
<1>3. CreateSeries[5].def = PortfolioTables["position"]
  BY DEF CreateSeries, CreateTable, PortfolioTables
<1>4. CreateSeries[6].def = PortfolioTables["equity_snapshot"]
  BY DEF CreateSeries, CreateTable, PortfolioTables
<1>5. CreateSeries[8].def = ReferenceTables["universe_snapshot"]
  BY DEF CreateSeries, CreateTable, ReferenceTables
<1>6. /\ Declared["candle"] = MarketDataTables["candle"]
      /\ Declared["trade_tick"] = MarketDataTables["trade_tick"]
      /\ Declared["position"] = PortfolioTables["position"]
      /\ Declared["equity_snapshot"] = PortfolioTables["equity_snapshot"]
      /\ Declared["universe_snapshot"] = ReferenceTables["universe_snapshot"]
  BY FileTables, FileDomains, DeclaredIn
<1> QED BY <1>1, <1>2, <1>3, <1>4, <1>5, <1>6

LEMMA OrderFlowDeclared ==
  /\ CreateOrderFlow[1].def = Declared["signal"]
  /\ CreateOrderFlow[2].def = Declared["order_intent"]
  /\ CreateOrderFlow[3].def = Declared["risk_decision"]
  /\ CreateOrderFlow[4].def = Declared["order"]
  /\ CreateOrderFlow[5].def = Declared["system_halt_event"]
  /\ CreateOrderFlow[6].def = Declared["order_event"]
  /\ CreateOrderFlow[7].def = Declared["fill"]
  /\ CreateOrderFlow[8].def = Declared["ledger_entry"]
<1>1. CreateOrderFlow[1].def = StrategyTables["signal"]
  BY DEF CreateOrderFlow, CreateTable, StrategyTables
<1>2. CreateOrderFlow[2].def = RiskTables["order_intent"]
  BY DEF CreateOrderFlow, CreateTable, RiskTables
<1>3. CreateOrderFlow[3].def = RiskTables["risk_decision"]
  BY DEF CreateOrderFlow, CreateTable, RiskTables
<1>4. CreateOrderFlow[4].def = ExecutionTables["order"]
  BY DEF CreateOrderFlow, CreateTable, ExecutionTables
<1>5. CreateOrderFlow[5].def = RiskTables["system_halt_event"]
  BY DEF CreateOrderFlow, CreateTable, RiskTables
<1>6. CreateOrderFlow[6].def = ExecutionTables["order_event"]
  BY DEF CreateOrderFlow, CreateTable, ExecutionTables
<1>7. CreateOrderFlow[7].def = ExecutionTables["fill"]
  BY DEF CreateOrderFlow, CreateTable, ExecutionTables
<1>8. CreateOrderFlow[8].def = PortfolioTables["ledger_entry"]
  BY DEF CreateOrderFlow, CreateTable, PortfolioTables
<1>9. /\ Declared["signal"] = StrategyTables["signal"]
      /\ Declared["order_intent"] = RiskTables["order_intent"]
      /\ Declared["risk_decision"] = RiskTables["risk_decision"]
      /\ Declared["order"] = ExecutionTables["order"]
      /\ Declared["system_halt_event"] = RiskTables["system_halt_event"]
      /\ Declared["order_event"] = ExecutionTables["order_event"]
      /\ Declared["fill"] = ExecutionTables["fill"]
      /\ Declared["ledger_entry"] = PortfolioTables["ledger_entry"]
  BY FileTables, FileDomains, DeclaredIn
<1> QED BY <1>1, <1>2, <1>3, <1>4, <1>5, <1>6, <1>7, <1>8, <1>9

(* The same for the tables of revisions 2 and 3.                           *)
LEMMA LaterDeclared ==
  /\ CheckpointDef = Declared["candle_backfill_checkpoint"]
  /\ QualityDef = Declared["data_quality_event"]
<1>1. CheckpointDef = BackfillTables["candle_backfill_checkpoint"]
  BY DEF CheckpointDef, UpgradeCheckpoint, CreateTable, BackfillTables
<1>2. QualityDef = DataQualityEvents["data_quality_event"]
  BY DEF QualityDef, UpgradeQuality, CreateTable, DataQualityEvents
<1>3. /\ Declared["candle_backfill_checkpoint"] = BackfillTables["candle_backfill_checkpoint"]
      /\ Declared["data_quality_event"] = DataQualityEvents["data_quality_event"]
  BY FileTables, FileDomains, DeclaredIn
<1> QED BY <1>1, <1>2, <1>3

(* The metrics are declared as the last revision leaves them.              *)
LEMMA MetricsDeclared ==
  /\ Plain(Declared["backtest_metrics"])
  /\ Declared["backtest_metrics"] = [DefOf(15) EXCEPT !.nullable = NullableMetrics]
<1>1. DefOf(15) = CreateInstruments[4].def
  <2>1. Maker(15) = 20 + 4 /\ 4 \in 1..5
    BY DEF Maker
  <2> QED BY <2>1, BaselineStatements DEF DefOf
<1>2. CreateInstruments[4].def =
        Table({<<"backtest_run_id", "backtest_run">>}, {}, {}, {{"backtest_run_id"}}, {})
  BY DEF CreateInstruments, CreateTable
<1>3. BacktestTables["backtest_metrics"] =
        Table({<<"backtest_run_id", "backtest_run">>}, {}, NullableMetrics, {{"backtest_run_id"}}, {})
  BY DEF BacktestTables, NullableMetrics
<1>4. Declared["backtest_metrics"] = BacktestTables["backtest_metrics"]
  BY FileTables, FileDomains, DeclaredIn
<1>5. \A r, e, n, k, h, x : [Table(r, e, n, k, h) EXCEPT !.nullable = x] = Table(r, e, x, k, h)
  BY DEF Table
<1>6. [DefOf(15) EXCEPT !.nullable = NullableMetrics] =
        Table({<<"backtest_run_id", "backtest_run">>}, {}, NullableMetrics, {{"backtest_run_id"}}, {})
  BY <1>1, <1>2, <1>5
<1> QED BY <1>3, <1>4, <1>6, TableIsPlain

(* Every table of the baseline but the metrics, by its place.              *)
LEMMA PlacesDeclared ==
  \A i \in 1..24 : i # 15 => DefOf(i) = Declared[DropOrder[i]]
<1>0. /\ \A m \in 19..24 : DefOf(m) = CreateRoots[25 - m].def
      /\ \A m \in 14..18 : DefOf(m) = CreateInstruments[19 - m].def
      /\ \A m \in 1..8 : DefOf(m) = CreateOrderFlow[9 - m].def
  <2>1. ASSUME NEW m \in 19..24 PROVE DefOf(m) = CreateRoots[25 - m].def
    <3>1. Maker(m) = 14 + (25 - m) /\ 25 - m \in 1..6
      BY DEF Maker
    <3> QED BY <3>1, BaselineStatements DEF DefOf
  <2>2. ASSUME NEW m \in 14..18 PROVE DefOf(m) = CreateInstruments[19 - m].def
    <3>1. Maker(m) = 20 + (19 - m) /\ 19 - m \in 1..5
      BY DEF Maker
    <3> QED BY <3>1, BaselineStatements DEF DefOf
  <2>3. ASSUME NEW m \in 1..8 PROVE DefOf(m) = CreateOrderFlow[9 - m].def
    <3>1. Maker(m) = 33 + (9 - m) /\ 9 - m \in 1..8
      BY DEF Maker
    <3> QED BY <3>1, BaselineStatements DEF DefOf
  <2> QED BY <2>1, <2>2, <2>3
<1>1. ASSUME NEW i \in {1, 3, 5, 6, 8} PROVE DefOf(SeriesPlace(i)) = CreateSeries[i].def
  <2>1. Maker(SeriesPlace(i)) = 25 + i /\ i \in 1..8
    BY DEF Maker, SeriesPlace
  <2> QED BY <2>1, BaselineStatements DEF DefOf
<1>2. /\ SeriesPlace(1) = 13 /\ SeriesPlace(3) = 12 /\ SeriesPlace(5) = 11
      /\ SeriesPlace(6) = 10 /\ SeriesPlace(8) = 9
  BY DEF SeriesPlace
<1>3. /\ DefOf(13) = CreateSeries[1].def /\ DefOf(12) = CreateSeries[3].def
      /\ DefOf(11) = CreateSeries[5].def /\ DefOf(10) = CreateSeries[6].def
      /\ DefOf(9) = CreateSeries[8].def
  BY <1>1, <1>2
<1>4. ASSUME NEW i \in 19..24 PROVE DefOf(i) = Declared[DropOrder[i]]
  <2>1. /\ DefOf(19) = CreateRoots[6].def /\ DefOf(20) = CreateRoots[5].def
        /\ DefOf(21) = CreateRoots[4].def /\ DefOf(22) = CreateRoots[3].def
        /\ DefOf(23) = CreateRoots[2].def /\ DefOf(24) = CreateRoots[1].def
    BY <1>0
  <2>2. /\ DropOrder[19] = "account" /\ DropOrder[20] = "backtest_run" /\ DropOrder[21] = "strategy"
        /\ DropOrder[22] = "venue" /\ DropOrder[23] = "dataset_version" /\ DropOrder[24] = "event_log"
    BY DEF DropOrder
  <2>3. i \in {19, 20, 21, 22, 23, 24}
    OBVIOUS
  <2> QED BY <2>1, <2>2, <2>3, RootsDeclared
<1>5. ASSUME NEW i \in {14, 16, 17, 18} PROVE DefOf(i) = Declared[DropOrder[i]]
  <2>1. /\ DefOf(14) = CreateInstruments[5].def /\ DefOf(16) = CreateInstruments[3].def
        /\ DefOf(17) = CreateInstruments[2].def /\ DefOf(18) = CreateInstruments[1].def
    BY <1>0
  <2>2. /\ DropOrder[14] = "reconciliation_check" /\ DropOrder[16] = "backtest_trade"
        /\ DropOrder[17] = "strategy_instance" /\ DropOrder[18] = "instrument"
    BY DEF DropOrder
  <2> QED BY <2>1, <2>2, InstrumentsDeclared
<1>6. ASSUME NEW i \in 9..13 PROVE DefOf(i) = Declared[DropOrder[i]]
  <2>1. /\ DropOrder[9] = "universe_snapshot" /\ DropOrder[10] = "equity_snapshot"
        /\ DropOrder[11] = "position" /\ DropOrder[12] = "trade_tick" /\ DropOrder[13] = "candle"
    BY DEF DropOrder
  <2>2. i \in {9, 10, 11, 12, 13}
    OBVIOUS
  <2> QED BY <1>3, <2>1, <2>2, SeriesDeclared
<1>7. ASSUME NEW i \in 1..8 PROVE DefOf(i) = Declared[DropOrder[i]]
  <2>1. /\ DefOf(1) = CreateOrderFlow[8].def /\ DefOf(2) = CreateOrderFlow[7].def
        /\ DefOf(3) = CreateOrderFlow[6].def /\ DefOf(4) = CreateOrderFlow[5].def
        /\ DefOf(5) = CreateOrderFlow[4].def /\ DefOf(6) = CreateOrderFlow[3].def
        /\ DefOf(7) = CreateOrderFlow[2].def /\ DefOf(8) = CreateOrderFlow[1].def
    BY <1>0
  <2>2. /\ DropOrder[1] = "ledger_entry" /\ DropOrder[2] = "fill" /\ DropOrder[3] = "order_event"
        /\ DropOrder[4] = "system_halt_event" /\ DropOrder[5] = "order"
        /\ DropOrder[6] = "risk_decision" /\ DropOrder[7] = "order_intent" /\ DropOrder[8] = "signal"
    BY DEF DropOrder
  <2>3. i \in {1, 2, 3, 4, 5, 6, 7, 8}
    OBVIOUS
  <2> QED BY <2>1, <2>2, <2>3, OrderFlowDeclared
<1>8. \A i \in 1..24 : i # 15 => i \in 19..24 \/ i \in {14, 16, 17, 18} \/ i \in 9..13 \/ i \in 1..8
  OBVIOUS
<1> QED BY <1>4, <1>5, <1>6, <1>7, <1>8

(* The tables of the head are the declared ones.                           *)
LEMMA DeclaredDomain ==
  DOMAIN Declared = (Late(1) \union {"candle_backfill_checkpoint"}) \union {"data_quality_event"}
<1> DEFINE L == (Late(1) \union {"candle_backfill_checkpoint"}) \union {"data_quality_event"}
<1>1. Late(1) = {"ledger_entry", "fill", "order_event", "system_halt_event", "order", "risk_decision",
                 "order_intent", "signal", "universe_snapshot", "equity_snapshot", "position",
                 "trade_tick", "candle", "reconciliation_check", "backtest_metrics", "backtest_trade",
                 "strategy_instance", "instrument", "account", "backtest_run", "strategy", "venue",
                 "dataset_version", "event_log"}
  <2>1. 1..24 = {1, 2, 3, 4, 5, 6, 7, 8, 9, 10, 11, 12, 13, 14, 15, 16, 17, 18, 19, 20, 21, 22, 23, 24}
    OBVIOUS
  <2> QED BY <2>1 DEF Late, DropOrder
<1>2. DOMAIN Declared = UNION {DOMAIN f : f \in Files}
  BY DEF Declared
<1>3. \A t \in DOMAIN Declared : t \in L
  <2>1. SUFFICES ASSUME NEW f \in Files, NEW t \in DOMAIN f PROVE t \in L
    BY <1>2
  <2>2. \/ f = AuditTables \/ f = BackfillTables \/ f = BacktestTables \/ f = DataQualityEvents
        \/ f = ExecutionTables \/ f = MarketDataTables \/ f = PortfolioTables
        \/ f = ReferenceTables \/ f = RiskTables \/ f = StrategyTables
    BY DEF Files
  <2> QED BY <1>1, <2>2, FileDomains
<1>4. \A t \in L : t \in DOMAIN Declared
  BY <1>1, DeclaredIn, FileDomains, FileTables
<1> QED BY <1>3, <1>4

(* At the head they are as declared, but for the partition columns.        *)
LEMMA HeadIsDeclared ==
  ASSUME NEW T, Made(T, 1)
  PROVE  [t \in DOMAIN HeadTables(T) |-> Repart(HeadTables(T)[t], "none")] = Declared
<1> DEFINE n == "backtest_metrics"
           A == Audited(T)
           H == HeadTables(T)
           L == (Late(1) \union {"candle_backfill_checkpoint"}) \union {"data_quality_event"}
<1>1. DOMAIN T = Late(1)
  BY DEF Made
<1>2. /\ DOMAIN A = L
      /\ \A t \in Late(1) : A[t] = T[t]
      /\ A["candle_backfill_checkpoint"] = CheckpointDef /\ A["data_quality_event"] = QualityDef
  <2>1. \A t \in Late(1) : t # "candle_backfill_checkpoint" /\ t # "data_quality_event"
    BY LateTables
  <2> QED BY <1>1, <2>1 DEF Audited, Checked, With
<1> HIDE DEF A
<1>3. /\ DOMAIN H = L /\ n \in L
      /\ \A t \in L : t # n => H[t] = A[t]
      /\ H[n] = [A[n] EXCEPT !.nullable = @ \union NullableMetrics]
  <2>1. n \in L
    BY LateTables
  <2> QED BY <1>2, <2>1 DEF HeadTables, Loosened, A
<1> HIDE DEF H
<1>4. ASSUME NEW i \in 1..24, i # 15 PROVE Repart(H[DropOrder[i]], "none") = Declared[DropOrder[i]]
  <2>1. DropOrder[i] \in Late(1)
    BY DEF Late
  <2>2. DropOrder[i] # n
    BY <1>4, NoMetricIsNullable, Distinct
  <2>3. H[DropOrder[i]] = T[DropOrder[i]]
    BY <1>2, <1>3, <2>1, <2>2
  <2>4. Repart(T[DropOrder[i]], "none") = DefOf(i)
    <3>1. 1 \in 1..25 /\ i \in 1..24
      OBVIOUS
    <3> QED BY <3>1, MadeTable
  <2> QED BY <1>4, <2>3, <2>4, PlacesDeclared
<1>5. Repart(H[n], "none") = Declared[n]
  <2>1. PICK p : T[n] = Repart(DefOf(15), p)
    <3>1. 15 \in 1..24
      OBVIOUS
    <3> QED BY <3>1, NoMetricIsNullable DEF Made
  <2>2. PICK r, u, x, k, h : DefOf(15) = [refs |-> r, enums |-> u, nullable |-> x, keys |-> k,
                                         checks |-> h, partition |-> "none"]
    BY NoMetricIsNullable DEF Plain, Table
  <2>3. x = {}
    BY <2>2, NoMetricIsNullable
  <2>4. T[n] = [refs |-> r, enums |-> u, nullable |-> {}, keys |-> k, checks |-> h, partition |-> p]
    BY <2>1, <2>2, <2>3 DEF Repart
  <2>5. A[n] = T[n]
    BY <1>2, LateTables
  <2>6. H[n] = [refs |-> r, enums |-> u, nullable |-> NullableMetrics, keys |-> k, checks |-> h,
                partition |-> p]
    <3>1. {} \union NullableMetrics = NullableMetrics
      OBVIOUS
    <3> QED BY <1>3, <2>4, <2>5, <3>1
  <2>7. Declared[n] = [refs |-> r, enums |-> u, nullable |-> NullableMetrics, keys |-> k, checks |-> h,
                       partition |-> "none"]
    BY <2>2, MetricsDeclared
  <2> QED BY <2>6, <2>7 DEF Repart
<1>6. /\ Repart(H["candle_backfill_checkpoint"], "none") = Declared["candle_backfill_checkpoint"]
      /\ Repart(H["data_quality_event"], "none") = Declared["data_quality_event"]
  <2>1. n # "candle_backfill_checkpoint" /\ n # "data_quality_event"
    OBVIOUS
  <2>2. H["candle_backfill_checkpoint"] = CheckpointDef /\ H["data_quality_event"] = QualityDef
    BY <1>2, <1>3, <2>1
  <2>3. Repart(CheckpointDef, "none") = CheckpointDef /\ Repart(QualityDef, "none") = QualityDef
    BY CheckpointGrows, QualityGrows, OtherPartition
  <2> QED BY <2>2, <2>3, LaterDeclared
<1>7. ASSUME NEW t \in L PROVE Repart(H[t], "none") = Declared[t]
  <2>1. t \in Late(1) => \E i \in 1..24 : t = DropOrder[i]
    BY DEF Late
  <2>2. DropOrder[15] = n
    BY NoMetricIsNullable
  <2> HIDE DEF n
  <2> QED BY <1>4, <1>5, <1>6, <2>1, <2>2
<1>8. DOMAIN Declared = L /\ Declared = [t \in DOMAIN Declared |-> Declared[t]]
  BY DeclaredDomain DEF Declared
<1>9. [t \in L |-> Repart(H[t], "none")] = [t \in L |-> Declared[t]]
  <2> HIDE DEF L
  <2> QED BY <1>7
<1>10. [t \in DOMAIN H |-> Repart(H[t], "none")] = Declared
  <2> HIDE DEF L
  <2> QED BY <1>3, <1>8, <1>9
<1> QED BY <1>10 DEF H

(* A column uses its type.                                                 *)
LEMMA ColumnType ==
  ASSUME NEW def, NEW a, NEW y, <<a, y>> \in def.enums
  PROVE  y \in TypesUsed(def)
<1>1. <<a, y>>[2] = y
  OBVIOUS
<1> QED BY <1>1 DEF TypesUsed

(* Every enum type the head holds is the type of a column.                 *)
LEMMA TypesDeclared == HeadTypes = UNION {TypesUsed(Declared[t]) : t \in DOMAIN Declared}
<1> DEFINE U == UNION {TypesUsed(Declared[t]) : t \in DOMAIN Declared}
           L == (Late(1) \union {"candle_backfill_checkpoint"}) \union {"data_quality_event"}
<1>0. DOMAIN Declared = L
  BY DeclaredDomain
<1>1. ASSUME NEW t \in L PROVE TypesUsed(Declared[t]) \subseteq HeadTypes
  <2>1. CASE t = "candle_backfill_checkpoint" \/ t = "data_quality_event"
    BY <2>1, LaterDeclared, CheckpointGrows, QualityGrows DEF HeadTypes
  <2>2. CASE t \in Late(1)
    <3>1. PICK i \in 1..24 : t = DropOrder[i]
      BY <2>2 DEF Late
    <3>2. CASE i # 15
      BY <3>1, <3>2, PlacesDeclared, DefsArePlain DEF HeadTypes
    <3>3. CASE i = 15
      <4>1. Declared[t].enums = DefOf(15).enums
        <5>1. PICK r, u, x, k, h : DefOf(15) = [refs |-> r, enums |-> u, nullable |-> x, keys |-> k,
                                               checks |-> h, partition |-> "none"]
          BY NoMetricIsNullable DEF Plain, Table
        <5>2. Declared["backtest_metrics"].enums = u /\ DefOf(15).enums = u
          BY <5>1, MetricsDeclared
        <5> QED BY <3>1, <3>3, <5>2, NoMetricIsNullable
      <4>2. TypesUsed(Declared[t]) = TypesUsed(DefOf(15))
        BY <4>1 DEF TypesUsed
      <4>3. TypesUsed(DefOf(15)) \subseteq Listed
        <5>1. 15 \in 1..24
          OBVIOUS
        <5> QED BY <5>1, DefsArePlain
      <4> QED BY <4>2, <4>3 DEF HeadTypes
    <3> QED BY <3>2, <3>3
  <2> QED BY <2>1, <2>2
<1>2. U \subseteq HeadTypes
  <2> HIDE DEF L
  <2> QED BY <1>0, <1>1
<1>3. /\ "backfill_checkpoint_status" \in U /\ "data_quality_event_severity" \in U
  <2>1. /\ "backfill_checkpoint_status" \in TypesUsed(Declared["candle_backfill_checkpoint"])
        /\ "data_quality_event_severity" \in TypesUsed(Declared["data_quality_event"])
    BY LaterDeclared, CheckpointGrows, QualityGrows
  <2> QED BY <1>0, <2>1
<1>4. ASSUME NEW t, t \in {"order", "order_event", "reconciliation_check", "venue", "instrument",
                          "system_halt_event", "strategy_instance", "signal"}
      PROVE  TypesUsed(Declared[t]) \subseteq U
  <2>1. /\ DropOrder[5] = "order" /\ DropOrder[3] = "order_event"
        /\ DropOrder[14] = "reconciliation_check" /\ DropOrder[22] = "venue"
        /\ DropOrder[18] = "instrument" /\ DropOrder[4] = "system_halt_event"
        /\ DropOrder[17] = "strategy_instance" /\ DropOrder[8] = "signal"
    BY DEF DropOrder
  <2>2. \A i \in 1..24 : DropOrder[i] \in L
    BY DEF Late
  <2>3. t \in DOMAIN Declared
    <3> HIDE DEF L
    <3> QED BY <1>0, <1>4, <2>1, <2>2
  <2> HIDE DEF L
  <2> QED BY <2>3
<1>5. {"order_side", "order_type", "order_status", "order_tif"} \subseteq TypesUsed(Declared["order"])
  <2>1. /\ <<"side", "order_side">> \in CreateOrderFlow[4].def.enums
        /\ <<"order_type", "order_type">> \in CreateOrderFlow[4].def.enums
        /\ <<"status", "order_status">> \in CreateOrderFlow[4].def.enums
        /\ <<"tif", "order_tif">> \in CreateOrderFlow[4].def.enums
    BY DEF CreateOrderFlow, CreateTable, Table
  <2> QED BY <2>1, OrderFlowDeclared, ColumnType
<1>6. /\ "order_event_type" \in TypesUsed(Declared["order_event"])
      /\ "signal_direction" \in TypesUsed(Declared["signal"])
      /\ {"system_halt_tier", "system_halt_triggered_by"} \subseteq TypesUsed(Declared["system_halt_event"])
  <2>1. /\ <<"direction", "signal_direction">> \in CreateOrderFlow[1].def.enums
        /\ <<"tier", "system_halt_tier">> \in CreateOrderFlow[5].def.enums
        /\ <<"triggered_by", "system_halt_triggered_by">> \in CreateOrderFlow[5].def.enums
        /\ <<"event_type", "order_event_type">> \in CreateOrderFlow[6].def.enums
    BY DEF CreateOrderFlow, CreateTable, Table
  <2> QED BY <2>1, OrderFlowDeclared, ColumnType
<1>7. /\ {"asset_class", "instrument_status"} \subseteq TypesUsed(Declared["instrument"])
      /\ "strategy_instance_status" \in TypesUsed(Declared["strategy_instance"])
      /\ "reconciliation_resolution" \in TypesUsed(Declared["reconciliation_check"])
  <2>1. /\ <<"asset_class", "asset_class">> \in CreateInstruments[1].def.enums
        /\ <<"status", "instrument_status">> \in CreateInstruments[1].def.enums
        /\ <<"status", "strategy_instance_status">> \in CreateInstruments[2].def.enums
        /\ <<"resolution", "reconciliation_resolution">> \in CreateInstruments[5].def.enums
    BY DEF CreateInstruments, CreateTable, Table
  <2> QED BY <2>1, InstrumentsDeclared, ColumnType
<1>8. {"venue_type", "venue_status"} \subseteq TypesUsed(Declared["venue"])
  <2>1. /\ <<"venue_type", "venue_type">> \in CreateRoots[3].def.enums
        /\ <<"status", "venue_status">> \in CreateRoots[3].def.enums
    BY DEF CreateRoots, CreateTable, Table
  <2> QED BY <2>1, RootsDeclared, ColumnType
<1>9. Listed \subseteq U
  <2>1. /\ TypesUsed(Declared["order"]) \subseteq U /\ TypesUsed(Declared["order_event"]) \subseteq U
        /\ TypesUsed(Declared["reconciliation_check"]) \subseteq U
        /\ TypesUsed(Declared["venue"]) \subseteq U /\ TypesUsed(Declared["instrument"]) \subseteq U
        /\ TypesUsed(Declared["system_halt_event"]) \subseteq U
        /\ TypesUsed(Declared["strategy_instance"]) \subseteq U
        /\ TypesUsed(Declared["signal"]) \subseteq U
    BY <1>4
  <2> HIDE DEF U
  <2>2. {"order_side", "order_type", "order_status", "order_tif", "order_event_type",
         "reconciliation_resolution", "venue_type", "venue_status", "asset_class",
         "instrument_status", "system_halt_tier", "system_halt_triggered_by",
         "strategy_instance_status", "signal_direction"} \subseteq U
    BY <1>5, <1>6, <1>7, <1>8, <2>1
  <2>3. \A i \in 1..14 : BaselineTypes[i] \in
          {"order_side", "order_type", "order_status", "order_tif", "order_event_type",
           "reconciliation_resolution", "venue_type", "venue_status", "asset_class",
           "instrument_status", "system_halt_tier", "system_halt_triggered_by",
           "strategy_instance_status", "signal_direction"}
    BY DEF BaselineTypes
  <2> QED BY <2>2, <2>3 DEF Listed
<1> HIDE DEF U
<1> QED BY <1>2, <1>3, <1>9 DEF HeadTypes, U
-----------------------------------------------------------------------------
(* The catalog is always what the upgrades up to the recorded revision     *)
(* build from an empty database, however many upgrades, downgrades,        *)
(* refusals and crashes led there; and at the head it is what the          *)
(* application declares.                                                   *)
THEOREM CatalogFollowsRevision == Spec => []CatalogMatchesRevision
<1>1. AsDeclared(Built[Latest])
  <2>1. PICK T : /\ Made(T, 1)
                 /\ Built[4] = Cat(HeadTables(T), HeadTypes, {"prevent_backtest_run_mutation"}, {Guard})
    BY Chain
  <2>2. TablesOf(Built[4]) = DOMAIN HeadTables(T) /\ Built[4].tables = HeadTables(T) /\ Built[4].types = HeadTypes
    BY <2>1 DEF Cat, TablesOf
  <2>3. [t \in TablesOf(Built[4]) |-> Repart(Built[4].tables[t], "none")] = Declared
    BY <2>1, <2>2, HeadIsDeclared
  <2> QED BY <2>2, <2>3, TypesDeclared DEF AsDeclared, Repart, Latest
<1>2. CatalogInv => CatalogMatchesRevision
  <2> SUFFICES ASSUME CatalogInv PROVE CatalogMatchesRevision
    OBVIOUS
  <2>1. catalog = Built[revision]
    BY DEF CatalogInv
  <2>2. revision = Latest => AsDeclared(catalog)
    BY <1>1, <2>1
  <2> QED BY <2>1, <2>2 DEF CatalogMatchesRevision
<1> QED BY <1>2, CatalogInvAlways, PTL
=============================================================================
