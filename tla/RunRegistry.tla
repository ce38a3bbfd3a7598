---------------------------- MODULE RunRegistry ----------------------------
(***************************************************************************)
(* The backtest run registry (infrastructure/backtest/run_registry.py):    *)
(* connections that log runs.  log_backtest_run counts the strategy's      *)
(* earlier runs, inserts the run and inserts its metrics; the caller       *)
(* commits.  An update or a delete of a run, by whatever other program,    *)
(* meets the trigger of revision e1fdbf4f07ed if the database has it: it   *)
(* is BEFORE UPDATE OR DELETE, for each row.                               *)
(***************************************************************************)
EXTENDS Migrations

CONSTANTS Connections, Strategies,
          MaxRuns    \* bound on the runs logged

ASSUME RegistryAssumption == IsFiniteSet(Connections) /\ MaxRuns \in Nat

VARIABLES
  runs,      \* committed rows of backtest_run, each with its backtest_metrics row
  session    \* per connection: the scope of its registry and its transaction

registryVars == <<runs, session>>

Outside == [stage |-> "none"]
Inside  == [stage |-> "registered"]

RegistryInit ==
  /\ runs = {}
  /\ session = [c \in Connections |-> Outside]

(* __enter__ and __exit__: one "with" for one run.  Outside of it          *)
(* log_backtest_run raises before it reads anything.                       *)
Enter(c) ==
  /\ session[c] = Outside
  /\ session' = [session EXCEPT ![c] = Inside]
  /\ UNCHANGED runs

Exit(c) ==
  /\ session[c] = Inside
  /\ session' = [session EXCEPT ![c] = Outside]
  /\ UNCHANGED runs

Has(t) == t \in TablesOf(catalog)

RunsOf(s) == {r \in runs : r.strategy = s}

Pending == {c \in Connections : session[c].stage \in {"counted", "inserted", "complete"}}

(* A number no run has and no open transaction holds: the new uuid4.       *)
FreshId ==
  CHOOSE n \in 1..MaxRuns :
    /\ \A r \in runs : r.id # n
    /\ \A c \in Pending : session[c].id # n

(* Seeded fault: the count is over the runs of every strategy.             *)
CountAll(s) == Cardinality(runs)

CountOf(s) == Cardinality(RunsOf(s))

(* log_backtest_run under an active registry: the count.  "before" is a    *)
(* history variable: the runs of the strategy that the count saw.          *)
CountTrials(c, s) ==
  /\ session[c] = Inside
  /\ Cardinality(runs) + Cardinality(Pending) < MaxRuns
  /\ Has("backtest_run")
  /\ Free({<<"backtest_run", "read">>})
  /\ session' = [session EXCEPT
                   ![c] = [stage |-> "counted", id |-> FreshId, strategy |-> s,
                               trial |-> CountOf(s), before |-> {r.id : r \in RunsOf(s)},
                               nulls |-> {}]]
  /\ UNCHANGED runs

(* The tables a transaction of each stage has used, and how.  The foreign  *)
(* keys of a new row read the tables they refer to.                        *)
RunUses == {<<"backtest_run", "write">>, <<"strategy", "read">>, <<"dataset_version", "read">>}
MetricsUses == RunUses \union {<<"backtest_metrics", "write">>}

SessionUses(c) ==
  CASE session[c].stage \in {"none", "registered"} -> {}
    [] session[c].stage = "counted"    -> {<<"backtest_run", "read">>}
    [] session[c].stage = "inserted"   -> RunUses
    [] session[c].stage = "complete"   -> MetricsUses

InsertRun(c) ==
  /\ session[c].stage = "counted"
  /\ Free(RunUses)
  /\ session' = [session EXCEPT ![c].stage = "inserted"]
  /\ UNCHANGED runs

(* Never computed, hence always NULL; and what a tearsheet may leave None. *)
NeverComputed == {"volatility", "deflated_sharpe", "probabilistic_sharpe", "turnover"}
MayBeNone == {"cagr", "sharpe", "sortino", "calmar", "win_rate", "profit_factor",
              "avg_trade_pnl", "fees_pct_of_gross"}

(* The columns that take a NULL now: none if the table is not there.       *)
NullableNow ==
  IF Has("backtest_metrics") THEN catalog.tables["backtest_metrics"].nullable ELSE {}

InsertMetrics(c, missing) ==
  /\ session[c].stage = "inserted"
  /\ Free(MetricsUses)
  /\ (NeverComputed \union missing) \subseteq NullableNow
  /\ session' = [session EXCEPT ![c].stage = "complete",
                                ![c].nulls = NeverComputed \union missing]
  /\ UNCHANGED runs

(* A NULL for a NOT NULL column: the statement raises, the caller's        *)
(* transaction is lost.                                                    *)
MetricsRefused(c, missing) ==
  /\ session[c].stage = "inserted"
  /\ Free(MetricsUses)
  /\ ~((NeverComputed \union missing) \subseteq NullableNow)
  /\ session' = [session EXCEPT ![c] = Outside]
  /\ UNCHANGED runs

CommitRun(c) ==
  LET txn == session[c] IN
  /\ txn.stage = "complete"
  /\ runs' = runs \union {[id |-> txn.id, strategy |-> txn.strategy, trial |-> txn.trial,
                           before |-> txn.before, nulls |-> txn.nulls]}
  /\ session' = [session EXCEPT ![c] = Outside]

(* The caller's exception, a lost connection, the victim of a deadlock.    *)
AbortRun(c) ==
  /\ c \in Pending
  /\ session' = [session EXCEPT ![c] = Outside]
  /\ UNCHANGED runs

Protected == \E g \in catalog.triggers : g.name = "backtest_run_append_only"

(* UPDATE backtest_run: the trigger raises; without it, another strategy   *)
(* gets the run.                                                           *)
UpdateRun(r, s) ==
  /\ r \in runs
  /\ s # r.strategy
  /\ Free({<<"backtest_run", "write">>})
  /\ runs' = IF Protected THEN runs
             ELSE (runs \ {r}) \union {[r EXCEPT !.strategy = s]}
  /\ UNCHANGED session

(* DELETE of a run, after its metrics in the same transaction: the trigger *)
(* raises and both stay; without it, both are gone.                        *)
DeleteRun(r) ==
  /\ r \in runs
  /\ Free({<<"backtest_metrics", "write">>, <<"backtest_run", "write">>})
  /\ runs' = IF Protected THEN runs ELSE runs \ {r}
  /\ UNCHANGED session

(* The columns of the committed rows that hold a NULL.                     *)
NullColumns == UNION {{<<"backtest_metrics", col>> : col \in r.nulls} : r \in runs}

ConnectionStep(c) ==
  \/ Enter(c)
  \/ Exit(c)
  \/ \E s \in Strategies : CountTrials(c, s)
  \/ InsertRun(c)
  \/ \E missing \in {{}, MayBeNone} : InsertMetrics(c, missing) \/ MetricsRefused(c, missing)
  \/ CommitRun(c)
  \/ AbortRun(c)

RegistryStep ==
  \/ \E c \in Connections : ConnectionStep(c)
  \/ \E r \in runs, s \in Strategies : UpdateRun(r, s)
  \/ \E r \in runs : DeleteRun(r)
=============================================================================
