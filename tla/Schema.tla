------------------------------- MODULE Schema -------------------------------
(***************************************************************************)
(* The database schema: the four Alembic revisions as lists of statements, *)
(* what each statement needs of the catalog and does to it, and the tables *)
(* the application declares in infrastructure/db/tables.                   *)
(*                                                                         *)
(* A table is what other objects depend on: its foreign keys, the enum     *)
(* types of its columns, its nullable columns, its primary and unique keys *)
(* and its named CHECK constraints.  Column types that are not enums, the  *)
(* columns no other object depends on, defaults and indexes are left out.  *)
(***************************************************************************)
EXTENDS Integers, Sequences, FiniteSets

(* -------- the catalog and the statements that change it -------- *)

Table(refs, enums, nullable, keys, checks) ==
  [refs |-> refs, enums |-> enums, nullable |-> nullable, keys |-> keys,
   checks |-> checks, partition |-> "none"]

Id == {{"id"}}

EmptyCatalog == [tables |-> [t \in {} |-> t], types |-> {}, functions |-> {}, triggers |-> {}]

CreateType(n)       == [kind |-> "create_type", on |-> n]
DropType(n)         == [kind |-> "drop_type", on |-> n]
CreateTable(n, def) == [kind |-> "create_table", on |-> n, def |-> def]
Hypertable(n, col)  == [kind |-> "create_hypertable", on |-> n, column |-> col]
DropTable(n)        == [kind |-> "drop_table", on |-> n]
DropNotNull(n, cs)  == [kind |-> "drop_not_null", on |-> n, columns |-> cs]
SetNotNull(n, cs)   == [kind |-> "set_not_null", on |-> n, columns |-> cs]
CreateFunction(n)   == [kind |-> "create_function", on |-> n]
DropFunction(n)     == [kind |-> "drop_function", on |-> n]
CreateTrigger(n, t, f) == [kind |-> "create_trigger", on |-> t, name |-> n, function |-> f]
DropTrigger(n, t)      == [kind |-> "drop_trigger", on |-> t, name |-> n]

TablesOf(c) == DOMAIN c.tables
Referenced(def) == {r[2] : r \in def.refs}
TypesUsed(def)  == {e[2] : e \in def.enums}

(* The tables one statement locks, and against whom: a new foreign key or  *)
(* trigger keeps writers of the table away, every other change of a table, *)
(* the end of the foreign keys of a dropped one included, everyone.        *)
Locks(s, c) ==
  CASE s.kind = "create_table" ->
         [t \in Referenced(s.def) \ {s.on} |-> "writers"]
    [] s.kind = "create_trigger" -> [t \in {s.on} |-> "writers"]
    [] s.kind = "drop_table" /\ s.on \in TablesOf(c) ->
         [t \in {s.on} \union Referenced(c.tables[s.on]) |-> "everyone"]
    [] s.kind \in {"create_hypertable", "drop_not_null", "set_not_null", "drop_trigger"} ->
         [t \in {s.on} |-> "everyone"]
    [] OTHER -> [t \in {} |-> "everyone"]

(* What PostgreSQL and TimescaleDB demand before they run a statement;     *)
(* "nulls" are the columns <<table, column>> in which some row has NULL.   *)
Can(s, c, nulls) ==
  CASE s.kind = "create_type"   -> s.on \notin c.types
    [] s.kind = "drop_type"     -> /\ s.on \in c.types
                                   /\ \A t \in TablesOf(c) : s.on \notin TypesUsed(c.tables[t])
    [] s.kind = "create_table"  -> /\ s.on \notin TablesOf(c)
                                   /\ Referenced(s.def) \subseteq TablesOf(c) \union {s.on}
                                   /\ TypesUsed(s.def) \subseteq c.types
    [] s.kind = "create_hypertable" -> /\ s.on \in TablesOf(c)
                                       /\ \A k \in c.tables[s.on].keys : s.column \in k
    [] s.kind = "drop_table"    -> /\ s.on \in TablesOf(c)
                                   /\ \A t \in TablesOf(c) \ {s.on} :
                                        s.on \notin Referenced(c.tables[t])
    [] s.kind = "drop_not_null" -> s.on \in TablesOf(c)
    [] s.kind = "set_not_null"  -> /\ s.on \in TablesOf(c)
                                   /\ \A col \in s.columns : <<s.on, col>> \notin nulls
    [] s.kind = "create_function" -> TRUE
    [] s.kind = "drop_function"   -> /\ s.on \in c.functions
                                     /\ \A g \in c.triggers : g.function # s.on
    [] s.kind = "create_trigger"  -> /\ s.on \in TablesOf(c)
                                     /\ s.function \in c.functions
                                     /\ \A g \in c.triggers : <<g.name, g.on>> # <<s.name, s.on>>
    [] s.kind = "drop_trigger"    -> \E g \in c.triggers : <<g.name, g.on>> = <<s.name, s.on>>

Apply(s, c) ==
  CASE s.kind = "create_type"   -> [c EXCEPT !.types = @ \union {s.on}]
    [] s.kind = "drop_type"     -> [c EXCEPT !.types = @ \ {s.on}]
    [] s.kind = "create_table"  ->
         [c EXCEPT !.tables = [t \in TablesOf(c) \union {s.on} |->
                                 IF t = s.on THEN s.def ELSE @[t]]]
    [] s.kind = "create_hypertable" -> [c EXCEPT !.tables[s.on].partition = s.column]
    [] s.kind = "drop_table"    ->
         [c EXCEPT !.tables = [t \in TablesOf(c) \ {s.on} |-> @[t]],
                   !.triggers = {g \in @ : g.on # s.on}]
    [] s.kind = "drop_not_null" -> [c EXCEPT !.tables[s.on].nullable = @ \union s.columns]
    [] s.kind = "set_not_null"  -> [c EXCEPT !.tables[s.on].nullable = @ \ s.columns]
    [] s.kind = "create_function" -> [c EXCEPT !.functions = @ \union {s.on}]
    [] s.kind = "drop_function"   -> [c EXCEPT !.functions = @ \ {s.on}]
    [] s.kind = "create_trigger"  ->
         [c EXCEPT !.triggers = @ \union {[name |-> s.name, on |-> s.on, function |-> s.function]}]
    [] OTHER (* "drop_trigger" *) ->
         [c EXCEPT !.triggers = {g \in @ : <<g.name, g.on>> # <<s.name, s.on>>}]

(* -------- revision e01343649d57, the baseline -------- *)

BaselineTypes ==
  <<"order_side", "order_type", "order_status", "order_tif", "order_event_type",
    "reconciliation_resolution", "venue_type", "venue_status", "asset_class",
    "instrument_status", "system_halt_tier", "system_halt_triggered_by",
    "strategy_instance_status", "signal_direction">>

CreateTypes == [i \in DOMAIN BaselineTypes |-> CreateType(BaselineTypes[i])]

CreateRoots ==
  << CreateTable("event_log", Table({}, {}, {}, {{"seq"}}, {})),
     CreateTable("dataset_version", Table({}, {}, {}, Id \union {{"content_hash"}}, {})),
     CreateTable("venue",
       Table({}, {<<"venue_type", "venue_type">>, <<"status", "venue_status">>},
             {}, Id \union {{"name"}}, {})),
     CreateTable("strategy", Table({}, {}, {}, Id \union {{"name", "code_hash"}}, {})),
     CreateTable("backtest_run",
       Table({<<"strategy_id", "strategy">>, <<"dataset_version_id", "dataset_version">>},
             {}, {"finished_at"}, Id, {})),
     CreateTable("account",
       Table({<<"venue_id", "venue">>}, {}, {}, Id \union {{"venue_id", "name"}}, {})) >>

CreateInstruments ==
  << CreateTable("instrument",
       Table({<<"venue_id", "venue">>},
             {<<"asset_class", "asset_class">>, <<"status", "instrument_status">>},
             {"max_order_size", "delisted_at"}, Id \union {{"venue_id", "symbol"}},
             {"ck_instrument_tick_size_positive", "ck_instrument_lot_size_positive",
              "ck_instrument_min_notional_positive"})),
     CreateTable("strategy_instance",
       Table({<<"strategy_id", "strategy">>}, {<<"status", "strategy_instance_status">>},
             {"stopped_at"}, Id,
             {"ck_strategy_instance_allocated_capital_nonneg",
              "ck_strategy_instance_capacity_usd_nonneg"})),
     CreateTable("backtest_trade",
       Table({<<"backtest_run_id", "backtest_run">>, <<"instrument_id", "instrument">>},
             {<<"side", "order_side">>}, {"exit_price", "exit_ts"}, Id,
             {"ck_backtest_trade_entry_before_exit"})),
     CreateTable("backtest_metrics",
       Table({<<"backtest_run_id", "backtest_run">>}, {}, {}, {{"backtest_run_id"}}, {})),
     CreateTable("reconciliation_check",
       Table({<<"account_id", "account">>, <<"venue_id", "venue">>},
             {<<"resolution", "reconciliation_resolution">>}, {}, Id, {})) >>

CreateSeries ==
  << CreateTable("candle",
       Table({<<"instrument_id", "instrument">>}, {}, {},
             {{"instrument_id", "interval", "open_time"}},
             {"ck_candle_high_vs_open_close", "ck_candle_low_vs_open_close",
              "ck_candle_high_vs_low", "ck_candle_volume_nonneg"})),
     Hypertable("candle", "open_time"),
     CreateTable("trade_tick",
       Table({<<"instrument_id", "instrument">>}, {<<"side", "order_side">>}, {},
             {{"instrument_id", "ts", "venue_trade_id"}},
             {"ck_trade_tick_price_positive", "ck_trade_tick_qty_positive"})),
     Hypertable("trade_tick", "ts"),
     CreateTable("position",
       Table({<<"account_id", "account">>, <<"instrument_id", "instrument">>,
              <<"strategy_instance_id", "strategy_instance">>}, {}, {},
             Id \union {{"account_id", "instrument_id", "strategy_instance_id"}}, {})),
     CreateTable("equity_snapshot",
       Table({<<"account_id", "account">>}, {}, {}, {{"id", "ts"}}, {})),
     Hypertable("equity_snapshot", "ts"),
     CreateTable("universe_snapshot",
       Table({<<"venue_id", "venue">>, <<"instrument_id", "instrument">>}, {}, {},
             Id \union {{"snapshot_date", "venue_id", "instrument_id"}}, {})) >>

CreateOrderFlow ==
  << CreateTable("signal",
       Table({<<"strategy_instance_id", "strategy_instance">>, <<"instrument_id", "instrument">>},
             {<<"direction", "signal_direction">>}, {}, Id, {"ck_signal_strength_bounded"})),
     CreateTable("order_intent",
       Table({<<"signal_id", "signal">>, <<"strategy_instance_id", "strategy_instance">>,
              <<"instrument_id", "instrument">>},
             {<<"side", "order_side">>, <<"order_type", "order_type">>},
             {"signal_id", "limit_price"}, Id,
             {"ck_order_intent_target_qty_nonzero", "ck_order_intent_limit_price_required"})),
     CreateTable("risk_decision",
       Table({<<"order_intent_id", "order_intent">>}, {}, {"rejection_reason"},
             Id \union {{"order_intent_id"}}, {"ck_risk_decision_rejection_reason_required"})),
     CreateTable("order",
       Table({<<"venue_id", "venue">>, <<"instrument_id", "instrument">>,
              <<"strategy_instance_id", "strategy_instance">>,
              <<"risk_decision_id", "risk_decision">>, <<"parent_order_id", "order">>},
             {<<"side", "order_side">>, <<"order_type", "order_type">>,
              <<"status", "order_status">>, <<"tif", "order_tif">>},
             {"venue_order_id", "limit_price", "avg_fill_price", "parent_order_id"},
             Id \union {{"venue_id", "client_order_id"}},
             {"ck_order_filled_qty_le_qty", "ck_order_filled_qty_nonneg"})),
     CreateTable("system_halt_event",
       Table({<<"risk_decision_id", "risk_decision">>},
             {<<"tier", "system_halt_tier">>, <<"triggered_by", "system_halt_triggered_by">>},
             {"risk_decision_id", "cleared_at", "cleared_by"}, Id,
             {"ck_system_halt_event_cleared_by_required"})),
     CreateTable("order_event",
       Table({<<"order_id", "order">>}, {<<"event_type", "order_event_type">>}, {},
             Id \union {{"order_id", "seq"}}, {})),
     CreateTable("fill",
       Table({<<"order_id", "order">>}, {}, {}, Id \union {{"venue_id", "venue_fill_id"}},
             {"ck_fill_qty_positive", "ck_fill_price_positive"})),
     CreateTable("ledger_entry",
       Table({<<"account_id", "account">>, <<"ref_fill_id", "fill">>}, {}, {"ref_fill_id"},
             Id, {"ck_ledger_entry_amount_positive"})) >>

DropOrder ==
  <<"ledger_entry", "fill", "order_event", "system_halt_event", "order", "risk_decision",
    "order_intent", "signal", "universe_snapshot", "equity_snapshot", "position", "trade_tick",
    "candle", "reconciliation_check", "backtest_metrics", "backtest_trade", "strategy_instance",
    "instrument", "account", "backtest_run", "strategy", "venue", "dataset_version", "event_log">>

(* Seeded fault: instruments are dropped before the trades that refer to   *)
(* them.                                                                   *)
DropInstrumentsEarly ==
  [i \in DOMAIN DropOrder |-> DropTable(DropOrder[CASE i = 16 -> 18 [] i = 18 -> 16 [] OTHER -> i])]

DropTables == [i \in DOMAIN DropOrder |-> DropTable(DropOrder[i])]

DropTypes == [i \in DOMAIN BaselineTypes |-> DropType(BaselineTypes[i])]

(* -------- the three later revisions -------- *)

UpgradeCheckpoint ==
  << CreateType("backfill_checkpoint_status"),
     CreateTable("candle_backfill_checkpoint",
       Table({<<"venue_id", "venue">>, <<"instrument_id", "instrument">>},
             {<<"status", "backfill_checkpoint_status">>}, {"last_completed_open_time"},
             {{"venue_id", "instrument_id", "interval", "range_start", "range_end"}}, {})) >>

DowngradeCheckpoint ==
  << DropTable("candle_backfill_checkpoint"), DropType("backfill_checkpoint_status") >>

UpgradeQuality ==
  << CreateType("data_quality_event_severity"),
     CreateTable("data_quality_event",
       Table({<<"instrument_id", "instrument">>}, {<<"severity", "data_quality_event_severity">>},
             {}, Id, {})) >>

(* Seeded fault: the downgrade forgets the enum type of the table it drops. *)
DowngradeTableOnly == << DropTable("data_quality_event") >>

DowngradeQuality == << DropTable("data_quality_event"), DropType("data_quality_event_severity") >>

NullableMetrics ==
  {"cagr", "volatility", "sharpe", "sortino", "calmar", "deflated_sharpe",
   "probabilistic_sharpe", "win_rate", "profit_factor", "avg_trade_pnl", "turnover",
   "fees_pct_of_gross"}

(* Seeded fault: the columns become nullable, the trigger is not created.  *)
UpgradeWithoutTrigger ==
  << DropNotNull("backtest_metrics", NullableMetrics),
     CreateFunction("prevent_backtest_run_mutation") >>

UpgradeRegistry ==
  << DropNotNull("backtest_metrics", NullableMetrics),
     CreateFunction("prevent_backtest_run_mutation"),
     CreateTrigger("backtest_run_append_only", "backtest_run", "prevent_backtest_run_mutation") >>

(* Seeded fault: the columns stay nullable.                                *)
DowngradeTriggerOnly ==
  << DropTrigger("backtest_run_append_only", "backtest_run"),
     DropFunction("prevent_backtest_run_mutation") >>

DowngradeRegistry ==
  << DropTrigger("backtest_run_append_only", "backtest_run"),
     DropFunction("prevent_backtest_run_mutation"),
     SetNotNull("backtest_metrics", NullableMetrics) >>

(* Revision i of the chain is the schema after the first i upgrades; 0 is  *)
(* Alembic's "base", Latest its "head".                                      *)
Latest == 4

Upgrade == << CreateTypes \o CreateRoots \o CreateInstruments \o CreateSeries \o CreateOrderFlow,
              UpgradeCheckpoint, UpgradeQuality, UpgradeRegistry >>

Downgrade == << DropTables \o DropTypes, DowngradeCheckpoint, DowngradeQuality,
                DowngradeRegistry >>
=============================================================================
