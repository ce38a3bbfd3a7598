--------------------------- MODULE DeclaredTables ---------------------------
(***************************************************************************)
(* The tables the application is written against: the sa.Table objects of  *)
(* infrastructure/db/tables, one definition per file.  The migrations hold *)
(* frozen SQL and never import these files, so nothing in the program      *)
(* itself keeps the two in step.                                           *)
(***************************************************************************)
EXTENDS Schema

AuditTables ==
  [ event_log |-> Table({}, {}, {}, {{"seq"}}, {}) ]

BackfillTables ==
  [ candle_backfill_checkpoint |->
      Table({<<"venue_id", "venue">>, <<"instrument_id", "instrument">>},
            {<<"status", "backfill_checkpoint_status">>}, {"last_completed_open_time"},
            {{"venue_id", "instrument_id", "interval", "range_start", "range_end"}}, {}) ]

BacktestTables ==
  [ dataset_version |-> Table({}, {}, {}, Id \union {{"content_hash"}}, {}),
    backtest_run |->
      Table({<<"strategy_id", "strategy">>, <<"dataset_version_id", "dataset_version">>}, {},
            {"finished_at"}, Id, {}),
    backtest_trade |->
      Table({<<"backtest_run_id", "backtest_run">>, <<"instrument_id", "instrument">>},
            {<<"side", "order_side">>}, {"exit_price", "exit_ts"}, Id,
            {"ck_backtest_trade_entry_before_exit"}),
    backtest_metrics |->
      Table({<<"backtest_run_id", "backtest_run">>}, {},
            {"cagr", "volatility", "sharpe", "sortino", "calmar", "deflated_sharpe",
             "probabilistic_sharpe", "win_rate", "profit_factor", "avg_trade_pnl", "turnover",
             "fees_pct_of_gross"}, {{"backtest_run_id"}}, {}) ]

DataQualityEvents ==
  [ data_quality_event |->
      Table({<<"instrument_id", "instrument">>},
            {<<"severity", "data_quality_event_severity">>}, {}, Id, {}) ]

ExecutionTables ==
  [ order |->
      Table({<<"venue_id", "venue">>, <<"instrument_id", "instrument">>,
             <<"strategy_instance_id", "strategy_instance">>,
             <<"risk_decision_id", "risk_decision">>, <<"parent_order_id", "order">>},
            {<<"side", "order_side">>, <<"order_type", "order_type">>,
             <<"status", "order_status">>, <<"tif", "order_tif">>},
            {"venue_order_id", "limit_price", "avg_fill_price", "parent_order_id"},
            Id \union {{"venue_id", "client_order_id"}},
            {"ck_order_filled_qty_le_qty", "ck_order_filled_qty_nonneg"}),
    order_event |->
      Table({<<"order_id", "order">>}, {<<"event_type", "order_event_type">>}, {},
            Id \union {{"order_id", "seq"}}, {}),
    fill |->
      Table({<<"order_id", "order">>}, {}, {}, Id \union {{"venue_id", "venue_fill_id"}},
            {"ck_fill_qty_positive", "ck_fill_price_positive"}),
    reconciliation_check |->
      Table({<<"account_id", "account">>, <<"venue_id", "venue">>},
            {<<"resolution", "reconciliation_resolution">>}, {}, Id, {}) ]

MarketDataTables ==
  [ candle |->
      Table({<<"instrument_id", "instrument">>}, {}, {},
            {{"instrument_id", "interval", "open_time"}},
            {"ck_candle_high_vs_open_close", "ck_candle_low_vs_open_close",
             "ck_candle_high_vs_low", "ck_candle_volume_nonneg"}),
    trade_tick |->
      Table({<<"instrument_id", "instrument">>}, {<<"side", "order_side">>}, {},
            {{"instrument_id", "ts", "venue_trade_id"}},
            {"ck_trade_tick_price_positive", "ck_trade_tick_qty_positive"}) ]

PortfolioTables ==
  [ account |->
      Table({<<"venue_id", "venue">>}, {}, {}, Id \union {{"venue_id", "name"}}, {}),
    position |->
      Table({<<"account_id", "account">>, <<"instrument_id", "instrument">>,
             <<"strategy_instance_id", "strategy_instance">>}, {}, {},
            Id \union {{"account_id", "instrument_id", "strategy_instance_id"}}, {}),
    ledger_entry |->
      Table({<<"account_id", "account">>, <<"ref_fill_id", "fill">>}, {}, {"ref_fill_id"}, Id,
            {"ck_ledger_entry_amount_positive"}),
    equity_snapshot |-> Table({<<"account_id", "account">>}, {}, {}, {{"id", "ts"}}, {}) ]

ReferenceTables ==
  [ venue |->
      Table({}, {<<"venue_type", "venue_type">>, <<"status", "venue_status">>}, {},
            Id \union {{"name"}}, {}),
    instrument |->
      Table({<<"venue_id", "venue">>},
            {<<"asset_class", "asset_class">>, <<"status", "instrument_status">>},
            {"max_order_size", "delisted_at"}, Id \union {{"venue_id", "symbol"}},
            {"ck_instrument_tick_size_positive", "ck_instrument_lot_size_positive",
             "ck_instrument_min_notional_positive"}),
    universe_snapshot |->
      Table({<<"venue_id", "venue">>, <<"instrument_id", "instrument">>}, {}, {},
            Id \union {{"snapshot_date", "venue_id", "instrument_id"}}, {}) ]

RiskTables ==
  [ order_intent |->
      Table({<<"signal_id", "signal">>, <<"strategy_instance_id", "strategy_instance">>,
             <<"instrument_id", "instrument">>},
            {<<"side", "order_side">>, <<"order_type", "order_type">>},
            {"signal_id", "limit_price"}, Id,
            {"ck_order_intent_target_qty_nonzero", "ck_order_intent_limit_price_required"}),
    risk_decision |->
      Table({<<"order_intent_id", "order_intent">>}, {}, {"rejection_reason"},
            Id \union {{"order_intent_id"}}, {"ck_risk_decision_rejection_reason_required"}),
    system_halt_event |->
      Table({<<"risk_decision_id", "risk_decision">>},
            {<<"tier", "system_halt_tier">>, <<"triggered_by", "system_halt_triggered_by">>},
            {"risk_decision_id", "cleared_at", "cleared_by"}, Id,
            {"ck_system_halt_event_cleared_by_required"}) ]

StrategyTables ==
  [ strategy |-> Table({}, {}, {}, Id \union {{"name", "code_hash"}}, {}),
    strategy_instance |->
      Table({<<"strategy_id", "strategy">>}, {<<"status", "strategy_instance_status">>},
            {"stopped_at"}, Id,
            {"ck_strategy_instance_allocated_capital_nonneg",
             "ck_strategy_instance_capacity_usd_nonneg"}),
    signal |->
      Table({<<"strategy_instance_id", "strategy_instance">>,
             <<"instrument_id", "instrument">>}, {<<"direction", "signal_direction">>}, {},
            Id, {"ck_signal_strength_bounded"}) ]

(* The metadata every file registers its tables on.                        *)
Files ==
  {AuditTables, BackfillTables, BacktestTables, DataQualityEvents, ExecutionTables,
   MarketDataTables, PortfolioTables, ReferenceTables, RiskTables, StrategyTables}

Declared == [t \in UNION {DOMAIN f : f \in Files} |-> (CHOOSE f \in Files : t \in DOMAIN f)[t]]
=============================================================================
