CONSTANTS
  Period = 2
  Span = 3
  FastSpan = 3
  SlowSpan = 7
  SignalSpan = 3
  Unit = 512
  Candles <- Bars
  Trades <- OneBuyOneSell
  Fee = 1
  StartEquity = 7680
  MaxHolding = 3
  MaxBars = 4
SPECIFICATION RunSpec
INVARIANTS StreamMatchesBatch DrawdownIsWorstFall TradesExplainEquity
PROPERTIES IndicatorsAreCausal
CHECK_DEADLOCK FALSE
