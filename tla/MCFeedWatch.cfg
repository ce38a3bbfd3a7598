CONSTANTS
  btc = btc
  eth = eth
  Symbols <- TwoSymbols
  StaleAfter = 2
  SymbolStale = 2
  CheckEvery = 1
  PublishTime = 1
  InitialBackoff = 1
  MaxBackoff = 4
  MaxFrames = 3
SPECIFICATION FairFeedSpec
INVARIANTS NoSilentLoss SilenceIsReported
PROPERTIES FeedRecovers
