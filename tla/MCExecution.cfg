CONSTANTS
  b = b
  s = s
  Orders <- TwoOrders
  Side <- Sides
  Qty <- Sizes
  IsMaker <- Makers
  TradedVolume <- Traded
  LotSize = 2
  MinNotional = 466560
  Opens <- BarOpens
  Volumes <- BarVolumes
  Balances <- TwoBalances
  Spread = 186624
  Volatility = 373248
  FractionNum = 1
  FractionDen = 2
  Tiers <- Schedule
  RateScale = 100
  FundingInterval = 2
  FundingRate = 1
  MaxTime = 3
SPECIFICATION Spec
INVARIANTS EntryIsFair FundingOnGrid
PROPERTY ImplementsAccount
CHECK_DEADLOCK FALSE
