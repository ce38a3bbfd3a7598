SPECIFICATION Spec
CONSTANTS
  c1 = c1
  c2 = c2
  momentum = momentum
  carry = carry
  btc = btc
  eth = eth
  NoEntry = NoEntry
  Connections <- TwoConnections
  Strategies <- TwoStrategies
  Symbols <- TwoSymbols
  Listings <- ThreeListings
  Dates = {1, 2}
  Targets = {0, 1, 3, 4}
  MaxRuns = 2
  MaxJobs = 3
  MaxWork = 3
SYMMETRY SymmetricNames
INVARIANTS
  CatalogMatchesRevision
  OnlyRunsBlockMigrations
  LoggedRunsPinTheSchema
  TrialsFollowHistory
  ImportsAreAtomic
PROPERTIES
  RunsAreAppendOnly

