CONSTANTS
  scanner = scanner
  Scanners <- OneScanner
  Windows <- WholeDay
  Maintenance <- Announced
  Venue <- OutageAndBadBar
  Batches <- Arrivals
  Cutoff = 4
  Step = 2
  StreakThreshold = 2
  MoveWindow = 2
  Sigma = 1
  ReturnUnit = 4
  StartTime = 6
  MaxTime = 8
SPECIFICATION FairQualitySpec
INVARIANTS GapsAreExact DetectorsAgree NeverSilentlyDropped SuiteFindsAll
PROPERTIES RepairReachesGap
