CONSTANTS
  minute = minute
  other = other
  longer = longer
  Series <- ThreeSeries
  Step <- Lengths
  Loads <- AnyGaps
  Warmup = 2
SPECIFICATION FairSpec
INVARIANT NoLookahead
PROPERTIES ImplementsReplay ReplayEnds
CHECK_DEADLOCK FALSE
