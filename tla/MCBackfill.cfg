CONSTANTS
  w1 = w1
  w2 = w2
  Workers <- TwoWorkers
  VenueBars <- OutageBars
  Ranges <- Overlapping
  ChunkSize = 2
  StartTime = 3
  MaxTime = 5
SPECIFICATION FairSpec
INVARIANTS CheckpointCovers ClosedIsFinal HolesAlerted
PROPERTIES ImplementsContract EventuallyStored
