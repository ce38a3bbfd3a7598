CONSTANTS
  c1 = c1
  c2 = c2
  Clients <- TwoClients
  Threshold = 1
  Weight = 1
  Window = 2
  MaxAttempts = 2
  RetryBackoff = 1
  RetryAfter <- Waits
  DefaultRetryAfter = 1
  RecvWindow = 0
  Latency = 1
  MaxLost = 1
SPECIFICATION FairSpec
INVARIANTS RespectsRetryAfter OverrunIsBounded SignatureIsFresh
PROPERTIES LockoutEnds
