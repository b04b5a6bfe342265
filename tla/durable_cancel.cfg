CONSTANTS
  e1 = e1  e2 = e2  w1 = w1  w2 = w2  k1 = k1  x1 = x1  A = A  B = B
  Attempts = {e1}
  Workflows = {w1}
  Keys = {k1}
  Request = k1
  Cancels = {x1}
  CancelledAtStart = {}
  RequestedId <- ExplicitId
  WorkerOf <- OwnWorker
  CompatOf <- SameConfig
  MaxAttempts = 2
  MaxEvents = 30
  MaxRetries = 2
  Duration = 2
  LeaseTTL = 2
  RenewalMargin = 1
  KeyTTL = 1
  Tolerance = 0
  CleanupBatch = 1
  Retention = 1
  MaxTime = 2
SPECIFICATION FairSpec
INVARIANT CompletedMeansSucceeded
PROPERTIES AttemptsEnd
CHECK_DEADLOCK FALSE
