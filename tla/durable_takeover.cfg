CONSTANTS
  e1 = e1  e2 = e2  w1 = w1  w2 = w2  k1 = k1  x1 = x1  A = A  B = B
  Attempts = {e1, e2}
  Workflows = {w1}
  Keys = {k1}
  Request = k1
  Cancels = {}
  CancelledAtStart = {}
  RequestedId <- ExplicitId
  WorkerOf <- OwnWorker
  CompatOf <- SameConfig
  MaxAttempts = 2
  MaxEvents = 30
  MaxRetries = 2
  Duration = 4
  LeaseTTL = 2
  RenewalMargin = 1
  KeyTTL = 1
  Tolerance = 0
  CleanupBatch = 1
  Retention = 3
  MaxTime = 2
SPECIFICATION Spec
INVARIANTS OwnerHasCurrentState
PROPERTIES StatusFollowsLifecycle OwnerStartsAdapterWork NoNewWorkAfterCompletion
CHECK_DEADLOCK FALSE
