CONSTANTS
  c1 = c1  c2 = c2  c3 = c3  w1 = w1  w2 = w2  k1 = k1
  Clients = {c1, c2, c3}
  Workflows = {w1}
  Keys = {k1}
  Target <- OneWorkflow
  KeyOf <- OneKey
  OwnerOf <- OwnOwner
  Tolerance = 1
  CleanupBatch = 1
  LeaseTTL = 2
  KeyTTL = 2
  MaxTime = 4
  MaxRevision = 3
  MaxAttempts = 1
  MaxEvents = 100
  MaxRetries = 1
  Runs = {r1, r2}
  Requests = {q1, q2}
  LocalIds = {l1, l2}
  LocalKeyTTL = 2
  LocalRetention = 1
  LocalBatch = 1
  LocalMaxTime = 2
SPECIFICATION MCSpec
INVARIANTS SupersededIsFenced BeliefsExclusive RecoveriesBounded
PROPERTIES CompletedKeyFrozen FinishedIsNotRerun
SYMMETRY ClientSymmetry
CHECK_DEADLOCK FALSE
