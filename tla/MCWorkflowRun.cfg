\* Two adapter tries; an authorization outlived by the deadline, both inside
\* the clock's range, so that every timeout can fall at every stage.
CONSTANTS
  MaxAttempts = 3
  MaxEvents = 100
  MaxRetries = 2
  Duration = 5
  AuthTTL = 2
  MaxExecution = 2
  MaxTime = 7
  Callers = {c1, c2, c3}
  MaxQueries = 1
SPECIFICATION MCSpec
INVARIANTS
  GraphIsWired
PROPERTIES
  AdapterWithinAuthority
  RunReturnsInFocus
  FacadeSettles
CHECK_DEADLOCK FALSE
