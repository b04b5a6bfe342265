CONSTANTS
  k1 = k1  k2 = k2
  Keys = {k1, k2}
  Plans <- MCPlans
  Policies <- MCPolicies
  LayerTime = 2
  SuiteTime = 3
  MaxTime = 3
SPECIFICATION FairSpec
INVARIANTS ExecutedOnce PassedIsReusable 
PROPERTIES SuiteEnds
CHECK_DEADLOCK FALSE
