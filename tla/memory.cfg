SPECIFICATION MCSpec
CONSTANTS
    Ids = {1, 2}
    Scopes <- MCScopes
    Policies = {p1, p2}
    MaxRecords = 2
    MaxTtl = 2
    RecallRecords = 2
    RecallChars = 3
    MaxNow = 1
    MaxOrder = 3
    RedisIds = {i1, i2}
    RedisMaxRecords = 1
    RedisMaxTtl = 2
    Sessions = {s1, s2}
    Retention = 2
    MaxSkew = 1
    RedisMaxTime = 2
SYMMETRY MCSymmetry
INVARIANTS RecallIsExact ProjectedIsCurrent
           OneRecordPerId 
CHECK_DEADLOCK FALSE
