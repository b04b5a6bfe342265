SPECIFICATION MCSpec
CONSTANTS
    q1 = q1
    q2 = q2
    Requests = {q1, q2}
    Worlds <- MCWorlds
    MaxRows = 3
    MaxNesting = 2
    MaxValues = 3
    MaxCfDepth = 4
    MaxCfNodes = 8
    MaxExprDepth = 4
    MaxExprNodes = 8
    MaxLimit = 10
    TimeFields = {}
INVARIANTS
    AnswersTheQuestion
    
    ViewsAreNarrowings
    JoinsAreShortestTrees
    
    IntentsStayInScope
CHECK_DEADLOCK FALSE
