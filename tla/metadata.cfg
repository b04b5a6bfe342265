SPECIFICATION MCSpec
CONSTANTS
    h1 = h1
    h2 = h2
    Hosts <- MCHosts
    OddNames <- MCOddNames
    SystemNames <- MCSystemNames
    Sources <- MCSources
    Setups <- MCSetups
    Refs <- MCRefs
    Retention = 1
    MaxTime = 3
    MaxAlters = 1
    MaxRuns = 2
    Reviewers <- MCReviewers
    IdentifierNames <- MCIdentifierNames
    ReferenceNames <- MCReferenceNames
    AliasNames <- MCAliasNames
    ClassifiedNames <- MCClassifiedNames
    RevisedValues <- MCRevisedValues
    Reviewed <- MCReviewed
    MaxProposals = 9
    MaxStamp = 3
INVARIANTS
    OneActivePerStream
    
PROPERTIES
    ReferencedMembersKept
    DraftedWasApproved
CHECK_DEADLOCK FALSE
