SPECIFICATION MCSpec
CONSTANTS
    ann = ann
    bob = bob
    eve = eve
    People = {ann, bob, eve}
    RolesOf <- MCRolesOf
    AssertionIds = {a1}
    Payloads = {p1, p2}
    Plans = {v1}
    Mode = "review_approval_split"
    Callers = {c1, c2}
    MaxRevision = 4
    f1 = f1
    f2 = f2
    f3 = f3
    dep = dep
    Fingerprints = {f1, f2}
    VersionOf <- MCVersionOf
    Workers = {w1, w2}
    Operators = {o1}
    MaxBundleHistory = 2
    MaxCalls = 6
    Clients = {t1}
    Contents = {f1, f2, f3}
    ModelVersion <- MCModelVersion
    SnapshotOf <- MCSnapshotOf
    DependsOn <- MCDependsOn
    PublishInputs <- MCPublishInputs
    Productions <- MCProductions
    AuditOperators = {o1}
    HostEvents = {h1}
    AuditLimit = 3
    MaxChanges = 4
INVARIANTS PublishedWasApproved HistoryLeadsBack RestartServes PointerMatchesRecords LiveAuditIsComplete
PROPERTY ApprovalIsCurrent
CHECK_DEADLOCK FALSE
