SPECIFICATION JobSpec
CONSTANTS
    s1 = s1
    g1 = g1
    g2 = g2
    ok = ok
    Scenarios <- OneScenario
    Grants <- TwoGrants
    Facts <- OneFact
    UsableFacts <- OneFact
    Times <- StillClock
    ExecutionGrantTtl = 1
    ApprovalTtl = 2
    MinWriteInterval = 0
    WriteRateWindow = 0
    MaxWritesPerDay = 1
    CumulativeLimit <- AmpleLimit
    MaxRevision = 1
    MaxReceipt = 1
    MaxDeaths = 1
    StoppableJobs <- Nobody
    ChangedScenarios <- Nobody
SYMMETRY GrantSymmetry
INVARIANTS
    JobTypeOK
    WrittenAtMostOnce
    WrittenOnlyIfAllowed
CHECK_DEADLOCK FALSE
