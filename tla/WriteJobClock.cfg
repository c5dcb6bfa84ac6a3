SPECIFICATION JobSpec
CONSTANTS
    s1 = s1
    g1 = g1
    g2 = g2
    ok = ok
    Scenarios <- OneScenario
    Grants <- OneGrant
    Facts <- OneFact
    UsableFacts <- OneFact
    Times <- SetBackClock
    ExecutionGrantTtl = 1
    ApprovalTtl = 2
    MinWriteInterval = 0
    WriteRateWindow = 0
    MaxWritesPerDay = 1
    CumulativeLimit <- AmpleLimit
    MaxRevision = 1
    MaxReceipt = 1
    MaxDeaths = 0
    StoppableJobs <- Nobody
    ChangedScenarios <- Nobody
INVARIANT DecidedBeforeRowEnds
CHECK_DEADLOCK FALSE
