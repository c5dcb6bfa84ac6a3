SPECIFICATION FairJobSpec
CONSTANTS
    s1 = s1
    g1 = g1
    g2 = g2
    ok = ok
    Scenarios <- OneScenario
    Grants <- OneGrant
    Facts <- OneFact
    UsableFacts <- OneFact
    Times <- StillClock
    ExecutionGrantTtl = 1
    ApprovalTtl = 2
    MinWriteInterval = 0
    WriteRateWindow = 0
    MaxWritesPerDay = 1
    CumulativeLimit <- AmpleLimit
    MaxRevision = 2
    MaxReceipt = 1
    MaxDeaths = 1
    StoppableJobs <- OneGrant
    ChangedScenarios <- OneScenario
INVARIANTS
    DecidedBeforeRowEnds
    SettlementMatchesWire
PROPERTIES
    WritesEnd
    NothingWrittenOnceWithdrawn
CHECK_DEADLOCK FALSE
