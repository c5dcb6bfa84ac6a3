SPECIFICATION Spec
CONSTANTS
    s1 = s1
    s2 = s2
    g1 = g1
    g2 = g2
    ok = ok
    other = other
    bad = bad
    Scenarios <- OneScenario
    Grants <- TwoGrants
    Facts <- ThreeFacts
    UsableFacts <- TwoUsable
    Times <- Clock2
    ExecutionGrantTtl = 1
    ApprovalTtl = 2
    MinWriteInterval = 1
    WriteRateWindow = 2
    MaxWritesPerDay = 2
    CumulativeLimit <- LoweredLimit
    MaxRevision = 2
    MaxReceipt = 2
SYMMETRY GrantSymmetry
INVARIANTS
    TypeOK
    SchemaChecksHold
    RevocationIsComplete
PROPERTIES
    ConsumedOnlyAsApproved
    CountsStayWithinLimit
CHECK_DEADLOCK FALSE
