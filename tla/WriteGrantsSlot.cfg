SPECIFICATION Spec
CONSTANTS
    s1 = s1
    s2 = s2
    g1 = g1
    g2 = g2
    ok = ok
    other = other
    bad = bad
    Scenarios <- TwoScenarios
    Grants <- TwoGrants
    Facts <- OneFact
    UsableFacts <- OneFact
    Times <- Clock2
    ExecutionGrantTtl = 1
    ApprovalTtl = 2
    MinWriteInterval = 1
    WriteRateWindow = 2
    MaxWritesPerDay = 1
    CumulativeLimit <- AmpleLimit
    MaxRevision = 1
    MaxReceipt = 1
SYMMETRY Symmetry
INVARIANTS
    OneWriteAtATime
    WritesKeepTheRate
PROPERTIES
    ImplementsWriteSlot
CHECK_DEADLOCK FALSE
