SPECIFICATION ServersSpec
CONSTANTS
    Servers = {s1, s2}
    Nobody = nobody
    MaxJobs = 2
    MaxTime = 1
    MaxFaults = 1
    Failures = {"FAILED", "RATE_LIMITED"}
    MaxSends = 2
    ScriptJobs = {2}
    StaleAfter = 0
    WorkerStale = 0
    RenewEvery = 0
    MinInterval = 1
    Window = 2
    MaxAttempts = 2
    RetryAfter = 2
SYMMETRY ServerSymmetry
INVARIANTS
    ServersTypeOK
    ClosedAttemptsTellTruth
    AttemptsAreSpaced
    TwoWorkersOnlyAfterALoss
PROPERTIES
    LoginsStartOnTheTruth
CHECK_DEADLOCK FALSE
