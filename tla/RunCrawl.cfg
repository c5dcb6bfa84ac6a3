SPECIFICATION FairSpec
CONSTANTS
    s = s  a = a  b = b
    Urls = {s, a, b}
    Start = s
    MaxDepth = 1
    MaxPages = 2
    MaxRechecks = 1
    MaxFaults = 3
INVARIANTS
    CrawlTypeOK
    SavedPagesMatch
    BreadthFirst
    LimitCountsKeptPages
PROPERTIES
    StoppedIfPagesAreLeft
    NoPageAfterViolation
    ImplementsRunProgress
    RunEnds
