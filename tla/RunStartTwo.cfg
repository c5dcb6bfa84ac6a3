SPECIFICATION Spec
CONSTANTS
    p1 = p1
    p2 = p2
    p3 = p3
    Starts = {p1, p2}
    Old = Old
    Nobody = Nobody
    StartLock = StartLock
    MaxBeats = 2
    MaxSaves = 1
    MaxSleeps = 1
    MaxDeaths = 1
SYMMETRY Symmetry
INVARIANTS
    OneWriterPerRun
    OneRunPerOutputDirectory
PROPERTIES
    TouchesOnlyOwnLock
CHECK_DEADLOCK FALSE
