SPECIFICATION Spec
CONSTANTS
    p1 = p1
    p2 = p2
    p3 = p3
    Starts = {p1, p2, p3}
    Old = Old
    Nobody = Nobody
    StartLock = StartLock
    MaxBeats = 0
    MaxSaves = 0
    MaxSleeps = 0
    MaxDeaths = 0
SYMMETRY Symmetry
INVARIANTS
    RunTypeOK
    OneWriterPerRun
    ResumesWhatWasSaved
CHECK_DEADLOCK FALSE
