SPECIFICATION FairSpec
CONSTANTS
    N = 2
    Watched = {1}
    Scans = {s1}
    Timers = {t1, t2}
    NoTimer = NoTimer
    MaxClock = 2
    MaxLibrary = 2
    MaxFaults = 1
CHECK_DEADLOCK FALSE
INVARIANTS
    TypeOK
    SkipIsSafe
PROPERTIES
    PresentFilesKeepRows
    ScansConverge
