SPECIFICATION Spec
CONSTANTS
    Vols = {v1, v2}
    Pages = {p1, p2}
    NoDir = {absent}
    All = All
    Retries = 2
    MaxClock = 4
    MaxFaults = 2
    MaxChanges = 1
SYMMETRY Symmetry
INVARIANTS TypeOK BuiltIsCurrent NoPhantomPage SuccessIsComplete NothingLost
CHECK_DEADLOCK FALSE
