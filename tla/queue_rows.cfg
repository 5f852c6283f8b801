SPECIFICATION Spec
CONSTANTS
    Workers = {w1}
    Books = {b1}
    Stagings = {}
    NoName = NoName
    MaxJobs = 2
    Vols = {v1}
    NoDir = {absent}
    MaxCrashes = 1
    MaxFaults = 0
    Clients = {c1}
    Ops = {"reconvert", "delete", "pause", "drop"}
    BulkSizes = {2}
CHECK_DEADLOCK FALSE
INVARIANTS
    RunOwnsRow
    NoOrphanedRow
    SerialPerBook
    InProgressExact
PROPERTIES
    LifecycleSpec
