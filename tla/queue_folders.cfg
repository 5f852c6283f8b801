SPECIFICATION Spec
CONSTANTS
    Workers = {w1}
    Books = {b1}
    Stagings = {s1}
    NoName = NoName
    MaxJobs = 2
    Vols = {v1}
    NoDir = {absent}
    MaxCrashes = 0
    MaxFaults = 1
    Clients = {c1}
    Ops = {"upload", "finished", "add", "book", "drop"}
    BulkSizes = {}
CHECK_DEADLOCK FALSE
INVARIANTS
    TypeOK
    NoHalfStagedInput
    CleanupOnlyDisposable
