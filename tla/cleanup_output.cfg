SPECIFICATION Spec
CONSTANTS
    Workers = {w1}
    Books = {b1}
    Stagings = {s1}
    NoName = NoName
    MaxJobs = 1
    Vols = {v1}
    NoDir = {absent}
    MaxCrashes = 0
    MaxFaults = 0
    Clients = {c1}
    Ops = {"add"}
    BulkSizes = {}
CHECK_DEADLOCK FALSE
INVARIANTS
    CleanupFindsOutputEmpty
