SPECIFICATION FairSpec
CONSTANTS
    Workers = {w1}
    Books = {b1, b2}
    Stagings = {}
    NoName = NoName
    MaxJobs = 2
    Vols = {v1}
    NoDir = {absent}
    MaxCrashes = 0
    MaxFaults = 0
    Clients = {c1}
    Ops = {"reconvert", "pause"}
    BulkSizes = {1, 2}
CHECK_DEADLOCK FALSE
PROPERTIES
    QueueDrains
