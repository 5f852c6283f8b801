SPECIFICATION FairSpec
CONSTANTS
    Workers = {w1}
    Books = {b1, b2}
    Stagings = {}
    NoName = NoName
    MaxJobs = 2
    Vols = {v1}
    NoDir = {absent}
    MaxCrashes = 1
    MaxFaults = 0
    Clients = {c1}
    Ops = {"reconvert", "delete"}
    BulkSizes = {}
CHECK_DEADLOCK FALSE
PROPERTIES
    StopEndsRun
    OrphansRescued
