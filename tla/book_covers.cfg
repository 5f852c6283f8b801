SPECIFICATION Spec
CONSTANTS
    Tasks = {k1, k2}
    Exts = {"jpg"}
    NoCover = NoCover
    MaxVersion = 2
    MaxIds = 3
    MaxLibrary = 2
    MaxStarts = 3
    MaxFaults = 1
SYMMETRY Symmetry
CHECK_DEADLOCK FALSE
INVARIANTS
    TypeOK
    CoversMatchRow
    ReportExact
