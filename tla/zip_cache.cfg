SPECIFICATION Spec
CONSTANTS
    Paths = {pa, pb, pc}
    NoPath = NoPath
    Requests = {r1, r2}
    Scanners = {s1}
    Cap = 2
    MaxOpens = 3
    MaxVersion = 1
SYMMETRY Symmetry
CHECK_DEADLOCK FALSE
INVARIANTS
    TypeOK
    HeldReadersOpen
    ClosedOnce
    NoLeak
    CacheConsistent
    FreshRead
