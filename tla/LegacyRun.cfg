SPECIFICATION Spec
CONSTANTS
    Products = {1, 2}
    j1 = j1
    j2 = j2
    Jobs = {j1, j2}
    Budget = 2
    Batch = 2
    MaxRetries = 1
    MinFailed = 2
    MaxTroubles = 1
    MaxCycles = 2
    MaxUniverses = 1
    MaxExpiries = 1
INVARIANTS StoresAgree CompletedIsWhole
PROPERTIES AnsweredFeesAreKept
SYMMETRY Symmetric
CHECK_DEADLOCK FALSE
