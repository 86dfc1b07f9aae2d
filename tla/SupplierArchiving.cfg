SPECIFICATION Spec
CONSTANTS
    Weekly = {1, 2, 3}
    Pipeline = {4}
    Snapshots = {5, 6}
    MaxTroubles = 1
    MaxFreezes = 1
INVARIANTS NothingLost PointersStayInternal StateFileAgrees
CHECK_DEADLOCK FALSE
