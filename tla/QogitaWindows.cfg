SPECIFICATION FairSpec
CONSTANTS
    Products = {1, 2}
    Workers = {1, 2}
    CheckpointEvery = 2
    ErrorLimit = 2
    MaxAutoResumes = 1
    MaxWindows = 2
    MaxTroubles = 1
    MaxWeekly = 1
INVARIANTS HandOffIsBounded ResumesAreBounded
PROPERTIES SnapshotsOnlyGrow WeeklyGetsItsTurn
CHECK_DEADLOCK FALSE
