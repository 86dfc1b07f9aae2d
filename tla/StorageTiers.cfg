SPECIFICATION Spec
CONSTANTS
    Jobs = {1, 2, 3}
    Scope <- MCScope
    Big = {}
    Total = 350
    FreeLevels = {45, 62}
    KeepPreventive = 2
    KeepPressure = 1
    MaxRefs = 1
    MaxCycles = 2
    MaxCrashes = 1
INVARIANTS NothingLost NewestAreWhole CompactionAlone
PROPERTIES ReaderNeverLoses
CHECK_DEADLOCK FALSE
