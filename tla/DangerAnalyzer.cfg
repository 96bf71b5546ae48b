\* A history of four records read over a window of two.
CONSTANTS
    Size = 4
    Window = 2
    MaxLevel = 2
    Decay = 1
    Thresholds = {0, 1}
    MaxTriggers = 2
SPECIFICATION Spec
INVARIANTS
    TypeOK
    HistoryCountsTriggers
    SilentAfterCleanup
PROPERTIES
    AlarmIsHeard
    StopEnds
CHECK_DEADLOCK FALSE
