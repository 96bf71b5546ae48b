\* Both pollers, both modes.  A tick is two thirds of a second.
CONSTANTS
    AutoModes = {FALSE, TRUE}
    PulseTicks = 3
    DebounceTicks = 3
    LiveTicks = 2
    SleepTicks = 1
    MaxGap = 2
    QuietTicks = 3
SPECIFICATION Spec
INVARIANTS
    TypeOK
    NoDoubleCount
PROPERTIES
    EveryPulseCountedAlone
    SensorRecovers
    SessionEnds
CHECK_DEADLOCK FALSE
