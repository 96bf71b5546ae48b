\* A triggered session and what it leaves on.
CONSTANTS
    AutoModes = {FALSE, TRUE}
    PulseTicks = 2
    DebounceTicks = 2
    LiveTicks = 3
    SleepTicks = 1
    MaxGap = 1
    QuietTicks = 1
SPECIFICATION Spec
PROPERTIES
    CameraGoesOff
CHECK_DEADLOCK FALSE
