\* The camera on manual: the analyzer is the only one to poll.
CONSTANTS
    AutoModes = {FALSE}
    PulseTicks = 3
    DebounceTicks = 3
    LiveTicks = 1
    SleepTicks = 1
    MaxGap = 2
    QuietTicks = 3
SPECIFICATION Spec
INVARIANTS
    AlwaysCaught
CHECK_DEADLOCK FALSE
