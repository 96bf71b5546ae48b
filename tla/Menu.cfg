\* One user at the menu, and others who change what it shows.
CONSTANTS
    NumThresholds = 2
    NumPolicies = 1
    Timeouts <- TwoTimeouts
    DefaultThreshold = 0
    Directions = {"up"}
    SequenceLimit = 2
    Patterns <- OnePattern
    Readings = {5}
    Shared = {"autoLogout", "dangerLevel", "camera", "trigger", "pattern"}
SPECIFICATION Spec
INVARIANTS
    TypeOK
    NoAssertFails
    IndicatorTrue
PROPERTIES
    AdminOnly
    AttemptEnds
    AbandonedSessionEnds
    StopEnds
CHECK_DEADLOCK FALSE
