\* One value to set, so that it differs from what no file holds; crashes at any
\* point and files that cannot be opened; any number of restarts.
CONSTANTS
    Values = {"v"}
    Unset = "zero"
    Faults = {"crash", "disk"}
SPECIFICATION Spec
INVARIANTS
    TypeOK
    UsedWhileReady
    WhatWasSetLasts
PROPERTIES
    SavedAlone
    StopEnds
