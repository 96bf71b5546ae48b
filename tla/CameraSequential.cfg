\* One thread, a reliable link, pipelines that may end by themselves.
CONSTANTS
    Threads = {"main"}
    Main = "main"
    Calls <- EveryCall
    Faults = {"death"}
    Pids = {p1, p2, p3, p4}
    NoPid = NoPid
    MaxInFlight = 2
SPECIFICATION Spec
INVARIANTS
    TypeOK
    Agreement
    NoOrphan
PROPERTIES
    ImplementsSwitch
    CleanupStopsServer
CHECK_DEADLOCK FALSE
