\* One thread, a reliable link, more cycles than processes.
CONSTANTS
    Threads = {"main"}
    Main = "main"
    Calls <- EveryCall
    Faults = {}
    Pids = {p1, p2}
    NoPid = NoPid
    MaxInFlight = 2
SPECIFICATION Spec
INVARIANTS
    CanTurnOff
CHECK_DEADLOCK FALSE
