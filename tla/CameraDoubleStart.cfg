\* Two threads that both read isCameraOn before either sets it.
CONSTANTS
    Threads = {"main", "menu"}
    Main = "main"
    Calls <- CallsOfProgram
    Faults = {}
    Pids = {p1, p2}
    NoPid = NoPid
    MaxInFlight = 2
SPECIFICATION Spec
INVARIANTS
    TurnOnPrecondition
CHECK_DEADLOCK FALSE
