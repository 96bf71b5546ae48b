\* Two threads, loss, late answers, restarts of the main program and dying pipelines.
CONSTANTS
    Threads = {"main", "menu"}
    Main = "main"
    Calls <- CallsOfProgram
    Faults = {"loss", "late", "restart", "death"}
    Pids = {p1, p2}
    NoPid = NoPid
    MaxInFlight = 2
SPECIFICATION Spec
INVARIANTS
    NoAnswerLeftBehind
PROPERTIES
    Tracked
    EveryCallReturns
CHECK_DEADLOCK FALSE
