\* An admin who does everything, a second user, a network that loses and
\* delays, and signals that cut either off; the menu changes the policy.
CONSTANTS
    Clients = {"a", "b"}
    Knows <- Knowing
    Does <- Doing
    Asks <- Asking
    Patterns = {"12", "1234123412"}
    LongPatterns = {"1234123412"}
    Unmatched = "cut"
    Codes = {"0000", "0110"}
    MenuSets = {"policy"}
    Faults = {"lose", "late", "kill"}
SPECIFICATION Spec
INVARIANTS
    TypeOK
    AnswersBelong
    HostAccessOnlyForAdmins
PROPERTIES
    ImplementsAccess
    EveryRequestEnds
CHECK_DEADLOCK FALSE
