\* Clients and the daemon start, stop and are killed at any point.
SPECIFICATION Spec
CONSTANTS
    c1 = c1
    c2 = c2
    Clients = {c1, c2}
    Kinds = {"ask", "tell", "stop"}
    Cap = 2
    MaxCalls = 3
    MaxStarts = 2
CHECK_DEADLOCK FALSE
INVARIANTS
    TypeOK
    AnswersMatch
    AnswersOwed
PROPERTIES
    CallsServed
SYMMETRY Symmetry
