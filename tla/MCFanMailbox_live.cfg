\* Liveness.
SPECIFICATION Spec
CONSTANTS
    c1 = c1
    c2 = c2
    Clients = {c1, c2}
    Kinds = {"ask", "stop"}
    Cap = 1
    MaxCalls = 3
    MaxStarts = 1
CHECK_DEADLOCK FALSE
PROPERTIES
    CallsReturn
    StopServed
