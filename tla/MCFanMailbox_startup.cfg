\* A client that finds one queue and not the other yet.
SPECIFICATION Spec
CONSTANTS
    c1 = c1
    c2 = c2
    Clients = {c1}
    Kinds = {"ask"}
    Cap = 1
    MaxCalls = 2
    MaxStarts = 1
CHECK_DEADLOCK FALSE
INVARIANTS
    AnswersMatchAlone
