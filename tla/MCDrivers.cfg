\* All exercises, two devices where there may be several, two processes.
SPECIFICATION Spec
CONSTANTS
    u1 = u1
    u2 = u2
    Users = {u1, u2}
    Programs = {"ex2", "bus", "ex5", "ex3", "bare", "one", "ex6", "ex7", "irq6"}
    NbDevices = 2
    Children <- MCChildren
    Messages = {"a", "bb", "ccc"}
    Length <- MCLength
    Asks = {2, 3}
    BufferSize = 3
CHECK_DEADLOCK FALSE
INVARIANTS
    TypeOK
    Balanced
    NeedsMet
    FaultsExplained
    ReadsWhole
SYMMETRY Symmetry
