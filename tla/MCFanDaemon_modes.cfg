\* A command and K3 change the mode at the same time.
SPECIFICATION Spec
CONSTANTS
    Keys = {"k3"}
    Commands <- MCSetModeOnly
    DriverFiles = "write"
    Gpio = TRUE
    AutoFreqs <- MCAutoFreqs
    MaxEdges = 2
    MaxCommands = 1
    MaxStarts = 1
CHECK_DEADLOCK FALSE
INVARIANTS
    ModesAgree
