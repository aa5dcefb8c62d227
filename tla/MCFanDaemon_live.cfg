\* Liveness.
SPECIFICATION Spec
CONSTANTS
    Keys = {"k1"}
    Commands <- MCNoSetMode
    DriverFiles = "write"
    Gpio = TRUE
    AutoFreqs <- MCAutoFreqs
    MaxEdges = 3
    MaxCommands = 1
    MaxStarts = 1
CHECK_DEADLOCK FALSE
PROPERTIES
    LedGoesOff
    KeysHeard
