\* Keys and commands; a daemon that is not restarted stays down.
SPECIFICATION Spec
CONSTANTS
    Keys = {"k2", "k3"}
    Commands <- MCCommands
    DriverFiles = "write"
    Gpio = TRUE
    AutoFreqs <- MCAutoFreqs
    MaxEdges = 2
    MaxCommands = 1
    MaxStarts = 2
CHECK_DEADLOCK FALSE
INVARIANTS
    TypeOK
    ModesAgreeApart
    LedTimed
    OneActPerEdge
    OnTheLadder
PROPERTIES
    SetOnlyInManual
