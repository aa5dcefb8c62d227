\* The module may stay unloaded: a state without successor is no error.
SPECIFICATION Spec
CONSTANTS
    Readers = {r1}
    Temps <- MCTemps
    FreqWrites <- MCFreqWrites
    ModeWrites <- MCModeWrites
    MaxStores = 2
    MaxWeather = 1
    MaxLoads = 2
    IntHalf = 2048
    r1 = r1
CHECK_DEADLOCK FALSE
INVARIANTS
    TypeOK
    Contained
    LedClaimed
    LedPhase
    NoStall
PROPERTIES
    AttributesKept
    Regulated
    KeepsBlinking
