\* skeleton_exit's del_timer does not wait for the callback.
SPECIFICATION Spec
CONSTANTS
    Readers = {}
    Temps <- MCTemps
    FreqWrites <- MCOneWrite
    ModeWrites <- MCModeWrites
    MaxStores = 0
    MaxWeather = 0
    MaxLoads = 1
    IntHalf = 2048
    r1 = r1
CHECK_DEADLOCK FALSE
INVARIANTS
    TimerReleased
