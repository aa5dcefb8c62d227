\* Four ticks to a cycle, every kind of period and duty cycle, three presses.
SPECIFICATION Spec
CONSTANTS
    Cycle = 4
    StepMs = 2
    MinMs = 2
    MaxMs = 8
    DefaultMs = 5
    Periods <- MCPeriods
    Duties <- MCDuties
    MaxPresses = 3
CHECK_DEADLOCK FALSE
INVARIANTS
    TypeOK
    FullDutyLit
PROPERTIES
    PeriodKept
    Blinks
    KeepsPromise
