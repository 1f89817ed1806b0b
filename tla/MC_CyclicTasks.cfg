CONSTANTS
    Classes <- MCClasses
    Time <- MCTime
    Offset <- MCOffset
    MaxTicks = 14
    ClassOrder <- MCOrder
    SYSTICK = SYSTICK
    BootClass = 1
    KnightClass = 2
    HoldTime = 5
    StepTime = 2
    Rows = 2
    QueueSize = 2
    RowOf <- MCRowOf
    Combination <- MCCombination
    Scans <- MCScans
SPECIFICATION ProgramsSpec
INVARIANTS OnSchedule IInv ProgramsTypeOK BootsWhenHeld LightPace
PROPERTIES NeverEarly LightMoves StepsAreSeen
CHECK_DEADLOCK FALSE
