CONSTANTS
    MaxSize = 2
    Interval = 1
    Sizes = {1, 3}
    ULong = 64
    Zones <- MCZones
    MaxMsg = 3
    MaxClock = 3
    MaxRun = 2
SPECIFICATION Spec
INVARIANTS
    TypeOK
    RunKept
    SizeBounded
    TimeSpread
PROPERTY
    SizeStaysDead
CHECK_DEADLOCK FALSE
