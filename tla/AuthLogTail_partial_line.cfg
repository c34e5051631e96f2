SPECIFICATION Spec
CONSTANTS
    YearLength = 4
    LeapDay = 3
    LeapYears = {0}
    WholeLines = FALSE
    Rotations = {}
    MaxLines = 3
    MaxBuffer = 2
    MaxRotations = 0
    MaxFaults = 0
    FirstDay = 3
    MaxDays = 2
INVARIANTS
    LinesIntact
CHECK_DEADLOCK FALSE
