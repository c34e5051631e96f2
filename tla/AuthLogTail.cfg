SPECIFICATION FairSpec
CONSTANTS
    YearLength = 4
    LeapDay = 3
    LeapYears = {0}
    WholeLines = FALSE
    Rotations = {"rename", "copytruncate"}
    MaxLines = 3
    MaxBuffer = 2
    MaxRotations = 2
    MaxFaults = 1
    FirstDay = 3
    MaxDays = 2
INVARIANTS
    InPlaceReading
    InPlaceLosses
    DatedRight
PROPERTIES
    EventuallyYielded
CHECK_DEADLOCK FALSE
