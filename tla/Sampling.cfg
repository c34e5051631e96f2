SPECIFICATION FairSpec
CONSTANTS
    Objects = 2
    Garbled = {0, 6}
    MaxRuns = 2
    Pids = {p1}
    FlushInterval = 2
    MaxRestarts = 1
INVARIANTS
    NewestWholeReading
    FiguresOfOneInterval
    
PROPERTIES
    CollectedIsSaved
    
CHECK_DEADLOCK FALSE
