SPECIFICATION Spec
CONSTANTS
    MaxJournal = 2
    MaxFaults = 1
    MaxDrops = 0
    MaxStops = 0
INVARIANTS
    NoGap
CHECK_DEADLOCK FALSE
