SPECIFICATION FairSpec
CONSTANTS
    MaxJournal = 3
    MaxFaults = 2
    MaxDrops = 2
    MaxStops = 1
INVARIANTS
    TypeOK
    
    OneLostPerFault
PROPERTIES
    ResumesAfterFirstMessage
    
    EventuallyRead
CHECK_DEADLOCK FALSE
