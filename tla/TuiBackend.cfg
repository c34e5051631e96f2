SPECIFICATION FairSpec
CONSTANTS
    HistoryLimit = 1
    LineLimit = 1
    MaxLogins = 2
    MaxTests = 1
    MaxTroubles = 1
INVARIANTS
    
    SpeedtestRunning
PROPERTIES
    ImplementsRequestReply
    EveryCallReturns
    
