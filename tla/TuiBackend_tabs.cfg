SPECIFICATION FairSpec
CONSTANTS
    HistoryLimit = 1
    LineLimit = 1
    MaxLogins = 2
    MaxTests = 0
    MaxTroubles = 0
PROPERTIES
    DashboardShown
