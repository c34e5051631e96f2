SPECIFICATION FairSpec
CONSTANTS
    Units = {u1, u2}
    Server = server
    Features = {"docker", "updates"}
    Configs = {{}, {"restart_service"}}
    MaxActions = 2
    MaxReadings = 2
    MaxTroubles = 1
    None = none
INVARIANTS
    DoneWasConfirmed
    RestartShown
    
    ShownOfOneRefresh
PROPERTIES
    RestartEnds
CHECK_DEADLOCK FALSE
