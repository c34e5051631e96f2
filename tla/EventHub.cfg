SPECIFICATION FairSpec
CONSTANTS
    Clients = {c1, c2}
    Events = {e1}
    Metrics = metrics
    NoClient = nobody
    WaitsForClients = TRUE
    HighWater = 0
    MaxSnapshots = 1
    MaxJoins = 2
    MaxStalls = 1
INVARIANTS
    Delivered
    BacklogBounded
PROPERTIES
    SnapshotsNeverGoBack
    BroadcastsEnd
    GoneAreReaped
    StopCompletes
CHECK_DEADLOCK FALSE
