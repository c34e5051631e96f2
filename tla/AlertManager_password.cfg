SPECIFICATION Spec
CONSTANTS
    Ips = {ip1}
    Keys = {}
    Disks = {}
    None = none
    EventTypes = {"failed_publickey", "failed_other"}
    Threshold = 2
    Window = 1
    Cooldown = 2
    Retention = 1
    AlertsEnabled = TRUE
    AlertOnNewKey = TRUE
    MaxNow = 2
    MaxEvents = 3
    MaxSteps = 0
    MaxCrashes = 0
INVARIANTS
    FailuresAlerted
CHECK_DEADLOCK FALSE
