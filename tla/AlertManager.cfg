SPECIFICATION Spec
CONSTANTS
    Ips = {ip1}
    Keys = {k1}
    Disks = {d1}
    None = none
    EventTypes = {"failed_publickey", "accepted_publickey"}
    Threshold = 2
    Window = 1
    Cooldown = 2
    Retention = 1
    AlertsEnabled = TRUE
    AlertOnNewKey = TRUE
    MaxNow = 2
    MaxEvents = 3
    MaxSteps = 1
    MaxCrashes = 1
INVARIANTS
    TypeOK
    CooldownSpacing
    BruteForceAlerted
    NewKeyAlerted
    FirstUseOnlyWhileKept
CHECK_DEADLOCK FALSE
