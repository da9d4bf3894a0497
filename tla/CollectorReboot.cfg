SPECIFICATION Spec
CONSTANTS
    Units = {"svc", "noise"}
    Watched = {"svc"}
    BatchSize = 1
    QueueSize = 1
    PollSize = 1
    Disturbances = {"reboot", "stop"}
    MaxEntries = 3
    MaxAlerts = 0
    MaxDisturbances = 2
INVARIANTS
    NothingRotated
