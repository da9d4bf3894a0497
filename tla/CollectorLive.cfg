SPECIFICATION FairSpec
CONSTANTS
    Units = {"svc"}
    Watched = {"svc"}
    BatchSize = 1
    QueueSize = 1
    PollSize = 1
    Disturbances = {"kill", "reader", "write"}
    MaxEntries = 3
    MaxAlerts = 1
    MaxDisturbances = 2
INVARIANTS
    LossWindowBounded
PROPERTIES
    Delivered
    AlertsStored
