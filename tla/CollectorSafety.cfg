SPECIFICATION Spec
CONSTANTS
    Units = {"svc", "noise"}
    Watched = {"svc"}
    BatchSize = 2
    QueueSize = 1
    PollSize = 1
    Disturbances = {"stop", "kill", "power", "reboot", "vacuum", "reader",
                    "seek", "write"}
    MaxEntries = 3
    MaxAlerts = 1
    MaxDisturbances = 2
INVARIANTS
    TypeOK
    CursorCovered
    InOrderOnce
    CopiesBounded
    StopIsExact
PROPERTIES
    CursorMonotone
    TailOnlyBeforeFirstEvent
    Delivers
