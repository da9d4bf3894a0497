SPECIFICATION HealthSpec
CONSTANTS
    Units = {"svc"}
    Threshold = 1
    Window = 2
    PollInterval = 1
    MaxGap = 2
    Sightings = {{}, {"svc"}}
    Offsets = {0}
    States = {"active", "activating", "inactive", "failed"}
    MaxTime = 2
    MaxRestarts = 1
    MaxFailures = 1
    MaxSessions = 2
    BatchSize = 2
    LoggedKinds = {"crash", "error"}
    MaxEntries = 1
CHECK_DEADLOCK FALSE
INVARIANTS
    IncidentsSummarise
    RecoveryResolves
    FailureShown
    FailuresBounded
    RecoveriesBounded
