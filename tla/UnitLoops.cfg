SPECIFICATION Spec
CONSTANTS
    Units = {"svc"}
    Threshold = 2
    Window = 2
    PollInterval = 1
    MaxGap = 2
    Sightings = {{}, {"svc"}}
    Offsets = {0, 1}
    States = {"active", "failed"}
    MaxTime = 5
    MaxRestarts = 3
    MaxFailures = 1
    MaxSessions = 2
CHECK_DEADLOCK FALSE
PROPERTIES
    LoopSound
    LoopComplete
    LoopAnnouncedOnce
