SPECIFICATION StatusSpec
CONSTANTS
    Units = {"a", "b"}
    Threshold = 2
    Window = 2
    PollInterval = 1
    MaxGap = 2
    Sightings = {{}, {"a"}, {"a", "b"}}
    Offsets = {0}
    States = {"active", "failed"}
    MaxTime = 3
    MaxRestarts = 0
    MaxFailures = 1
    MaxSessions = 2
    BatchSize = 3
    LoggedKinds = {}
    MaxEntries = 0
    Watched = {"a"}
    RecentCrash = 2
    ErrorWindow = 2
    MaxCommands = 1
CHECK_DEADLOCK FALSE
INVARIANTS
    StatusTypeOK
    StatusFresh
PROPERTIES
    NoBadPassesForGood
