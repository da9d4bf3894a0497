SPECIFICATION FairSpec
CONSTANTS
    Retain = 3
    RetainIncidents = 2
    Cap = 1
    Slice = 2
    Interval = 1
    Rate = 1
    Signatures = {"crash", "error"}
    Resolvable = {"crash"}
    MaxTime = 4
    MaxRestarts = 1
    MaxCommands = 1
    MaxFailures = 1
CHECK_DEADLOCK FALSE
INVARIANTS
    TypeOK
    FootprintBounded
    CapOrEmpty
PROPERTIES
    PruneEnds
    RecentKept
