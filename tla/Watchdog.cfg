SPECIFICATION FairSpec
CONSTANTS
    Notifies = TRUE
    WatchdogSec = 4
    StartTimeout = 3
    StopTimeout = 4
    Horizon = 6
INVARIANTS
    TypeOK
PROPERTIES
    KilledOnlyWhenSlow
    StopKillOnlyWhenSlow
    HangEnds
    SignalEnds
