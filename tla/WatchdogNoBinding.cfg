SPECIFICATION Spec
CONSTANTS
    Notifies = FALSE
    WatchdogSec = 4
    StartTimeout = 3
    StopTimeout = 4
    Horizon = 6
PROPERTIES
    ComesUp
