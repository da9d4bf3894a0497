SPECIFICATION Spec
CONSTANTS
    Units = {"a", "oom-killer"}
    Codes = {0, 9}
    Signals = {9, 11}
    ErrorPriority = 3
    Noise = {3, 6}
    Templates <- MCTemplates
    Numbers = {"1", "22"}
    Width = 3
    OomNamed = {"oom-killer"}
    MaxDeaths = 2
CHECK_DEADLOCK FALSE
INVARIANTS
    GroupsAsTold
    DeathIsAtMostTwo
