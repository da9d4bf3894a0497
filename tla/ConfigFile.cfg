SPECIFICATION Spec
CONSTANTS
    Services = {"a1", "a2", "b"}
    Globs = {"a*"}
    Covered <- MCCovered
    UserTexts <- MCUserTexts
    Excluded = {"a*"}
    MaxScans = 2
    MaxEdits = 1
INVARIANTS
    TypeOK
PROPERTIES
    ScanKeepsTheRest
    WatchesWhatWasFound
    NoPartOfAList
