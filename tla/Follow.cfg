SPECIFICATION FairSpec
CONSTANTS
    MaxTime = 4
    MaxRows = 4
    MaxBatch = 3
    Limit = 2
CHECK_DEADLOCK FALSE
INVARIANTS
    PrintedOnceInOrder
PROPERTIES
    OrderedRowsShown
