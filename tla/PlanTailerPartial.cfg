SPECIFICATION FairTailer
CONSTANTS
    MaxRecords = 3
    MaxFileUnits = 4
    MaxCrashes = 0
    ReplayExisting = FALSE
PROPERTY EventuallyDrained
CHECK_DEADLOCK FALSE
