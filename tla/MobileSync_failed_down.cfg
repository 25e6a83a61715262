SPECIFICATION Spec
CONSTANTS
    MaxEntries = 3
    MaxRecords = 3
    MaxEdits = 4
    MaxClock = 3
    Confs <- FailedDownConfs
    PageSize = 1
    MaxBatchSize = 2
INVARIANT NothingMissed
