SPECIFICATION Spec
CONSTANTS
    MaxEntries = 3
    MaxRecords = 5
    MaxEdits = 4
    MaxClock = 3
    Confs <- ReRunConfs
    PageSize = 1
    MaxBatchSize = 2
INVARIANT CreatedOnce
