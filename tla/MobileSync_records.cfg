SPECIFICATION Spec
CONSTANTS
    MaxEntries = 3
    MaxRecords = 3
    MaxEdits = 4
    MaxClock = 3
    Confs <- RecordsConfs
    PageSize = 1
    MaxBatchSize = 2
INVARIANTS TypeOK EditsSurvive IdsAreUnique NothingMissed OneRecordPerKey
PROPERTIES GhostsAreDeleted LeavesChanged
