SPECIFICATION Spec
CONSTANTS
    MaxEntries = 3
    MaxRecords = 3
    MaxEdits = 4
    MaxClock = 3
    Confs <- BatchConfs
    PageSize = 1
    MaxBatchSize = 2
INVARIANTS TypeOK EditsSurvive OneRecordPerKey IdsMatch
PROPERTY BatchLeavesChanged
