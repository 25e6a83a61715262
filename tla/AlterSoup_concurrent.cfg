SPECIFICATION FairSpec
CONSTANTS
    Apps = {t1}
    Values = {v1, v2}
    NoValue = NoValue
    MaxId = 2
    Ops <- Disturbed
INVARIANTS TypeOK IndexesAreCurrent
PROPERTIES ContentChangesOnlyByCalls OperationCompletes
CHECK_DEADLOCK FALSE
