SPECIFICATION Spec
CONSTANTS
    t1 = t1
    t2 = t2
    k1 = k1
    k2 = k2
    v1 = v1
    v2 = v2
    Threads = {t1, t2}
    Keys = {k1, k2}
    Values = {v1, v2}
    EncKeys = {1, 2}
    MaxCalls = 4
    None = None
    Broken = Broken
    Unencrypted = Unencrypted
INVARIANTS
    TypeOK
    FilesAreLast
    CacheIsLast
    ChangeKeepsValues
SYMMETRY Symmetry
CHECK_DEADLOCK FALSE
