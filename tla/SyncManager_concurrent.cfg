SPECIFICATION Spec
CONSTANTS
    Callers = {c1, c2}
    SyncIds = {s1}
    NoSync = NoSync
    MaxInst = 2
    MaxPages = 0
    MaxQueue = 1
    Ops = {"create", "resync", "ghosts", "restart", "stop", "reset", "crash", "revoke", "delete"}
SYMMETRY Symmetry
INVARIANTS
    TypeOK
    ActiveIsOwned
    NoOrphanRunning
