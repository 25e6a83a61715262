SPECIFICATION FairSpec
CONSTANTS
    Callers = {c1}
    SyncIds = {s1}
    NoSync = NoSync
    MaxInst = 1
    MaxPages = 1
    MaxQueue = 1
    Ops = {"create", "ghosts", "stop"}
PROPERTIES
    StopCompletes
