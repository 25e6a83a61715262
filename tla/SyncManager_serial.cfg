SPECIFICATION FairSpec
CONSTANTS
    Callers = {c1}
    SyncIds = {s1, s2}
    NoSync = NoSync
    MaxInst = 2
    MaxPages = 2
    MaxQueue = 2
    Ops = {"create", "resync", "ghosts", "stop", "restart", "delete", "crash", "revoke", "fail"}
INVARIANTS
    OneTaskPerSync
    StoppedIsQuiescent
PROPERTIES
    LifecycleSpec
    OnlyLostHoldsUpStop
    RunsAreReported
