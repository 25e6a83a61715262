--------------------------- MODULE SyncLifecycle ---------------------------
(***************************************************************************)
(* What the status of a sync promises to somebody who reads it: a run      *)
(* begins in a row that exists and is not already running, it ends once,   *)
(* and a final status is replaced by nothing but a new run.                *)
(***************************************************************************)
CONSTANT SyncIds
VARIABLE status

Init == status = [s \in SyncIds |-> "ABSENT"]

\* createSyncDown(), createSyncUp()
Create(s) ==
    /\ status[s] = "ABSENT"
    /\ status' = [status EXCEPT ![s] = "NEW"]

\* runSync() on a sync that is new or whose last run is over
Start(s) ==
    /\ status[s] \in {"NEW", "STOPPED", "DONE", "FAILED"}
    /\ status' = [status EXCEPT ![s] = "RUNNING"]

\* The run ends, or is found interrupted after a restart of the process
End(s) ==
    /\ status[s] = "RUNNING"
    /\ \E out \in {"STOPPED", "DONE", "FAILED"} :
          status' = [status EXCEPT ![s] = out]

\* deleteSync()
Delete(s) ==
    /\ status[s] \notin {"ABSENT", "DELETED"}
    /\ status' = [status EXCEPT ![s] = "DELETED"]

Next == \E s \in SyncIds : Create(s) \/ Start(s) \/ End(s) \/ Delete(s)

Spec == Init /\ [][Next]_status
=============================================================================
