---------------------------- MODULE SyncManager ----------------------------
(***************************************************************************)
(* The sync manager of the MobileSync library: SyncManager.java, the life  *)
(* of a SyncTask on its single worker thread (SyncTask.java,               *)
(* CleanSyncGhostsTask.java) and the status of each sync in the syncs_soup *)
(* of SmartStore (SyncState.java).                                         *)
(*                                                                         *)
(* Application threads (Callers) call the public methods; each step of a   *)
(* caller is what it does between two points where another thread can     *)
(* intervene.  runSync() reads activeSyncs and state without the monitor,  *)
(* so its two checks, its addToActiveSyncs, its save and its execute are   *)
(* five steps.  A SyncManager object is an instance in 1 .. MaxInst: reset *)
(* and process death leave the old one behind, and the next getInstance    *)
(* builds a new one over the same store.                                   *)
(***************************************************************************)
EXTENDS Naturals, Sequences, Functions

CONSTANTS
    Callers,    \* application threads
    SyncIds,    \* ids of syncs_soup rows; AUTOINCREMENT never reuses one
    NoSync,     \* the id of a caller or a worker that has none
    MaxInst,    \* bound: SyncManager objects built on this store
    MaxPages,   \* bound: progress updates of one run
    MaxQueue,   \* bound: no call submits a task when so many wait in the pool
    Ops         \* the operations and faults that may happen

AllOps == {"create", "resync", "ghosts", "stop", "restart", "delete",
           "reset", "crash", "revoke", "fail"}

ASSUME BoundAssumption == MaxInst \in Nat /\ MaxPages \in Nat /\ MaxQueue \in Nat
ASSUME OpsAssumption   == Ops \subseteq AllOps
ASSUME NoSyncAssumption == NoSync \notin SyncIds

Insts  == 1 .. MaxInst
NoInst == 0

\* SyncState.Status, with the two ways of having no row.
FinalStatus == {"STOPPED", "DONE", "FAILED"}
Status      == {"NEW", "RUNNING"} \union FinalStatus
Row         == {"ABSENT", "DELETED"} \union Status

Kind  == {"sync", "ghosts"}
State == {"ACCEPTING_SYNCS", "STOP_REQUESTED", "STOPPED"}

Task     == [kind : Kind, id : SyncIds]
NoTask   == [kind |-> "sync", id |-> NoSync]

\* Where a thread is.  task: what a caller submits and a worker runs; todo: the
\* syncs a loop of a caller still has to go through; restarting: the caller is
\* inside restart(true); out, threw: the status updateSync() was called with,
\* and whether its save() threw.
CallerPc == {"idle", "checkNotRunning", "checkAccepting", "add", "markRunning",
             "execute", "restartQuery", "restartNext", "cleanup"}
WorkerPc == {"idle", "check", "run", "save", "remove"}
Caller == [pc : CallerPc, task : Task \union {NoTask}, inst : Insts \union {NoInst},
           restarting : BOOLEAN, todo : SUBSET SyncIds]
Worker == [pc : WorkerPc, task : Task \union {NoTask}, out : FinalStatus,
           page : 0 .. MaxPages, threw : BOOLEAN]
IdleCaller == [pc |-> "idle", task |-> NoTask, inst |-> NoInst,
               restarting |-> FALSE, todo |-> {}]
IdleWorker == [pc |-> "idle", task |-> NoTask, out |-> "DONE", page |-> 0,
               threw |-> FALSE]

VARIABLES
    store,      \* syncs_soup: the status of each sync, on disk
    cur,        \* INSTANCES.get(uniqueId), or NoInst
    built,      \* the number of SyncManager objects built so far
    state,      \* SyncManager.state, by instance
    active,     \* the keys of SyncManager.activeSyncs, by instance
    queue,      \* the queue of SyncManager.threadPool, by instance
    shut,       \* whether shutdownNow() was called on it
    worker,     \* the one thread of SyncManager.threadPool
    monitor,    \* the caller that is inside restart(), or "free"
    caller,     \* the threads that use the manager
    lost        \* history: <<instance, id>> whose task ended unremoved

mgrVars == <<state, active, queue, shut, worker, monitor>>
vars    == <<store, cur, built, mgrVars, caller, lost>>
----------------------------------------------------------------------------
TypeOK ==
    /\ store \in [SyncIds -> Row]
    /\ cur \in Insts \union {NoInst}
    /\ built \in 0 .. MaxInst
    /\ state \in [Insts -> State]
    /\ active \in [Insts -> SUBSET SyncIds]
    /\ queue \in [Insts -> Seq(Task)]
    /\ shut \in [Insts -> BOOLEAN]
    /\ worker \in [Insts -> Worker]
    /\ monitor \in [Insts -> Callers \union {"free"}]
    /\ caller \in [Callers -> Caller]
    /\ lost \subseteq Insts \X SyncIds

Init ==
    /\ store = [s \in SyncIds |-> "ABSENT"]
    /\ cur = NoInst
    /\ built = 0
    /\ state = [i \in Insts |-> "ACCEPTING_SYNCS"]
    /\ active = [i \in Insts |-> {}]
    /\ queue = [i \in Insts |-> <<>>]
    /\ shut = [i \in Insts |-> FALSE]
    /\ worker = [i \in Insts |-> IdleWorker]
    /\ monitor = [i \in Insts |-> "free"]
    /\ caller = [c \in Callers |-> IdleCaller]
    /\ lost = {}
----------------------------------------------------------------------------
HasRow(s)  == store[s] \notin {"ABSENT", "DELETED"}
RowsWith(status) == {s \in SyncIds : store[s] = status}

\* A synchronized method of instance i can be entered by a thread that is
\* not the one inside restart().
MonitorFree(i) == monitor[i] = "free"

\* checkAcceptingSyncs() does not throw.
Accepting(i) == state[i] = "ACCEPTING_SYNCS"

Idle(c)    == caller[c].pc = "idle"
At(c, pc)  == caller[c].pc = pc
Goto(c, pc) == caller' = [caller EXCEPT ![c].pc = pc]

\* The end of a run submitted by c: restart() goes on with the next sync, any
\* other method returns.
Return(c) ==
    caller' = [caller EXCEPT ![c] =
                 IF @.restarting THEN [@ EXCEPT !.pc = "restartNext", !.task = NoTask]
                                 ELSE IdleCaller]

\* An exception leaves the method of c; restart() does not catch it and gives
\* the monitor back.
Throw(c) ==
    /\ caller' = [caller EXCEPT ![c] = IdleCaller]
    /\ monitor' = IF caller[c].restarting
                  THEN [monitor EXCEPT ![caller[c].inst] = "free"]
                  ELSE monitor
----------------------------------------------------------------------------
(* getInstance(): the class lock is held by the constructing caller.       *)

Constructing == \E c \in Callers : At(c, "cleanup")

\* The rows cleanupSyncsSoupIfNeeded() goes through.
BugNoRows      == {}
BugAllRows     == {s \in SyncIds : HasRow(s)}
InterruptedSyncs == RowsWith("RUNNING")

\* The private constructor starts cleanupSyncsSoupIfNeeded(): it reads the
\* rows that say RUNNING.
GetInstance(c) ==
    /\ Idle(c)
    /\ cur = NoInst
    /\ ~Constructing
    /\ built < MaxInst
    /\ caller' = [caller EXCEPT ![c] = [@ EXCEPT !.pc = "cleanup",
                                                 !.todo = InterruptedSyncs]]
    /\ UNCHANGED <<store, cur, built, mgrVars, lost>>

\* It saves each of them as STOPPED; a row deleted meanwhile makes save()
\* throw and no instance is registered.
CleanupRow(c) ==
    /\ At(c, "cleanup")
    /\ \E s \in caller[c].todo :
          IF HasRow(s)
          THEN /\ store' = [store EXCEPT ![s] = "STOPPED"]
               /\ caller' = [caller EXCEPT ![c].todo = @ \ {s}]
          ELSE /\ caller' = [caller EXCEPT ![c] = IdleCaller]
               /\ UNCHANGED store
    /\ UNCHANGED <<cur, built, mgrVars, lost>>

\* INSTANCES.put(uniqueId, instance).
RegisterInstance(c) ==
    /\ At(c, "cleanup")
    /\ caller[c].todo = {}
    /\ built' = built + 1
    /\ cur' = built + 1
    /\ caller' = [caller EXCEPT ![c] = IdleCaller]
    /\ UNCHANGED <<store, mgrVars, lost>>
----------------------------------------------------------------------------
(* syncDown(), syncUp(), createSyncDown(), createSyncUp(), reSync() and    *)
(* cleanResyncGhosts().                                                    *)

Submit(c, kind, s) ==
    /\ Len(queue[cur]) < MaxQueue
    /\ caller' = [caller EXCEPT ![c] =
                    [@ EXCEPT !.pc = "checkNotRunning", !.inst = cur,
                              !.task = [kind |-> kind, id |-> s]]]

\* createSyncDown()/createSyncUp() insert a row; syncDown()/syncUp() go on to
\* runSync(), whose failure leaves the row.
CreateSync(c, s) ==
    /\ "create" \in Ops
    /\ Idle(c)
    /\ cur # NoInst
    /\ store[s] = "ABSENT"
    /\ store' = [store EXCEPT ![s] = "NEW"]
    /\ \/ Submit(c, "sync", s)
       \/ UNCHANGED caller
    /\ UNCHANGED <<cur, built, mgrVars, lost>>

\* Both first check that the row exists.
ReSync(c, s) ==
    /\ "resync" \in Ops
    /\ Idle(c)
    /\ cur # NoInst
    /\ HasRow(s)
    /\ Submit(c, "sync", s)
    /\ UNCHANGED <<store, cur, built, mgrVars, lost>>

CleanResyncGhosts(c, s) ==
    /\ "ghosts" \in Ops
    /\ Idle(c)
    /\ cur # NoInst
    /\ HasRow(s)
    /\ Submit(c, "ghosts", s)
    /\ UNCHANGED <<store, cur, built, mgrVars, lost>>

\* checkNotRunning() reads activeSyncs without the monitor.
BugNeverRunning(i, s) == FALSE
StillRunning(i, s)    == s \in active[i]

CheckNotRunning(c) ==
    LET t == caller[c].task  i == caller[c].inst IN
    /\ At(c, "checkNotRunning")
    /\ IF StillRunning(i, t.id)
       THEN Throw(c)
       ELSE /\ Goto(c, "checkAccepting")
            /\ UNCHANGED monitor
    /\ UNCHANGED <<store, cur, built, state, active, queue, shut, worker, lost>>

CheckAccepting(c) ==
    /\ At(c, "checkAccepting")
    /\ IF Accepting(caller[c].inst)
       THEN /\ Goto(c, "add")
            /\ UNCHANGED monitor
       ELSE Throw(c)
    /\ UNCHANGED <<store, cur, built, state, active, queue, shut, worker, lost>>

\* The SyncTask constructor calls addToActiveSyncs(); updateSync() is a no-op
\* for a ghosts task.
AddToActiveSyncs(c) ==
    LET t == caller[c].task  i == caller[c].inst IN
    /\ At(c, "add")
    /\ MonitorFree(i) \/ monitor[i] = c
    /\ active' = [active EXCEPT ![i] = @ \union {t.id}]
    /\ Goto(c, IF t.kind = "sync" THEN "markRunning" ELSE "execute")
    /\ UNCHANGED <<store, cur, built, state, queue, shut, worker, monitor, lost>>

\* The constructor saves the row as RUNNING, still on the caller's thread.
\* save() throws when the row is gone, and the id stays in activeSyncs.
MarkRunning(c) ==
    LET t == caller[c].task  i == caller[c].inst IN
    /\ At(c, "markRunning")
    /\ IF HasRow(t.id)
       THEN /\ store' = [store EXCEPT ![t.id] = "RUNNING"]
            /\ Goto(c, "execute")
            /\ UNCHANGED <<monitor, lost>>
       ELSE /\ Throw(c)
            /\ lost' = lost \union {<<i, t.id>>}
            /\ UNCHANGED store
    /\ UNCHANGED <<cur, built, state, active, queue, shut, worker>>

\* threadPool.execute() throws RejectedExecutionException once shut down.
Execute(c) ==
    LET t == caller[c].task  i == caller[c].inst IN
    /\ At(c, "execute")
    /\ IF shut[i]
       THEN /\ Throw(c)
            /\ lost' = lost \union {<<i, t.id>>}
            /\ UNCHANGED queue
       ELSE /\ Return(c)
            /\ queue' = [queue EXCEPT ![i] = Append(@, t)]
            /\ UNCHANGED <<monitor, lost>>
    /\ UNCHANGED <<store, cur, built, state, active, shut, worker>>
----------------------------------------------------------------------------
(* stop(), restart(), deleteSync() and reset().                            *)

\* stop() decides on the tasks that are still active.
BugStopState(i) == "STOPPED"
StopState(i)    == IF active[i] = {} THEN "STOPPED" ELSE "STOP_REQUESTED"

Stop(c) ==
    /\ "stop" \in Ops
    /\ Idle(c)
    /\ cur # NoInst
    /\ MonitorFree(cur)
    /\ state' = [state EXCEPT ![cur] = StopState(cur)]
    /\ UNCHANGED <<store, cur, built, active, queue, shut, worker, monitor, caller, lost>>

\* restart(false): the stopped syncs are left alone.
Restart(c) ==
    /\ "restart" \in Ops
    /\ Idle(c)
    /\ cur # NoInst
    /\ MonitorFree(cur)
    /\ ~Accepting(cur)
    /\ state' = [state EXCEPT ![cur] = "ACCEPTING_SYNCS"]
    /\ UNCHANGED <<store, cur, built, active, queue, shut, worker, monitor, caller, lost>>

\* restart(true) keeps the monitor until it has gone through the stopped syncs.
RestartStoppedSyncs(c) ==
    /\ "restart" \in Ops
    /\ Idle(c)
    /\ cur # NoInst
    /\ MonitorFree(cur)
    /\ ~Accepting(cur)
    /\ Len(queue[cur]) < MaxQueue
    /\ state' = [state EXCEPT ![cur] = "ACCEPTING_SYNCS"]
    /\ monitor' = [monitor EXCEPT ![cur] = c]
    /\ caller' = [caller EXCEPT ![c] = [@ EXCEPT !.pc = "restartQuery", !.inst = cur,
                                                 !.restarting = TRUE]]
    /\ UNCHANGED <<store, cur, built, active, queue, shut, worker, lost>>

\* SyncState.getSyncsWithStatus(STOPPED).
RestartQuery(c) ==
    /\ At(c, "restartQuery")
    /\ caller' = [caller EXCEPT ![c] = [@ EXCEPT !.pc = "restartNext",
                                                 !.todo = RowsWith("STOPPED")]]
    /\ UNCHANGED <<store, cur, built, mgrVars, lost>>

\* reSync() of the next one; checkExistsById() throws for a deleted row.
RestartNext(c) ==
    /\ At(c, "restartNext")
    /\ \E s \in caller[c].todo :
          IF HasRow(s)
          THEN /\ caller' = [caller EXCEPT ![c] =
                               [caller[c] EXCEPT !.pc = "checkNotRunning",
                                                 !.todo = @ \ {s},
                                                 !.task = [kind |-> "sync", id |-> s]]]
               /\ UNCHANGED monitor
          ELSE Throw(c)
    /\ UNCHANGED <<store, cur, built, state, active, queue, shut, worker, lost>>

RestartDone(c) ==
    /\ At(c, "restartNext")
    /\ caller[c].todo = {}
    /\ caller' = [caller EXCEPT ![c] = IdleCaller]
    /\ monitor' = [monitor EXCEPT ![caller[c].inst] = "free"]
    /\ UNCHANGED <<store, cur, built, state, active, queue, shut, worker, lost>>

\* deleteSync() does not look at activeSyncs.
DeleteSync(c, s) ==
    /\ "delete" \in Ops
    /\ Idle(c)
    /\ cur # NoInst
    /\ HasRow(s)
    /\ store' = [store EXCEPT ![s] = "DELETED"]
    /\ UNCHANGED <<cur, built, mgrVars, caller, lost>>

\* reset(): stop() and shutdownNow() on the instance, which leaves INSTANCES.
\* shutdownNow() drops the queued tasks; the one on the thread goes on.
Reset(c) ==
    /\ "reset" \in Ops
    /\ Idle(c)
    /\ cur # NoInst
    /\ MonitorFree(cur)
    /\ state' = [state EXCEPT ![cur] = StopState(cur)]
    /\ shut' = [shut EXCEPT ![cur] = TRUE]
    /\ queue' = [queue EXCEPT ![cur] = <<>>]
    /\ cur' = NoInst
    /\ UNCHANGED <<store, built, active, worker, monitor, caller, lost>>
----------------------------------------------------------------------------
(* SyncTask.run() on the thread of the pool.                               *)

WorkerGoto(i, pc) == worker' = [worker EXCEPT ![i].pc = pc]
WorkerSave(i, out) == worker' = [worker EXCEPT ![i] =
                                   [@ EXCEPT !.pc = "save", !.out = out, !.threw = FALSE]]

TakeTask(i) ==
    /\ worker[i].pc = "idle"
    /\ queue[i] # <<>>
    /\ worker' = [worker EXCEPT ![i] = [IdleWorker EXCEPT !.pc = "check",
                                                          !.task = Head(queue[i])]]
    /\ queue' = [queue EXCEPT ![i] = Tail(@)]
    /\ UNCHANGED <<store, cur, built, state, active, shut, monitor, caller, lost>>

\* catch (SyncManagerStoppedException).
BugStopUnreported(i) == worker' = [worker EXCEPT ![i] = IdleWorker]
StopReported(i)      == WorkerSave(i, "STOPPED")

\* checkIfStopRequested(), at the start of run() and before each page.  A
\* ghosts task that is refused ends in an updateSync() that does nothing.
CheckIfStopRequested(i) ==
    /\ worker[i].pc = "check"
    /\ IF Accepting(i)
       THEN WorkerGoto(i, "run") /\ UNCHANGED lost
       ELSE IF worker[i].task.kind = "sync"
       THEN StopReported(i) /\ UNCHANGED lost
       ELSE /\ worker' = [worker EXCEPT ![i] = IdleWorker]
            /\ lost' = lost \union {<<i, worker[i].task.id>>}
    /\ UNCHANGED <<store, cur, built, state, active, queue, shut, monitor, caller>>

\* Whether runSync() has another progress update to make.
BugMorePages(i) == worker[i].page <= MaxPages
MorePages(i)    == worker[i].page < MaxPages

\* A page: updateSync(RUNNING), whose save() throws when the row is gone.
RunPage(i) ==
    LET w == worker[i] IN
    /\ w.pc = "run"
    /\ w.task.kind = "sync"
    /\ IF HasRow(w.task.id)
       THEN /\ MorePages(i)
            /\ store' = [store EXCEPT ![w.task.id] = "RUNNING"]
            /\ worker' = [worker EXCEPT ![i] = [w EXCEPT !.pc = "check", !.page = @ + 1]]
       ELSE /\ WorkerSave(i, "FAILED")
            /\ UNCHANGED store
    /\ UNCHANGED <<cur, built, state, active, queue, shut, monitor, caller, lost>>

RunDone(i) ==
    /\ worker[i].pc = "run"
    /\ worker[i].task.kind = "sync"
    /\ WorkerSave(i, "DONE")
    /\ UNCHANGED <<store, cur, built, state, active, queue, shut, monitor, caller, lost>>

BugRunFailed(i) ==
    /\ worker[i].pc = "run"
    /\ worker' = [worker EXCEPT ![i] = IdleWorker]
    /\ UNCHANGED <<store, cur, built, state, active, queue, shut, monitor, caller, lost>>

\* Any other exception of runSync() is caught and the sync has failed.
RunFailed(i) ==
    /\ "fail" \in Ops
    /\ worker[i].pc = "run"
    /\ worker[i].task.kind = "sync"
    /\ WorkerSave(i, "FAILED")
    /\ UNCHANGED <<store, cur, built, state, active, queue, shut, monitor, caller, lost>>

\* RefreshTokenRevokedException: "let the logout go through".
RunRevoked(i) ==
    /\ "revoke" \in Ops
    /\ worker[i].pc = "run"
    /\ worker[i].task.kind = "sync"
    /\ worker' = [worker EXCEPT ![i] = IdleWorker]
    /\ lost' = lost \union {<<i, worker[i].task.id>>}
    /\ UNCHANGED <<store, cur, built, state, active, queue, shut, monitor, caller>>

\* cleanGhosts() ended, well or not: the task removes itself.
RunGhosts(i) ==
    /\ worker[i].pc = "run"
    /\ worker[i].task.kind = "ghosts"
    /\ WorkerGoto(i, "remove")
    /\ UNCHANGED <<store, cur, built, state, active, queue, shut, monitor, caller, lost>>

\* updateSync() with a final status saves the row first.
SaveFinal(i) ==
    LET w == worker[i] IN
    /\ w.pc = "save"
    /\ IF HasRow(w.task.id)
       THEN /\ store' = [store EXCEPT ![w.task.id] = w.out]
            /\ WorkerGoto(i, "remove")
       ELSE /\ worker' = [worker EXCEPT ![i] = [@ EXCEPT !.pc = "remove", !.threw = TRUE]]
            /\ UNCHANGED store
    /\ UNCHANGED <<cur, built, state, active, queue, shut, monitor, caller, lost>>

\* The last task to go completes a stop.
BugStateAfterRemoval(i, left) == state[i]
StateAfterRemoval(i, left) ==
    IF state[i] = "STOP_REQUESTED" /\ left = {} THEN "STOPPED" ELSE state[i]

\* Its finally calls removeFromActiveSyncs().  run() catches the exception of
\* a save of DONE and reports the sync as FAILED.
RemoveFromActiveSyncs(i) ==
    LET w == worker[i] IN
    /\ w.pc = "remove"
    /\ MonitorFree(i)
    /\ active' = [active EXCEPT ![i] = @ \ {w.task.id}]
    /\ state' = [state EXCEPT ![i] = StateAfterRemoval(i, active'[i])]
    /\ IF w.threw /\ w.out = "DONE"
       THEN WorkerSave(i, "FAILED")
       ELSE worker' = [worker EXCEPT ![i] = IdleWorker]
    /\ UNCHANGED <<store, cur, built, queue, shut, monitor, caller, lost>>
----------------------------------------------------------------------------
\* The process dies: only the store is left.
Crash ==
    /\ "crash" \in Ops
    /\ cur' = NoInst
    /\ state' = [i \in Insts |-> "ACCEPTING_SYNCS"]
    /\ active' = [i \in Insts |-> {}]
    /\ queue' = [i \in Insts |-> <<>>]
    /\ shut' = [i \in Insts |-> FALSE]
    /\ worker' = [i \in Insts |-> IdleWorker]
    /\ monitor' = [i \in Insts |-> "free"]
    /\ caller' = [c \in Callers |-> IdleCaller]
    /\ lost' = {}
    /\ UNCHANGED <<store, built>>
----------------------------------------------------------------------------
\* Steps of a method that has been called.
CallerStep(c) ==
    \/ CleanupRow(c)      \/ RegisterInstance(c)
    \/ CheckNotRunning(c) \/ CheckAccepting(c)
    \/ AddToActiveSyncs(c) \/ MarkRunning(c) \/ Execute(c)
    \/ RestartQuery(c)    \/ RestartNext(c)  \/ RestartDone(c)

\* Calls: nothing obliges an application to make one.
CallerCall(c) ==
    \/ GetInstance(c) \/ Stop(c) \/ Restart(c) \/ RestartStoppedSyncs(c) \/ Reset(c)
    \/ \E s \in SyncIds :
          CreateSync(c, s) \/ ReSync(c, s) \/ CleanResyncGhosts(c, s) \/ DeleteSync(c, s)

WorkerStep(i) ==
    \/ TakeTask(i) \/ CheckIfStopRequested(i)
    \/ RunPage(i)  \/ RunDone(i) \/ RunFailed(i) \/ RunRevoked(i) \/ RunGhosts(i)
    \/ SaveFinal(i) \/ RemoveFromActiveSyncs(i)

Next ==
    \/ \E c \in Callers : CallerCall(c) \/ CallerStep(c)
    \/ \E i \in Insts : WorkerStep(i)
    \/ Crash

Spec == Init /\ [][Next]_vars

\* A thread that is in a method, and the thread of a pool, keep running.
Fairness ==
    /\ \A c \in Callers : WF_vars(CallerStep(c))
    /\ \A i \in Insts : WF_vars(WorkerStep(i))

FairSpec == Spec /\ Fairness
----------------------------------------------------------------------------
(* Properties.                                                             *)

SyncTask(s) == [kind |-> "sync", id |-> s]

\* A run of sync s by instance i has been started and not yet reported: its
\* task is about to be handed to the pool, waits there, or is on the thread.
WillReport(i, s) ==
    \/ \E c \in Callers : /\ At(c, "execute")
                          /\ caller[c].inst = i
                          /\ caller[c].task = SyncTask(s)
    \/ SyncTask(s) \in Range(queue[i])
    \/ worker[i].pc \in {"check", "run", "save"} /\ worker[i].task = SyncTask(s)

\* Somebody is going to take s out of activeSyncs.
WillRemove(i, s) ==
    \/ \E c \in Callers : /\ caller[c].pc \in {"markRunning", "execute"}
                          /\ caller[c].inst = i
                          /\ caller[c].task.id = s
    \/ \E t \in Range(queue[i]) : t.id = s
    \/ worker[i].pc # "idle" /\ worker[i].task.id = s

\* A row that says RUNNING is never left behind: while an instance is
\* registered, some task is still going to write its final status.  The tasks
\* that ended without reporting are the ones recorded in lost.
NoOrphanRunning ==
    cur # NoInst =>
        \A s \in RowsWith("RUNNING") :
            \E i \in Insts : WillReport(i, s) \/ <<i, s>> \in lost

\* An id in activeSyncs, which makes checkNotRunning() refuse the sync and
\* keeps stop() from completing, is taken out by a task that still exists,
\* except for the tasks recorded in lost and the managers that were reset.
ActiveIsOwned ==
    \A i \in Insts : ~shut[i] =>
        \A s \in active[i] : WillRemove(i, s) \/ <<i, s>> \in lost

\* The runs of s that instance i has started and not reported.
Runs(i, s) ==
    {<<"caller", c>> : c \in {d \in Callers :
        caller[d].pc \in {"markRunning", "execute"} /\ caller[d].inst = i
        /\ caller[d].task.id = s}}
    \union {<<"queue", n>> : n \in {m \in DOMAIN queue[i] : queue[i][m].id = s}}
    \union {<<"worker", i>> : w \in {v \in {worker[i]} :
        v.pc \in {"check", "run", "save"} /\ v.task.id = s}}

\* What checkNotRunning() is for: one manager never has two tasks for a sync.
OneTaskPerSync ==
    \A i \in Insts, s \in SyncIds : \A r1, r2 \in Runs(i, s) : r1 = r2

\* "sync manager is stopped - no sync are running anymore": a manager that says
\* STOPPED has no task left that could still change a row.
StoppedIsQuiescent ==
    \A i \in Insts : state[i] = "STOPPED" =>
        \A s \in SyncIds : HasRow(s) => ~WillReport(i, s)

\* "It might take a while for active syncs to actually get stopped": a stop that
\* was requested completes, or restart() withdraws it.
StopCompletes ==
    \A i \in Insts : state[i] = "STOP_REQUESTED" ~> state[i] # "STOP_REQUESTED"

\* Only an id whose task has ended without taking it out of activeSyncs can hold
\* a stop up.
OnlyLostHoldsUpStop ==
    \A i \in Insts : state[i] = "STOP_REQUESTED"
                        ~> \/ state[i] # "STOP_REQUESTED"
                           \/ \E s \in active[i] : <<i, s>> \in lost

\* A run handed to the pool is reported, whatever is stopped, restarted, deleted
\* or fails meanwhile, unless the process dies or the refresh token is revoked.
\* Calls of restart() that follow each other for ever may keep a task from
\* removing itself: the monitor of a Java object is not fair.
RunsAreReported ==
    \A i \in Insts, s \in SyncIds :
        <>[]MonitorFree(i) =>
            (SyncTask(s) \in Range(queue[i])
                ~> \/ store[s] \in FinalStatus \union {"DELETED"}
                   \/ <<i, s>> \in lost
                   \/ cur # i)

\* What the status of a sync means to a reader of syncs_soup.
Lifecycle == INSTANCE SyncLifecycle WITH status <- store
LifecycleSpec == Lifecycle!Spec
=============================================================================
