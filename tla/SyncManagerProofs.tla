------------------------- MODULE SyncManagerProofs -------------------------
(***************************************************************************)
(* Proofs about SyncManager, for any sets of threads, syncs and instances  *)
(* and any selection of operations and faults: TypeOK, NoOrphanRunning (a  *)
(* row that says RUNNING is never left behind) and ActiveIsOwned (an id in *)
(* activeSyncs has a task that will take it out).                          *)
(*                                                                         *)
(* Then what it guarantees when one thread calls it and reset() is not     *)
(* used: one task per sync, a manager that says STOPPED has no task left,  *)
(* and the statuses follow SyncLifecycle.  With a second thread none of    *)
(* the three holds.                                                        *)
(***************************************************************************)
EXTENDS SyncManager, SequenceTheorems, TLAPS

USE DEF Insts, NoInst, At, vars, mgrVars

\* A thread that is in a method works on a task of an instance.
ThreadsOK ==
    /\ \A c \in Callers :
          /\ caller[c].pc \in {"checkNotRunning", "checkAccepting", "add",
                               "markRunning", "execute"}
                => caller[c].task \in Task /\ caller[c].inst \in Insts
          /\ caller[c].pc \in {"restartQuery", "restartNext"} \/ caller[c].restarting
                => caller[c].inst \in Insts
    /\ \A i \in Insts : worker[i].pc # "idle" => worker[i].task \in Task

\* The class lock: one constructor at a time, and only when there is no instance.
ConstructorOK ==
    \A c \in Callers : At(c, "cleanup") =>
        /\ cur = NoInst
        /\ built < MaxInst
        /\ \A d \in Callers : At(d, "cleanup") => d = c

TypeInv == TypeOK /\ ThreadsOK /\ ConstructorOK
----------------------------------------------------------------------------
(* What a step does to the record of its thread, field by field.           *)

CallerBecomes(c, pc, task, inst, restarting, todo) ==
    /\ caller' \in [Callers -> Caller]
    /\ \A d \in Callers \ {c} : caller'[d] = caller[d]
    /\ caller'[c].pc = pc
    /\ caller'[c].task = task
    /\ caller'[c].inst = inst
    /\ caller'[c].restarting = restarting
    /\ caller'[c].todo = todo

CallerIdles(c) == CallerBecomes(c, "idle", NoTask, NoInst, FALSE, {})

WorkerBecomes(i, pc, task) ==
    /\ worker' \in [Insts -> Worker]
    /\ \A j \in Insts \ {i} : worker'[j] = worker[j]
    /\ worker'[i].pc = pc
    /\ worker'[i].task = task

LEMMA GotoEffect ==
  ASSUME TypeOK, NEW c \in Callers, NEW pc \in CallerPc, Goto(c, pc)
  PROVE  CallerBecomes(c, pc, caller[c].task, caller[c].inst, caller[c].restarting,
                       caller[c].todo)
  BY DEF TypeOK, Goto, Caller, CallerBecomes

LEMMA IdleEffect ==
  ASSUME TypeOK, NEW c \in Callers, caller' = [caller EXCEPT ![c] = IdleCaller]
  PROVE  CallerIdles(c)
<1>1. IdleCaller \in Caller
  BY DEF IdleCaller, Caller, CallerPc, NoTask
<1>2. QED
  BY <1>1 DEF TypeOK, CallerIdles, CallerBecomes, IdleCaller

LEMMA ThrowEffect ==
  ASSUME TypeOK, NEW c \in Callers, Throw(c)
  PROVE  CallerIdles(c) /\ monitor' \in [Insts -> Callers \union {"free"}]
<1>1. CallerIdles(c)
  BY IdleEffect DEF Throw
<1>2. monitor' \in [Insts -> Callers \union {"free"}]
  BY DEF TypeOK, Throw
<1>3. QED
  BY <1>1, <1>2

LEMMA ReturnEffect ==
  ASSUME TypeOK, NEW c \in Callers, Return(c)
  PROVE  IF caller[c].restarting
         THEN CallerBecomes(c, "restartNext", NoTask, caller[c].inst, TRUE, caller[c].todo)
         ELSE CallerIdles(c)
<1>1. CASE caller[c].restarting
  BY <1>1 DEF TypeOK, CallerBecomes, Return, Caller, CallerPc
<1>2. CASE ~caller[c].restarting
  BY <1>2, IdleEffect DEF Return
<1>3. QED
  BY <1>1, <1>2

LEMMA SubmitEffect ==
  ASSUME TypeOK, NEW c \in Callers, NEW kind \in Kind, NEW s \in SyncIds, Submit(c, kind, s)
  PROVE  CallerBecomes(c, "checkNotRunning", [kind |-> kind, id |-> s], cur,
                       caller[c].restarting, caller[c].todo)
  BY DEF TypeOK, CallerBecomes, Caller, CallerPc, Task, Submit

LEMMA WorkerGotoEffect ==
  ASSUME TypeOK, NEW i \in Insts, NEW pc \in WorkerPc, WorkerGoto(i, pc)
  PROVE  WorkerBecomes(i, pc, worker[i].task)
  BY ZenonT(30) DEF TypeOK, WorkerGoto, Worker, WorkerBecomes

LEMMA WorkerSaveEffect ==
  ASSUME TypeOK, NEW i \in Insts, NEW out \in FinalStatus, WorkerSave(i, out)
  PROVE  WorkerBecomes(i, "save", worker[i].task)
  BY ZenonT(30) DEF TypeOK, WorkerSave, Worker, WorkerPc, WorkerBecomes

LEMMA SaveThrowEffect ==
  ASSUME TypeOK, NEW i \in Insts,
         worker' = [worker EXCEPT ![i] = [@ EXCEPT !.pc = "remove", !.threw = TRUE]]
  PROVE  WorkerBecomes(i, "remove", worker[i].task)
  BY ZenonT(30) DEF TypeOK, Worker, WorkerPc, WorkerBecomes

LEMMA NextEffect ==
  ASSUME TypeOK, NEW c \in Callers, NEW s \in caller[c].todo,
         caller' = [caller EXCEPT ![c] =
                      [caller[c] EXCEPT !.pc = "checkNotRunning",
                                        !.todo = @ \ {s},
                                        !.task = [kind |-> "sync", id |-> s]]]
  PROVE  CallerBecomes(c, "checkNotRunning", [kind |-> "sync", id |-> s], caller[c].inst,
                       caller[c].restarting, caller[c].todo \ {s})
<1> DEFINE r == [caller[c] EXCEPT !.pc = "checkNotRunning", !.todo = @ \ {s},
                                  !.task = [kind |-> "sync", id |-> s]]
<1>1. caller[c] \in Caller /\ [kind |-> "sync", id |-> s] \in Task
  BY DEF TypeOK, Caller, Task, Kind
<1>2. /\ r \in Caller
      /\ r.pc = "checkNotRunning"
      /\ r.task = [kind |-> "sync", id |-> s]
      /\ r.inst = caller[c].inst
      /\ r.restarting = caller[c].restarting
      /\ r.todo = caller[c].todo \ {s}
  BY <1>1 DEF Caller, CallerPc
<1>3. caller' = [caller EXCEPT ![c] = r]
  OBVIOUS
<1> HIDE DEF r
<1>4. QED
  BY <1>2, <1>3 DEF TypeOK, CallerBecomes

LEMMA CleanupEffect ==
  ASSUME TypeOK, NEW c \in Callers, NEW s, caller' = [caller EXCEPT ![c].todo = @ \ {s}]
  PROVE  CallerBecomes(c, caller[c].pc, caller[c].task, caller[c].inst, caller[c].restarting,
                       caller[c].todo \ {s})
  BY DEF TypeOK, Caller, CallerBecomes

LEMMA PageEffect ==
  ASSUME TypeOK, NEW i \in Insts, MorePages(i),
         worker' = [worker EXCEPT ![i] = [worker[i] EXCEPT !.pc = "check", !.page = @ + 1]]
  PROVE  WorkerBecomes(i, "check", worker[i].task)
<1> DEFINE r == [worker[i] EXCEPT !.pc = "check", !.page = @ + 1]
<1>1. worker[i] \in Worker /\ worker[i].page + 1 \in 0 .. MaxPages
  BY BoundAssumption DEF TypeOK, MorePages, Worker
<1>2. r \in Worker /\ r.pc = "check" /\ r.task = worker[i].task
  BY <1>1 DEF Worker, WorkerPc
<1>3. worker' = [worker EXCEPT ![i] = r]
  OBVIOUS
<1> HIDE DEF r
<1>4. QED
  BY <1>2, <1>3 DEF TypeOK, WorkerBecomes

LEMMA WorkerIdleEffect ==
  ASSUME TypeOK, NEW i \in Insts, worker' = [worker EXCEPT ![i] = IdleWorker]
  PROVE  WorkerBecomes(i, "idle", NoTask)
<1>1. IdleWorker \in Worker
  BY BoundAssumption DEF IdleWorker, Worker, WorkerPc, NoTask, FinalStatus
<1>2. QED
  BY <1>1 DEF TypeOK, WorkerBecomes, IdleWorker
----------------------------------------------------------------------------
(* Type correctness.                                                       *)

\* The parts of TypeInv about callers, for a step of a caller that leaves the
\* class lock alone.
LEMMA CallerTypes ==
  ASSUME TypeInv, NEW c \in Callers, NEW pc, NEW task, NEW inst, NEW restarting, NEW todo,
         CallerBecomes(c, pc, task, inst, restarting, todo),
         pc # "cleanup",
         pc \in {"checkNotRunning", "checkAccepting", "add", "markRunning", "execute"}
            => task \in Task /\ inst \in Insts,
         pc \in {"restartQuery", "restartNext"} \/ restarting => inst \in Insts,
         worker' = worker, UNCHANGED <<cur, built>>
  PROVE  caller' \in [Callers -> Caller] /\ ThreadsOK' /\ ConstructorOK'
<1>1. ThreadsOK'
  BY DEF TypeInv, ThreadsOK, CallerBecomes
<1>2. ConstructorOK'
  BY DEF TypeInv, ConstructorOK, CallerBecomes
<1>3. QED
  BY <1>1, <1>2 DEF CallerBecomes

\* The parts about workers, for a step of a worker.
LEMMA WorkerTypes ==
  ASSUME TypeInv, NEW i \in Insts, NEW pc, NEW task, WorkerBecomes(i, pc, task),
         pc # "idle" => task \in Task, UNCHANGED <<cur, built, caller>>
  PROVE  worker' \in [Insts -> Worker] /\ ThreadsOK' /\ ConstructorOK'
  BY DEF TypeInv, ThreadsOK, ConstructorOK, WorkerBecomes

LEMMA InitType == Init => TypeInv
  BY BoundAssumption, EmptySeq
  DEF Init, TypeInv, TypeOK, ThreadsOK, ConstructorOK, Caller, Worker, IdleCaller, IdleWorker,
      CallerPc, WorkerPc, FinalStatus, Row, Status, State, NoTask

LEMMA CallerStepType ==
  ASSUME TypeInv, NEW c \in Callers, CallerStep(c)
  PROVE  TypeInv'
<1>0. TypeOK
  BY DEF TypeInv
<1>1. CASE CleanupRow(c)
  <2>1. PICK s \in caller[c].todo :
           IF HasRow(s)
           THEN /\ store' = [store EXCEPT ![s] = "STOPPED"]
                /\ caller' = [caller EXCEPT ![c].todo = @ \ {s}]
           ELSE /\ caller' = [caller EXCEPT ![c] = IdleCaller]
                /\ UNCHANGED store
    BY <1>1 DEF CleanupRow
  <2>2. CASE HasRow(s)
    <3>1. CallerBecomes(c, "cleanup", caller[c].task, caller[c].inst, caller[c].restarting,
                        caller[c].todo \ {s})
      BY <1>0, <1>1, <2>1, <2>2, CleanupEffect DEF CleanupRow
    <3>2. store' \in [SyncIds -> Row]
      BY <1>0, <2>1, <2>2 DEF TypeOK, Row, Status, FinalStatus
    <3>3. TypeOK'
      BY <1>0, <1>1, <3>1, <3>2 DEF TypeOK, CleanupRow, CallerBecomes
    <3>4. ThreadsOK'
      BY <1>1, <3>1 DEF TypeInv, ThreadsOK, CleanupRow, CallerBecomes
    <3>5. ConstructorOK'
      BY <1>1, <3>1 DEF TypeInv, ConstructorOK, CleanupRow, CallerBecomes
    <3>6. QED
      BY <3>3, <3>4, <3>5 DEF TypeInv
  <2>3. CASE ~HasRow(s)
    <3>1. CallerIdles(c)
      BY <1>0, <2>1, <2>3, IdleEffect
    <3>2. caller' \in [Callers -> Caller] /\ ThreadsOK' /\ ConstructorOK'
      BY <1>1, <3>1, CallerTypes DEF CallerIdles, CleanupRow
    <3>3. TypeOK'
      BY <1>0, <1>1, <2>1, <2>3, <3>2 DEF TypeOK, CleanupRow
    <3>4. QED
      BY <3>2, <3>3 DEF TypeInv
  <2>4. QED
    BY <2>2, <2>3
<1>2. CASE RegisterInstance(c)
  <2>1. CallerIdles(c)
    BY <1>0, <1>2, IdleEffect DEF RegisterInstance
  <2>2. built + 1 \in Insts
    BY <1>0, <1>2, BoundAssumption DEF TypeInv, TypeOK, ConstructorOK, RegisterInstance
  <2>3. TypeOK'
    BY <1>0, <1>2, <2>1, <2>2 DEF TypeOK, RegisterInstance, CallerIdles, CallerBecomes
  <2>4. ThreadsOK'
    BY <1>2, <2>1 DEF TypeInv, ThreadsOK, RegisterInstance, CallerIdles, CallerBecomes
  <2>5. ConstructorOK'
    BY <1>2, <2>1 DEF TypeInv, ConstructorOK, RegisterInstance, CallerIdles, CallerBecomes
  <2>6. QED
    BY <2>3, <2>4, <2>5 DEF TypeInv
<1>3. CASE CheckNotRunning(c)
  <2>1. CASE Throw(c)
    <3>1. CallerIdles(c) /\ monitor' \in [Insts -> Callers \union {"free"}]
      BY <1>0, <2>1, ThrowEffect
    <3>2. caller' \in [Callers -> Caller] /\ ThreadsOK' /\ ConstructorOK'
      BY <1>3, <3>1, CallerTypes DEF CallerIdles, CheckNotRunning
    <3>3. QED
      BY <1>0, <1>3, <3>1, <3>2 DEF TypeInv, TypeOK, CheckNotRunning
  <2>2. CASE Goto(c, "checkAccepting") /\ UNCHANGED monitor
    <3>1. CallerBecomes(c, "checkAccepting", caller[c].task, caller[c].inst,
                        caller[c].restarting, caller[c].todo)
      BY <1>0, <2>2, GotoEffect DEF CallerPc
    <3>2. caller' \in [Callers -> Caller] /\ ThreadsOK' /\ ConstructorOK'
      BY <1>3, <3>1, CallerTypes DEF CheckNotRunning, TypeInv, ThreadsOK
    <3>3. QED
      BY <1>0, <1>3, <2>2, <3>2 DEF TypeInv, TypeOK, CheckNotRunning
  <2>3. QED
    BY <1>3, <2>1, <2>2 DEF CheckNotRunning
<1>4. CASE CheckAccepting(c)
  <2>1. CASE Throw(c)
    <3>1. CallerIdles(c) /\ monitor' \in [Insts -> Callers \union {"free"}]
      BY <1>0, <2>1, ThrowEffect
    <3>2. caller' \in [Callers -> Caller] /\ ThreadsOK' /\ ConstructorOK'
      BY <1>4, <3>1, CallerTypes DEF CallerIdles, CheckAccepting
    <3>3. QED
      BY <1>0, <1>4, <3>1, <3>2 DEF TypeInv, TypeOK, CheckAccepting
  <2>2. CASE Goto(c, "add") /\ UNCHANGED monitor
    <3>1. CallerBecomes(c, "add", caller[c].task, caller[c].inst,
                        caller[c].restarting, caller[c].todo)
      BY <1>0, <2>2, GotoEffect DEF CallerPc
    <3>2. caller' \in [Callers -> Caller] /\ ThreadsOK' /\ ConstructorOK'
      BY <1>4, <3>1, CallerTypes DEF CheckAccepting, TypeInv, ThreadsOK
    <3>3. QED
      BY <1>0, <1>4, <2>2, <3>2 DEF TypeInv, TypeOK, CheckAccepting
  <2>3. QED
    BY <1>4, <2>1, <2>2 DEF CheckAccepting
<1>5. CASE AddToActiveSyncs(c)
  <2>1. PICK pc \in {"markRunning", "execute"} : Goto(c, pc)
    BY <1>5 DEF AddToActiveSyncs
  <2>2. CallerBecomes(c, pc, caller[c].task, caller[c].inst, caller[c].restarting,
                      caller[c].todo)
    BY <1>0, <2>1, GotoEffect DEF CallerPc
  <2>3. caller[c].task \in Task /\ caller[c].inst \in Insts
    BY <1>5 DEF AddToActiveSyncs, TypeInv, ThreadsOK
  <2>4. caller' \in [Callers -> Caller] /\ ThreadsOK' /\ ConstructorOK'
    <3>1. UNCHANGED <<worker, cur, built>>
      BY <1>5 DEF AddToActiveSyncs
    <3>2. QED
      BY <2>2, <2>3, <3>1, CallerTypes
  <2>5. active' \in [Insts -> SUBSET SyncIds]
    BY <1>0, <1>5, <2>3 DEF TypeOK, AddToActiveSyncs, Task
  <2>6. QED
    BY <1>0, <1>5, <2>4, <2>5 DEF TypeInv, TypeOK, AddToActiveSyncs
<1>6. CASE MarkRunning(c)
  <2>1. caller[c].task \in Task /\ caller[c].inst \in Insts /\ caller[c].task.id \in SyncIds
    BY <1>6 DEF MarkRunning, TypeInv, ThreadsOK, Task
  <2>2. CASE HasRow(caller[c].task.id)
    <3>1. CallerBecomes(c, "execute", caller[c].task, caller[c].inst,
                        caller[c].restarting, caller[c].todo)
      BY <1>0, <1>6, <2>2, GotoEffect DEF CallerPc, MarkRunning
    <3>2. caller' \in [Callers -> Caller] /\ ThreadsOK' /\ ConstructorOK'
      BY <1>6, <2>1, <3>1, CallerTypes DEF MarkRunning
    <3>3. store' \in [SyncIds -> Row]
      BY <1>0, <1>6, <2>1, <2>2 DEF TypeOK, MarkRunning, Row, Status
    <3>4. QED
      BY <1>0, <1>6, <2>2, <3>2, <3>3 DEF TypeInv, TypeOK, MarkRunning
  <2>3. CASE ~HasRow(caller[c].task.id)
    <3>1. CallerIdles(c) /\ monitor' \in [Insts -> Callers \union {"free"}]
      BY <1>0, <1>6, <2>3, ThrowEffect DEF MarkRunning
    <3>2. caller' \in [Callers -> Caller] /\ ThreadsOK' /\ ConstructorOK'
      BY <1>6, <3>1, CallerTypes DEF CallerIdles, MarkRunning
    <3>3. lost' \subseteq Insts \X SyncIds
      BY <1>0, <1>6, <2>1, <2>3 DEF TypeOK, MarkRunning
    <3>4. QED
      BY <1>0, <1>6, <2>3, <3>1, <3>2, <3>3 DEF TypeInv, TypeOK, MarkRunning
  <2>4. QED
    BY <2>2, <2>3
<1>7. CASE Execute(c)
  <2>1. caller[c].task \in Task /\ caller[c].inst \in Insts /\ caller[c].task.id \in SyncIds
    BY <1>7 DEF Execute, TypeInv, ThreadsOK, Task
  <2>2. CASE shut[caller[c].inst]
    <3>1. CallerIdles(c) /\ monitor' \in [Insts -> Callers \union {"free"}]
      BY <1>0, <1>7, <2>2, ThrowEffect DEF Execute
    <3>2. caller' \in [Callers -> Caller] /\ ThreadsOK' /\ ConstructorOK'
      BY <1>7, <3>1, CallerTypes DEF CallerIdles, Execute
    <3>3. lost' \subseteq Insts \X SyncIds
      BY <1>0, <1>7, <2>1, <2>2 DEF TypeOK, Execute
    <3>4. QED
      BY <1>0, <1>7, <2>2, <3>1, <3>2, <3>3 DEF TypeInv, TypeOK, Execute
  <2>3. CASE ~shut[caller[c].inst]
    <3>1. IF caller[c].restarting
          THEN CallerBecomes(c, "restartNext", NoTask, caller[c].inst, TRUE, caller[c].todo)
          ELSE CallerIdles(c)
      BY <1>0, <1>7, <2>3, ReturnEffect DEF Execute
    <3>2. caller' \in [Callers -> Caller] /\ ThreadsOK' /\ ConstructorOK'
      <4>1. UNCHANGED <<worker, cur, built>>
        BY <1>7 DEF Execute
      <4>2. QED
        BY <2>1, <3>1, <4>1, CallerTypes DEF CallerIdles
    <3>3. queue' \in [Insts -> Seq(Task)]
      <4>1. Append(queue[caller[c].inst], caller[c].task) \in Seq(Task)
        BY <1>0, <2>1, AppendProperties DEF TypeOK
      <4>2. QED
        BY <1>0, <1>7, <2>1, <2>3, <4>1 DEF TypeOK, Execute
    <3>4. QED
      BY <1>0, <1>7, <2>3, <3>2, <3>3 DEF TypeInv, TypeOK, Execute
  <2>4. QED
    BY <2>2, <2>3
<1>8. CASE RestartQuery(c)
  <2>1. CallerBecomes(c, "restartNext", caller[c].task, caller[c].inst,
                      caller[c].restarting, RowsWith("STOPPED"))
    BY <1>0, <1>8 DEF TypeOK, Caller, CallerPc, CallerBecomes, RestartQuery, RowsWith
  <2>2. caller' \in [Callers -> Caller] /\ ThreadsOK' /\ ConstructorOK'
    BY <1>8, <2>1, CallerTypes DEF RestartQuery, TypeInv, ThreadsOK
  <2>3. QED
    BY <1>0, <1>8, <2>2 DEF TypeInv, TypeOK, RestartQuery
<1>9. CASE RestartNext(c)
  <2>1. CASE Throw(c)
    <3>1. CallerIdles(c) /\ monitor' \in [Insts -> Callers \union {"free"}]
      BY <1>0, <2>1, ThrowEffect
    <3>2. caller' \in [Callers -> Caller] /\ ThreadsOK' /\ ConstructorOK'
      BY <1>9, <3>1, CallerTypes DEF CallerIdles, RestartNext
    <3>3. QED
      BY <1>0, <1>9, <3>1, <3>2 DEF TypeInv, TypeOK, RestartNext
  <2>2. ASSUME NEW s \in caller[c].todo, UNCHANGED monitor,
               caller' = [caller EXCEPT ![c] =
                            [caller[c] EXCEPT !.pc = "checkNotRunning",
                                              !.todo = @ \ {s},
                                              !.task = [kind |-> "sync", id |-> s]]]
        PROVE  TypeInv'
    <3>1. [kind |-> "sync", id |-> s] \in Task /\ caller[c].inst \in Insts
      BY <1>0, <1>9 DEF TypeInv, TypeOK, ThreadsOK, RestartNext, Caller, Task, Kind
    <3>2. CallerBecomes(c, "checkNotRunning", [kind |-> "sync", id |-> s], caller[c].inst,
                        caller[c].restarting, caller[c].todo \ {s})
      BY <1>0, <2>2, NextEffect
    <3>3. caller' \in [Callers -> Caller] /\ ThreadsOK' /\ ConstructorOK'
      <4>1. UNCHANGED <<worker, cur, built>>
        BY <1>9 DEF RestartNext
      <4>2. QED
        BY <3>1, <3>2, <4>1, CallerTypes
    <3>4. QED
      BY <1>0, <1>9, <2>2, <3>3 DEF TypeInv, TypeOK, RestartNext
  <2>3. QED
    BY <1>9, <2>1, <2>2 DEF RestartNext
<1>10. CASE RestartDone(c)
  <2>1. CallerIdles(c)
    BY <1>0, <1>10, IdleEffect DEF RestartDone
  <2>2. caller' \in [Callers -> Caller] /\ ThreadsOK' /\ ConstructorOK'
    BY <1>10, <2>1, CallerTypes DEF CallerIdles, RestartDone
  <2>3. QED
    BY <1>0, <1>10, <2>2 DEF TypeInv, TypeOK, RestartDone
<1>11. QED
  BY <1>1, <1>2, <1>3, <1>4, <1>5, <1>6, <1>7, <1>8, <1>9, <1>10 DEF CallerStep

LEMMA CallerCallType ==
  ASSUME TypeInv, NEW c \in Callers, CallerCall(c)
  PROVE  TypeInv'
<1>0. TypeOK
  BY DEF TypeInv
<1>1. CASE GetInstance(c)
  <2>1. CallerBecomes(c, "cleanup", caller[c].task, caller[c].inst, caller[c].restarting,
                      InterruptedSyncs)
    BY <1>0, <1>1 DEF TypeOK, Caller, CallerPc, CallerBecomes, GetInstance,
                      InterruptedSyncs, RowsWith
  <2>2. TypeOK'
    BY <1>0, <1>1, <2>1 DEF TypeOK, GetInstance, CallerBecomes
  <2>3. ThreadsOK'
    BY <1>1, <2>1 DEF TypeInv, ThreadsOK, GetInstance, CallerBecomes
  <2>4. built < MaxInst
    BY <1>0, <1>1 DEF GetInstance
  <2>5. ConstructorOK'
    BY <1>1, <2>1, <2>4 DEF TypeInv, ConstructorOK, GetInstance, CallerBecomes, Constructing
  <2>6. QED
    BY <2>2, <2>3, <2>5 DEF TypeInv
<1>2. CASE Stop(c)
  <2>1. StopState(cur) \in State
    BY DEF StopState, State
  <2>2. state' \in [Insts -> State]
    BY <1>0, <1>2, <2>1 DEF TypeOK, Stop
  <2>3. QED
    BY <1>0, <1>2, <2>2 DEF TypeInv, TypeOK, ThreadsOK, ConstructorOK, Stop
<1>3. CASE Restart(c)
  BY <1>0, <1>3 DEF TypeInv, TypeOK, ThreadsOK, ConstructorOK, Restart, State
<1>4. CASE RestartStoppedSyncs(c)
  <2>1. cur \in Insts
    BY <1>0, <1>4 DEF TypeOK, RestartStoppedSyncs
  <2>2. CallerBecomes(c, "restartQuery", caller[c].task, cur, TRUE, caller[c].todo)
    BY <1>0, <1>4, <2>1 DEF TypeOK, Caller, CallerPc, CallerBecomes, RestartStoppedSyncs
  <2>3. caller' \in [Callers -> Caller] /\ ThreadsOK' /\ ConstructorOK'
    <3>1. UNCHANGED <<worker, cur, built>>
      BY <1>4 DEF RestartStoppedSyncs
    <3>2. QED
      BY <2>1, <2>2, <3>1, CallerTypes
  <2>4. state' \in [Insts -> State] /\ monitor' \in [Insts -> Callers \union {"free"}]
    BY <1>0, <1>4, <2>1 DEF TypeOK, RestartStoppedSyncs, State
  <2>5. QED
    BY <1>0, <1>4, <2>3, <2>4 DEF TypeInv, TypeOK, RestartStoppedSyncs
<1>5. CASE Reset(c)
  <2>1. StopState(cur) \in State /\ <<>> \in Seq(Task)
    BY EmptySeq DEF StopState, State
  <2>2. /\ state' \in [Insts -> State]
        /\ shut' \in [Insts -> BOOLEAN]
        /\ queue' \in [Insts -> Seq(Task)]
    BY <1>0, <1>5, <2>1 DEF TypeOK, Reset
  <2>3. TypeOK'
    BY <1>0, <1>5, <2>2 DEF TypeOK, Reset
  <2>4. QED
    BY <1>5, <2>3 DEF TypeInv, ThreadsOK, ConstructorOK, Reset
<1>6. ASSUME NEW s \in SyncIds, CreateSync(c, s)
      PROVE  TypeInv'
  <2>1. store' \in [SyncIds -> Row] /\ cur \in Insts
    BY <1>0, <1>6 DEF TypeOK, CreateSync, Row, Status
  <2>2. UNCHANGED <<worker, cur, built>>
    BY <1>6 DEF CreateSync
  <2>3. CASE UNCHANGED caller
    BY <1>0, <1>6, <2>1, <2>3 DEF TypeInv, TypeOK, ThreadsOK, ConstructorOK, CreateSync
  <2>4. CASE Submit(c, "sync", s)
    <3>1. [kind |-> "sync", id |-> s] \in Task
      BY DEF Task, Kind
    <3>2. CallerBecomes(c, "checkNotRunning", [kind |-> "sync", id |-> s], cur,
                        caller[c].restarting, caller[c].todo)
      BY <1>0, <2>4, SubmitEffect DEF Kind
    <3>3. caller' \in [Callers -> Caller] /\ ThreadsOK' /\ ConstructorOK'
      BY <2>1, <2>2, <3>1, <3>2, CallerTypes
    <3>4. QED
      BY <1>0, <1>6, <2>1, <3>3 DEF TypeInv, TypeOK, CreateSync
  <2>5. QED
    BY <1>6, <2>3, <2>4 DEF CreateSync
<1>7. ASSUME NEW s \in SyncIds, DeleteSync(c, s)
      PROVE  TypeInv'
  BY <1>0, <1>7 DEF TypeInv, TypeOK, ThreadsOK, ConstructorOK, DeleteSync, Row
<1>8. ASSUME NEW s \in SyncIds, ReSync(c, s) \/ CleanResyncGhosts(c, s)
      PROVE  TypeInv'
  <2>0. PICK kind \in Kind : Submit(c, kind, s)
    BY <1>8 DEF ReSync, CleanResyncGhosts, Kind
  <2>1. [kind |-> kind, id |-> s] \in Task /\ cur \in Insts
    BY <1>0, <1>8 DEF TypeOK, Task, ReSync, CleanResyncGhosts
  <2>2. UNCHANGED <<worker, cur, built>>
    BY <1>8 DEF ReSync, CleanResyncGhosts
  <2>3. CallerBecomes(c, "checkNotRunning", [kind |-> kind, id |-> s], cur,
                      caller[c].restarting, caller[c].todo)
    BY <1>0, <2>0, SubmitEffect
  <2>4. caller' \in [Callers -> Caller] /\ ThreadsOK' /\ ConstructorOK'
    BY <2>1, <2>2, <2>3, CallerTypes
  <2>5. QED
    BY <1>0, <1>8, <2>4 DEF TypeInv, TypeOK, ReSync, CleanResyncGhosts
<1>9. QED
  BY <1>1, <1>2, <1>3, <1>4, <1>5, <1>6, <1>7, <1>8 DEF CallerCall

LEMMA WorkerStepType ==
  ASSUME TypeInv, NEW i \in Insts, WorkerStep(i)
  PROVE  TypeInv'
<1>0. TypeOK
  BY DEF TypeInv
<1>1. CASE TakeTask(i)
  <2>1. Head(queue[i]) \in Task /\ Tail(queue[i]) \in Seq(Task)
    BY <1>0, <1>1, HeadTailProperties DEF TypeOK, TakeTask
  <2>2. WorkerBecomes(i, "check", Head(queue[i]))
    <3> DEFINE r == [IdleWorker EXCEPT !.pc = "check", !.task = Head(queue[i])]
    <3>1. r \in Worker /\ r.pc = "check" /\ r.task = Head(queue[i])
      <4>1. IdleWorker \in Worker
        BY BoundAssumption DEF IdleWorker, Worker, WorkerPc, NoTask, FinalStatus
      <4>2. QED
        BY <2>1, <4>1 DEF Worker, WorkerPc
    <3>2. worker' = [worker EXCEPT ![i] = r]
      BY <1>1 DEF TakeTask
    <3> HIDE DEF r
    <3>3. QED
      BY <1>0, <3>1, <3>2 DEF TypeOK, WorkerBecomes
  <2>3. UNCHANGED <<cur, built, caller>>
    BY <1>1 DEF TakeTask
  <2>4. worker' \in [Insts -> Worker] /\ ThreadsOK' /\ ConstructorOK'
    BY <2>1, <2>2, <2>3, WorkerTypes
  <2>5. queue' \in [Insts -> Seq(Task)]
    BY <1>0, <1>1, <2>1 DEF TypeOK, TakeTask
  <2>6. QED
    BY <1>0, <1>1, <2>4, <2>5 DEF TypeInv, TypeOK, TakeTask
<1>2. CASE CheckIfStopRequested(i)
  <2>1. worker[i].task \in Task /\ worker[i].task.id \in SyncIds
    BY <1>2 DEF TypeInv, ThreadsOK, CheckIfStopRequested, Task
  <2>2. UNCHANGED <<cur, built, caller>>
    BY <1>2 DEF CheckIfStopRequested
  <2>3. \/ WorkerBecomes(i, "run", worker[i].task)
        \/ WorkerBecomes(i, "save", worker[i].task)
        \/ WorkerBecomes(i, "idle", NoTask)
    BY <1>0, <1>2, WorkerGotoEffect, WorkerSaveEffect, WorkerIdleEffect
    DEF CheckIfStopRequested, StopReported, WorkerPc, FinalStatus
  <2>4. worker' \in [Insts -> Worker] /\ ThreadsOK' /\ ConstructorOK'
    BY <2>1, <2>2, <2>3, WorkerTypes
  <2>5. lost' \subseteq Insts \X SyncIds
    BY <1>0, <1>2, <2>1 DEF TypeOK, CheckIfStopRequested
  <2>6. QED
    BY <1>0, <1>2, <2>4, <2>5 DEF TypeInv, TypeOK, CheckIfStopRequested
<1>3. CASE RunPage(i)
  <2>1. worker[i].task \in Task /\ worker[i].task.id \in SyncIds
    BY <1>3 DEF TypeInv, ThreadsOK, RunPage, Task
  <2>2. UNCHANGED <<cur, built, caller>>
    BY <1>3 DEF RunPage
  <2>3. \E pc \in WorkerPc : WorkerBecomes(i, pc, worker[i].task)
    <3>1. CASE HasRow(worker[i].task.id)
      BY <1>0, <1>3, <3>1, PageEffect DEF RunPage, WorkerPc
    <3>2. CASE ~HasRow(worker[i].task.id)
      BY <1>0, <1>3, <3>2, WorkerSaveEffect DEF RunPage, FinalStatus, WorkerPc
    <3>3. QED
      BY <3>1, <3>2
  <2>4. worker' \in [Insts -> Worker] /\ ThreadsOK' /\ ConstructorOK'
    BY <2>1, <2>2, <2>3, WorkerTypes
  <2>5. store' \in [SyncIds -> Row]
    BY <1>0, <1>3, <2>1 DEF TypeOK, RunPage, Row, Status
  <2>6. QED
    BY <1>0, <1>3, <2>4, <2>5 DEF TypeInv, TypeOK, RunPage
<1>4. CASE RunDone(i)
  <2>1. WorkerBecomes(i, "save", worker[i].task)
    BY <1>0, <1>4, WorkerSaveEffect DEF RunDone, FinalStatus
  <2>2. worker' \in [Insts -> Worker] /\ ThreadsOK' /\ ConstructorOK'
    BY <1>4, <2>1, WorkerTypes DEF RunDone, TypeInv, ThreadsOK
  <2>3. QED
    BY <1>0, <1>4, <2>2 DEF TypeInv, TypeOK, RunDone
<1>5. CASE RunFailed(i)
  <2>1. WorkerBecomes(i, "save", worker[i].task)
    BY <1>0, <1>5, WorkerSaveEffect DEF RunFailed, FinalStatus
  <2>2. worker' \in [Insts -> Worker] /\ ThreadsOK' /\ ConstructorOK'
    BY <1>5, <2>1, WorkerTypes DEF RunFailed, TypeInv, ThreadsOK
  <2>3. QED
    BY <1>0, <1>5, <2>2 DEF TypeInv, TypeOK, RunFailed
<1>6. CASE RunRevoked(i)
  <2>1. worker[i].task \in Task /\ worker[i].task.id \in SyncIds
    BY <1>6 DEF TypeInv, ThreadsOK, RunRevoked, Task
  <2>2. WorkerBecomes(i, "idle", NoTask)
    BY <1>0, <1>6, WorkerIdleEffect DEF RunRevoked
  <2>3. worker' \in [Insts -> Worker] /\ ThreadsOK' /\ ConstructorOK'
    BY <1>6, <2>2, WorkerTypes DEF RunRevoked
  <2>4. lost' \subseteq Insts \X SyncIds
    BY <1>0, <1>6, <2>1 DEF TypeOK, RunRevoked
  <2>5. QED
    BY <1>0, <1>6, <2>3, <2>4 DEF TypeInv, TypeOK, RunRevoked
<1>7. CASE RunGhosts(i)
  <2>1. WorkerBecomes(i, "remove", worker[i].task)
    BY <1>0, <1>7, WorkerGotoEffect DEF RunGhosts, WorkerPc
  <2>2. worker' \in [Insts -> Worker] /\ ThreadsOK' /\ ConstructorOK'
    BY <1>7, <2>1, WorkerTypes DEF RunGhosts, TypeInv, ThreadsOK
  <2>3. QED
    BY <1>0, <1>7, <2>2 DEF TypeInv, TypeOK, RunGhosts
<1>8. CASE SaveFinal(i)
  <2>1. worker[i].task \in Task /\ worker[i].task.id \in SyncIds
    BY <1>8 DEF TypeInv, ThreadsOK, SaveFinal, Task
  <2>2. UNCHANGED <<cur, built, caller>>
    BY <1>8 DEF SaveFinal
  <2>3. WorkerBecomes(i, "remove", worker[i].task)
    BY <1>0, <1>8, WorkerGotoEffect, SaveThrowEffect DEF SaveFinal, WorkerPc
  <2>4. worker' \in [Insts -> Worker] /\ ThreadsOK' /\ ConstructorOK'
    BY <2>1, <2>2, <2>3, WorkerTypes
  <2>5. worker[i].out \in FinalStatus
    BY <1>0 DEF TypeOK, Worker
  <2>6. store' \in [SyncIds -> Row]
    BY <1>0, <1>8, <2>1, <2>5 DEF TypeOK, SaveFinal, Row, Status
  <2>7. QED
    BY <1>0, <1>8, <2>4, <2>6 DEF TypeInv, TypeOK, SaveFinal
<1>9. CASE RemoveFromActiveSyncs(i)
  <2>1. worker[i].task \in Task
    BY <1>9 DEF TypeInv, ThreadsOK, RemoveFromActiveSyncs
  <2>2. UNCHANGED <<cur, built, caller>>
    BY <1>9 DEF RemoveFromActiveSyncs
  <2>3. WorkerBecomes(i, "save", worker[i].task) \/ WorkerBecomes(i, "idle", NoTask)
    BY <1>0, <1>9, WorkerSaveEffect, WorkerIdleEffect DEF RemoveFromActiveSyncs, FinalStatus
  <2>4. worker' \in [Insts -> Worker] /\ ThreadsOK' /\ ConstructorOK'
    BY <2>1, <2>2, <2>3, WorkerTypes
  <2>5. active' \in [Insts -> SUBSET SyncIds]
    BY <1>0, <1>9 DEF TypeOK, RemoveFromActiveSyncs
  <2>6. StateAfterRemoval(i, active'[i]) \in State
    BY <1>0 DEF TypeOK, StateAfterRemoval, State
  <2>7. state' \in [Insts -> State]
    BY <1>0, <1>9, <2>6 DEF TypeOK, RemoveFromActiveSyncs
  <2>8. QED
    BY <1>0, <1>9, <2>4, <2>5, <2>7 DEF TypeInv, TypeOK, RemoveFromActiveSyncs
<1>10. QED
  BY <1>1, <1>2, <1>3, <1>4, <1>5, <1>6, <1>7, <1>8, <1>9 DEF WorkerStep

LEMMA CrashType == TypeInv /\ Crash => TypeInv'
<1> SUFFICES ASSUME TypeInv, Crash
             PROVE  TypeInv'
  OBVIOUS
<1>1. IdleWorker \in Worker /\ IdleCaller \in Caller /\ <<>> \in Seq(Task)
  BY BoundAssumption, EmptySeq
  DEF IdleWorker, IdleCaller, Worker, WorkerPc, Caller, CallerPc, NoTask, FinalStatus
<1>2. TypeOK'
  BY <1>1 DEF TypeInv, TypeOK, Crash, State
<1>3. ThreadsOK' /\ ConstructorOK'
  BY DEF ThreadsOK, ConstructorOK, Crash, IdleWorker, IdleCaller
<1>4. QED
  BY <1>2, <1>3 DEF TypeInv

\* Every step of the manager, its threads and its callers is well typed.
LEMMA NextType == TypeInv /\ [Next]_vars => TypeInv'
<1> SUFFICES ASSUME TypeInv, [Next]_vars
             PROVE  TypeInv'
  OBVIOUS
<1>1. CASE UNCHANGED vars
  BY <1>1 DEF TypeInv, TypeOK, ThreadsOK, ConstructorOK
<1>2. QED
  BY <1>1, CallerCallType, CallerStepType, WorkerStepType, CrashType DEF Next

LEMMA TypeInvariant == Spec => []TypeInv
  BY InitType, NextType, PTL DEF Spec

\* Whatever the threads do, the manager's state keeps its type: a task is always
\* a sync of the soup, and an instance is registered only once it is built.
THEOREM TypeCorrect == Spec => []TypeOK
<1>1. TypeInv => TypeOK
  BY DEF TypeInv
<1>2. QED
  BY <1>1, TypeInvariant, PTL
----------------------------------------------------------------------------
(* A row that says RUNNING is never left behind.                           *)

Covered(s) == \E i \in Insts : WillReport(i, s) \/ <<i, s>> \in lost

\* NoOrphanRunning, with what a constructor still has to clean up, and the fact
\* that only the task of a sync marks its row.
NoOrphanInv ==
    /\ cur # NoInst => \A s \in RowsWith("RUNNING") : Covered(s)
    /\ \A c \in Callers : At(c, "cleanup") =>
          \A s \in RowsWith("RUNNING") : s \in caller[c].todo \/ Covered(s)
    /\ \A c \in Callers : At(c, "markRunning") => caller[c].task.kind = "sync"

LEMMA RangeAppend ==
  ASSUME NEW q \in Seq(Task), NEW t \in Task
  PROVE  Range(Append(q, t)) = Range(q) \union {t}
<1>1. /\ DOMAIN q = 1 .. Len(q)
      /\ DOMAIN Append(q, t) = 1 .. Len(q) + 1
      /\ Len(q) \in Nat
      /\ \A n \in 1 .. Len(q) : Append(q, t)[n] = q[n]
      /\ Append(q, t)[Len(q) + 1] = t
  BY AppendProperties, LenProperties
<1>2. QED
  BY <1>1 DEF Range

LEMMA RangeHeadTail ==
  ASSUME NEW q \in Seq(Task), q # <<>>
  PROVE  Range(q) = Range(Tail(q)) \union {Head(q)}
<1>1. /\ DOMAIN q = 1 .. Len(q)
      /\ Len(q) \in Nat \ {0}
      /\ Tail(q) \in Seq(Task)
      /\ Len(Tail(q)) = Len(q) - 1
      /\ \A n \in 1 .. Len(Tail(q)) : Tail(q)[n] = q[n + 1]
      /\ Head(q) = q[1]
  BY HeadTailProperties, LenProperties, EmptySeq
<1>2. DOMAIN Tail(q) = 1 .. (Len(q) - 1)
  BY <1>1, LenProperties
<1>3. ASSUME NEW x \in Range(q)
      PROVE  x \in Range(Tail(q)) \union {Head(q)}
  <2>1. PICK n \in 1 .. Len(q) : x = q[n]
    BY <1>1, <1>3 DEF Range
  <2>2. CASE n = 1
    BY <1>1, <2>1, <2>2
  <2>3. CASE n # 1
    <3>1. n - 1 \in 1 .. (Len(q) - 1) /\ (n - 1) + 1 = n
      BY <1>1, <2>3
    <3>2. Tail(q)[n - 1] = x
      BY <1>1, <2>1, <3>1
    <3>3. QED
      BY <1>2, <3>1, <3>2 DEF Range
  <2>4. QED
    BY <2>2, <2>3
<1>4. ASSUME NEW x \in Range(Tail(q)) \union {Head(q)}
      PROVE  x \in Range(q)
  <2>1. CASE x = Head(q)
    BY <1>1, <2>1 DEF Range
  <2>2. CASE x \in Range(Tail(q))
    <3>1. PICK n \in 1 .. (Len(q) - 1) : x = Tail(q)[n]
      BY <1>2, <2>2 DEF Range
    <3>2. n + 1 \in 1 .. Len(q) /\ x = q[n + 1]
      BY <1>1, <3>1
    <3>3. QED
      BY <1>1, <3>2 DEF Range
  <2>3. QED
    BY <1>4, <2>1, <2>2
<1>5. QED
  BY <1>3, <1>4

LEMMA TaskIsSyncTask ==
  ASSUME NEW t \in Task, t.kind = "sync"
  PROVE  t = SyncTask(t.id) /\ t.id \in SyncIds
  BY DEF Task, SyncTask

\* A step of a caller that is not about to hand over a task loses none.
LEMMA CoveredByCaller ==
  ASSUME NEW c \in Callers, NEW pc, NEW task, NEW inst, NEW restarting, NEW todo,
         CallerBecomes(c, pc, task, inst, restarting, todo),
         ~At(c, "execute"), UNCHANGED <<queue, worker>>, lost \subseteq lost'
  PROVE  \A s \in SyncIds : Covered(s) => Covered(s)'
  BY DEF Covered, WillReport, CallerBecomes

\* A step of a worker that goes on with its task, or has none to report.
LEMMA CoveredByWorker ==
  ASSUME NEW i \in Insts, NEW pc, NEW task, WorkerBecomes(i, pc, task),
         \/ task = worker[i].task /\ pc \in {"check", "run", "save"}
         \/ worker[i].pc \notin {"check", "run", "save"}
         \/ worker[i].task.kind # "sync",
         UNCHANGED <<caller, queue>>, lost \subseteq lost'
  PROVE  \A s \in SyncIds : Covered(s) => Covered(s)'
  BY DEF Covered, WillReport, WorkerBecomes, SyncTask

\* The rows that say RUNNING after a step are covered, or already said so.
LEMMA Frame ==
  ASSUME TypeOK, NoOrphanInv, UNCHANGED cur,
         \A s \in SyncIds : store'[s] = "RUNNING" =>
            Covered(s)' \/ (store[s] = "RUNNING" /\ (Covered(s) => Covered(s)')),
         \A c \in Callers : At(c, "cleanup")' =>
            At(c, "cleanup") /\ caller'[c].todo = caller[c].todo,
         \A c \in Callers : At(c, "markRunning")' => caller'[c].task.kind = "sync"
  PROVE  NoOrphanInv'
<1>1. \A s \in RowsWith("RUNNING")' :
         s \in SyncIds /\ (Covered(s)' \/ (store[s] = "RUNNING" /\ (Covered(s) => Covered(s)')))
  BY DEF RowsWith
<1> HIDE DEF Covered
<1>2. QED
  BY <1>1 DEF NoOrphanInv, RowsWith

LEMMA InitNoOrphan == Init => NoOrphanInv
  BY DEF Init, NoOrphanInv, RowsWith, IdleCaller

\* A step of a caller that neither constructs nor hands over a task nor writes
\* RUNNING.
LEMMA CallerFrame ==
  ASSUME TypeInv, NoOrphanInv,
         NEW c \in Callers, NEW pc, NEW task, NEW inst, NEW restarting, NEW todo,
         CallerBecomes(c, pc, task, inst, restarting, todo),
         ~At(c, "execute"), pc # "cleanup", pc = "markRunning" => task.kind = "sync",
         \A s \in SyncIds : store'[s] = "RUNNING" => store[s] = "RUNNING",
         UNCHANGED <<queue, worker, cur>>, lost \subseteq lost'
  PROVE  NoOrphanInv'
<1>1. \A s \in SyncIds : Covered(s) => Covered(s)'
  BY CoveredByCaller
<1>2. \A d \in Callers : At(d, "cleanup")' => At(d, "cleanup") /\ caller'[d].todo = caller[d].todo
  BY DEF CallerBecomes
<1>3. \A d \in Callers : At(d, "markRunning")' => caller'[d].task.kind = "sync"
  BY DEF CallerBecomes, NoOrphanInv
<1>4. QED
  BY <1>1, <1>2, <1>3, Frame DEF TypeInv

\* A step of a worker that loses no task and writes no RUNNING row.
LEMMA WorkerFrame ==
  ASSUME TypeInv, NoOrphanInv, UNCHANGED <<cur, caller>>,
         \A s \in SyncIds : store'[s] = "RUNNING" =>
            store[s] = "RUNNING" /\ (Covered(s) => Covered(s)')
  PROVE  NoOrphanInv'
<1>1. \A d \in Callers : At(d, "markRunning")' => caller'[d].task.kind = "sync"
  BY DEF NoOrphanInv
<1>2. QED
  BY <1>1, Frame DEF TypeInv

LEMMA CallerStepNoOrphan ==
  ASSUME TypeInv, NoOrphanInv, NEW c \in Callers, CallerStep(c)
  PROVE  NoOrphanInv'
<1>0. TypeOK /\ ThreadsOK /\ ConstructorOK
  BY DEF TypeInv
<1>1. CASE CleanupRow(c)
  <2>1. PICK s \in caller[c].todo :
           IF HasRow(s)
           THEN /\ store' = [store EXCEPT ![s] = "STOPPED"]
                /\ caller' = [caller EXCEPT ![c].todo = @ \ {s}]
           ELSE /\ caller' = [caller EXCEPT ![c] = IdleCaller]
                /\ UNCHANGED store
    BY <1>1 DEF CleanupRow
  <2>2. CASE HasRow(s)
    <3>1. CallerBecomes(c, "cleanup", caller[c].task, caller[c].inst, caller[c].restarting,
                        caller[c].todo \ {s})
      BY <1>0, <1>1, <2>1, <2>2, CleanupEffect DEF CleanupRow
    <3>2. \A r \in SyncIds : Covered(r) => Covered(r)'
      BY <1>1, <3>1, CoveredByCaller DEF CleanupRow
    <3>3. \A r \in RowsWith("RUNNING")' : r \in RowsWith("RUNNING") /\ r # s /\ r \in SyncIds
      BY <1>0, <2>1, <2>2 DEF TypeOK, RowsWith
    <3>4. \A r \in RowsWith("RUNNING") : r \in caller[c].todo \/ Covered(r)
      BY <1>1 DEF NoOrphanInv, CleanupRow
    <3>5. \A r \in RowsWith("RUNNING")' : r \in caller'[c].todo \/ Covered(r)'
      BY <3>1, <3>2, <3>3, <3>4 DEF CallerBecomes
    <3>6. cur' = NoInst /\ \A d \in Callers : At(d, "cleanup")' => d = c
      BY <1>0, <1>1, <3>1 DEF ConstructorOK, CleanupRow, CallerBecomes
    <3>7. \A d \in Callers : At(d, "markRunning")' => caller'[d].task.kind = "sync"
      BY <3>1 DEF CallerBecomes, NoOrphanInv
    <3>8. QED
      BY <3>5, <3>6, <3>7 DEF NoOrphanInv
  <2>3. CASE ~HasRow(s)
    <3>1. CallerIdles(c)
      BY <1>0, <2>1, <2>3, IdleEffect
    <3>2. QED
      BY <1>1, <2>1, <2>3, <3>1, CallerFrame DEF CallerIdles, CleanupRow
  <2>4. QED
    BY <2>2, <2>3
<1>2. CASE RegisterInstance(c)
  <2>1. CallerIdles(c)
    BY <1>0, <1>2, IdleEffect DEF RegisterInstance
  <2>2. \A s \in SyncIds : Covered(s) => Covered(s)'
    BY <1>2, <2>1, CoveredByCaller DEF RegisterInstance, CallerIdles
  <2>3. \A s \in RowsWith("RUNNING")' : Covered(s)'
    BY <1>2, <2>2 DEF RegisterInstance, NoOrphanInv, RowsWith
  <2>4. \A d \in Callers : ~At(d, "cleanup")'
    BY <1>0, <1>2, <2>1 DEF ConstructorOK, RegisterInstance, CallerIdles, CallerBecomes
  <2>5. \A d \in Callers : At(d, "markRunning")' => caller'[d].task.kind = "sync"
    BY <2>1 DEF CallerIdles, CallerBecomes, NoOrphanInv
  <2>6. QED
    BY <2>3, <2>4, <2>5 DEF NoOrphanInv
<1>3. CASE CheckNotRunning(c)
  <2>1. CallerIdles(c) \/ CallerBecomes(c, "checkAccepting", caller[c].task, caller[c].inst,
                                        caller[c].restarting, caller[c].todo)
    BY <1>0, <1>3, ThrowEffect, GotoEffect DEF CheckNotRunning, CallerPc
  <2>2. ~At(c, "execute") /\ UNCHANGED <<queue, worker, cur, lost, store>>
    BY <1>3 DEF CheckNotRunning
  <2>3. CASE CallerIdles(c)
    BY <2>2, <2>3, CallerFrame DEF CallerIdles
  <2>4. CASE CallerBecomes(c, "checkAccepting", caller[c].task, caller[c].inst,
                           caller[c].restarting, caller[c].todo)
    BY <2>2, <2>4, CallerFrame
  <2>5. QED
    BY <2>1, <2>3, <2>4
<1>4. CASE CheckAccepting(c)
  <2>1. CallerIdles(c) \/ CallerBecomes(c, "add", caller[c].task, caller[c].inst,
                                        caller[c].restarting, caller[c].todo)
    BY <1>0, <1>4, ThrowEffect, GotoEffect DEF CheckAccepting, CallerPc
  <2>2. ~At(c, "execute") /\ UNCHANGED <<queue, worker, cur, lost, store>>
    BY <1>4 DEF CheckAccepting
  <2>3. CASE CallerIdles(c)
    BY <2>2, <2>3, CallerFrame DEF CallerIdles
  <2>4. CASE CallerBecomes(c, "add", caller[c].task, caller[c].inst,
                           caller[c].restarting, caller[c].todo)
    BY <2>2, <2>4, CallerFrame
  <2>5. QED
    BY <2>1, <2>3, <2>4
<1>5. CASE AddToActiveSyncs(c)
  <2>1. PICK pc \in {"markRunning", "execute"} :
           Goto(c, pc) /\ (pc = "markRunning" => caller[c].task.kind = "sync")
    BY <1>5 DEF AddToActiveSyncs
  <2>2. CallerBecomes(c, pc, caller[c].task, caller[c].inst, caller[c].restarting,
                      caller[c].todo)
    BY <1>0, <2>1, GotoEffect DEF CallerPc
  <2>3. ~At(c, "execute") /\ UNCHANGED <<queue, worker, cur, lost, store>>
    BY <1>5 DEF AddToActiveSyncs
  <2>4. QED
    BY <2>1, <2>2, <2>3, CallerFrame
<1>6. CASE MarkRunning(c)
  <2>1. CASE HasRow(caller[c].task.id)
    <3>1. CallerBecomes(c, "execute", caller[c].task, caller[c].inst,
                        caller[c].restarting, caller[c].todo)
      BY <1>0, <1>6, <2>1, GotoEffect DEF CallerPc, MarkRunning
    <3>2. caller[c].inst \in Insts /\ caller[c].task = SyncTask(caller[c].task.id)
      BY <1>0, <1>6, TaskIsSyncTask DEF ThreadsOK, NoOrphanInv, MarkRunning
    <3>3. ASSUME NEW s \in SyncIds, s = caller[c].task.id
          PROVE  Covered(s)'
      BY <3>1, <3>2, <3>3 DEF Covered, WillReport, CallerBecomes
    <3>4. \A s \in SyncIds : Covered(s) => Covered(s)'
      BY <1>6, <2>1, <3>1, CoveredByCaller DEF MarkRunning
    <3>5. \A s \in SyncIds : store'[s] = "RUNNING" =>
             s = caller[c].task.id \/ store[s] = "RUNNING"
      BY <1>0, <1>6, <2>1 DEF TypeOK, MarkRunning
    <3>6. \A d \in Callers :
             /\ At(d, "cleanup")' => At(d, "cleanup") /\ caller'[d].todo = caller[d].todo
             /\ At(d, "markRunning")' => caller'[d].task.kind = "sync"
      BY <3>1 DEF CallerBecomes, NoOrphanInv
    <3>7. UNCHANGED cur
      BY <1>6 DEF MarkRunning
    <3>8. QED
      BY <1>0, <3>3, <3>4, <3>5, <3>6, <3>7, Frame
  <2>2. CASE ~HasRow(caller[c].task.id)
    <3>1. CallerIdles(c)
      BY <1>0, <1>6, <2>2, ThrowEffect DEF MarkRunning
    <3>2. /\ ~At(c, "execute") /\ UNCHANGED <<queue, worker, cur, store>>
          /\ lost \subseteq lost'
      BY <1>6, <2>2 DEF MarkRunning
    <3>3. QED
      BY <3>1, <3>2, CallerFrame DEF CallerIdles
  <2>3. QED
    BY <2>1, <2>2
<1>7. CASE Execute(c)
  <2>1. caller[c].task \in Task /\ caller[c].inst \in Insts
    BY <1>0, <1>7 DEF ThreadsOK, Execute
  <2>2. UNCHANGED <<store, cur, worker>>
    BY <1>7 DEF Execute
  <2>3. CASE shut[caller[c].inst]
    <3>1. CallerIdles(c)
      BY <1>0, <1>7, <2>3, ThrowEffect DEF Execute
    <3>2. lost' = lost \union {<<caller[c].inst, caller[c].task.id>>} /\ UNCHANGED queue
      BY <1>7, <2>3 DEF Execute
    <3>3. \A s \in SyncIds : Covered(s) => Covered(s)'
      BY <2>1, <2>2, <3>1, <3>2
      DEF Covered, WillReport, CallerIdles, CallerBecomes, SyncTask
    <3>4. QED
      BY <1>0, <2>2, <3>1, <3>3, Frame DEF CallerIdles, CallerBecomes, NoOrphanInv
  <2>4. CASE ~shut[caller[c].inst]
    <3>1. \/ CallerBecomes(c, "restartNext", NoTask, caller[c].inst, TRUE, caller[c].todo)
          \/ CallerIdles(c)
      BY <1>0, <1>7, <2>4, ReturnEffect DEF Execute
    <3>2. queue' = [queue EXCEPT ![caller[c].inst] = Append(@, caller[c].task)] /\ UNCHANGED lost
      BY <1>7, <2>4 DEF Execute
    <3>3. /\ Range(queue'[caller[c].inst])
               = Range(queue[caller[c].inst]) \union {caller[c].task}
          /\ \A i \in Insts : Range(queue[i]) \subseteq Range(queue'[i])
      BY <1>0, <2>1, <3>2, RangeAppend DEF TypeOK
    <3>4. \A d \in Callers \ {c} : caller'[d] = caller[d]
      BY <3>1 DEF CallerIdles, CallerBecomes
    <3>5. \A s \in SyncIds : Covered(s) => Covered(s)'
      BY <2>1, <2>2, <3>2, <3>3, <3>4 DEF Covered, WillReport
    <3>6. \A d \in Callers :
             /\ At(d, "cleanup")' => At(d, "cleanup") /\ caller'[d].todo = caller[d].todo
             /\ At(d, "markRunning")' => caller'[d].task.kind = "sync"
      BY <3>1 DEF CallerIdles, CallerBecomes, NoOrphanInv
    <3>7. QED
      BY <1>0, <2>2, <3>5, <3>6, Frame
  <2>5. QED
    BY <2>3, <2>4
<1>8. CASE RestartQuery(c)
  <2>1. CallerBecomes(c, "restartNext", caller[c].task, caller[c].inst,
                      caller[c].restarting, RowsWith("STOPPED"))
    BY <1>0, <1>8 DEF TypeOK, Caller, CallerPc, CallerBecomes, RestartQuery, RowsWith
  <2>2. QED
    BY <1>8, <2>1, CallerFrame DEF RestartQuery
<1>9. CASE RestartNext(c)
  <2>1. ~At(c, "execute") /\ UNCHANGED <<queue, worker, cur, lost, store>>
    BY <1>9 DEF RestartNext
  <2>2. CASE Throw(c)
    <3>1. CallerIdles(c)
      BY <1>0, <2>2, ThrowEffect
    <3>2. QED
      BY <2>1, <3>1, CallerFrame DEF CallerIdles
  <2>3. ASSUME NEW s \in caller[c].todo,
               caller' = [caller EXCEPT ![c] =
                            [caller[c] EXCEPT !.pc = "checkNotRunning",
                                              !.todo = @ \ {s},
                                              !.task = [kind |-> "sync", id |-> s]]]
        PROVE  NoOrphanInv'
    <3>1. CallerBecomes(c, "checkNotRunning", [kind |-> "sync", id |-> s], caller[c].inst,
                        caller[c].restarting, caller[c].todo \ {s})
      BY <1>0, <2>3, NextEffect
    <3>2. QED
      BY <2>1, <3>1, CallerFrame
  <2>4. QED
    BY <1>9, <2>2, <2>3 DEF RestartNext
<1>10. CASE RestartDone(c)
  <2>1. CallerIdles(c)
    BY <1>0, <1>10, IdleEffect DEF RestartDone
  <2>2. QED
    BY <1>10, <2>1, CallerFrame DEF CallerIdles, RestartDone
<1>11. QED
  BY <1>1, <1>2, <1>3, <1>4, <1>5, <1>6, <1>7, <1>8, <1>9, <1>10 DEF CallerStep

LEMMA CallerCallNoOrphan ==
  ASSUME TypeInv, NoOrphanInv, NEW c \in Callers, CallerCall(c)
  PROVE  NoOrphanInv'
<1>0. TypeOK /\ ThreadsOK /\ ConstructorOK
  BY DEF TypeInv
<1>1. CASE GetInstance(c)
  <2>1. CallerBecomes(c, "cleanup", caller[c].task, caller[c].inst, caller[c].restarting,
                      RowsWith("RUNNING"))
    BY <1>0, <1>1 DEF TypeOK, Caller, CallerPc, CallerBecomes, GetInstance,
                      InterruptedSyncs, RowsWith
  <2>2. \A d \in Callers : At(d, "cleanup")' => d = c
    BY <1>1, <2>1 DEF GetInstance, Constructing, CallerBecomes
  <2>3. RowsWith("RUNNING")' = RowsWith("RUNNING") /\ cur' = NoInst
    BY <1>1 DEF GetInstance, RowsWith
  <2>4. \A d \in Callers : At(d, "markRunning")' => caller'[d].task.kind = "sync"
    BY <2>1 DEF CallerBecomes, NoOrphanInv
  <2>5. QED
    BY <2>1, <2>2, <2>3, <2>4 DEF NoOrphanInv, CallerBecomes
<1>2. CASE Stop(c) \/ Restart(c)
  <2>1. UNCHANGED <<store, cur, queue, worker, caller, lost>>
    BY <1>2 DEF Stop, Restart
  <2>2. QED
    BY <2>1 DEF NoOrphanInv, RowsWith, Covered, WillReport
<1>3. CASE RestartStoppedSyncs(c)
  <2>0. CallerBecomes(c, "restartQuery", caller[c].task, cur, TRUE, caller[c].todo)
    BY <1>0, <1>3 DEF TypeOK, Caller, CallerPc, CallerBecomes, RestartStoppedSyncs
  <2>1. CallerBecomes(c, "restartQuery", caller[c].task, cur, caller'[c].restarting,
                      caller[c].todo)
    BY <2>0 DEF CallerBecomes
  <2>2. ~At(c, "execute") /\ UNCHANGED <<queue, worker, cur, lost, store>>
    BY <1>3 DEF RestartStoppedSyncs, Idle
  <2>3. \A s \in SyncIds : store'[s] = "RUNNING" => store[s] = "RUNNING"
    BY <2>2
  <2>4. QED
    BY <2>1, <2>2, <2>3, CallerFrame
<1>4. CASE Reset(c)
  <2>1. \A d \in Callers : ~At(d, "cleanup")
    BY <1>0, <1>4 DEF ConstructorOK, Reset
  <2>2. QED
    BY <1>4, <2>1 DEF NoOrphanInv, Reset
<1>5. ASSUME NEW s \in SyncIds, CreateSync(c, s)
      PROVE  NoOrphanInv'
  <2>1. /\ ~At(c, "execute") /\ UNCHANGED <<queue, worker, cur, lost>>
        /\ \A r \in SyncIds : store'[r] = "RUNNING" => store[r] = "RUNNING"
    BY <1>0, <1>5 DEF CreateSync, Idle, TypeOK
  <2>2. CASE UNCHANGED caller
    BY <2>1, <2>2, WorkerFrame DEF Covered, WillReport
  <2>3. CASE Submit(c, "sync", s)
    <3>1. CallerBecomes(c, "checkNotRunning", [kind |-> "sync", id |-> s], cur,
                        caller[c].restarting, caller[c].todo)
      BY <1>0, <2>3, SubmitEffect DEF Kind
    <3>2. QED
      BY <2>1, <3>1, CallerFrame
  <2>4. QED
    BY <1>5, <2>2, <2>3 DEF CreateSync
<1>6. ASSUME NEW s \in SyncIds, DeleteSync(c, s)
      PROVE  NoOrphanInv'
  <2>1. /\ UNCHANGED <<queue, worker, cur, caller, lost>>
        /\ \A r \in SyncIds : store'[r] = "RUNNING" => store[r] = "RUNNING"
    BY <1>0, <1>6 DEF DeleteSync, TypeOK
  <2>2. QED
    BY <2>1, WorkerFrame DEF Covered, WillReport
<1>7. ASSUME NEW s \in SyncIds, ReSync(c, s) \/ CleanResyncGhosts(c, s)
      PROVE  NoOrphanInv'
  <2>0. PICK kind \in Kind : Submit(c, kind, s)
    BY <1>7 DEF ReSync, CleanResyncGhosts, Kind
  <2>1. CallerBecomes(c, "checkNotRunning", [kind |-> kind, id |-> s], cur,
                      caller[c].restarting, caller[c].todo)
    BY <1>0, <2>0, SubmitEffect
  <2>2. ~At(c, "execute") /\ UNCHANGED <<queue, worker, cur, lost, store>>
    BY <1>7 DEF ReSync, CleanResyncGhosts, Idle
  <2>3. QED
    BY <2>1, <2>2, CallerFrame
<1>8. QED
  BY <1>1, <1>2, <1>3, <1>4, <1>5, <1>6, <1>7 DEF CallerCall

LEMMA WorkerStepNoOrphan ==
  ASSUME TypeInv, NoOrphanInv, NEW i \in Insts, WorkerStep(i)
  PROVE  NoOrphanInv'
<1>0. TypeOK /\ ThreadsOK
  BY DEF TypeInv
<1>1. CASE TakeTask(i)
  <2>1. UNCHANGED <<store, cur, caller, lost>>
    BY <1>1 DEF TakeTask
  <2>2. Range(queue[i]) = Range(Tail(queue[i])) \union {Head(queue[i])}
    BY <1>0, <1>1, RangeHeadTail DEF TypeOK, TakeTask
  <2>3. /\ worker'[i].pc = "check" /\ worker'[i].task = Head(queue[i])
        /\ \A j \in Insts \ {i} : worker'[j] = worker[j]
    BY <1>0, <1>1 DEF TypeOK, TakeTask, IdleWorker
  <2>4. queue'[i] = Tail(queue[i]) /\ \A j \in Insts \ {i} : queue'[j] = queue[j]
    BY <1>0, <1>1 DEF TypeOK, TakeTask
  <2>5. worker[i].pc = "idle"
    BY <1>1 DEF TakeTask
  <2>6. \A s \in SyncIds : Covered(s) => Covered(s)'
    BY <2>1, <2>2, <2>3, <2>4, <2>5 DEF Covered, WillReport
  <2>7. QED
    BY <2>1, <2>6, WorkerFrame
<1>2. CASE CheckIfStopRequested(i)
  <2>1. UNCHANGED <<store, cur, caller, queue>> /\ lost \subseteq lost'
    BY <1>2 DEF CheckIfStopRequested
  <2>2. \/ WorkerBecomes(i, "run", worker[i].task)
        \/ WorkerBecomes(i, "save", worker[i].task)
        \/ WorkerBecomes(i, "idle", NoTask) /\ worker[i].task.kind # "sync"
    BY <1>0, <1>2, WorkerGotoEffect, WorkerSaveEffect, WorkerIdleEffect
    DEF CheckIfStopRequested, StopReported, WorkerPc, FinalStatus
  <2>3. \A s \in SyncIds : Covered(s) => Covered(s)'
    BY <2>1, <2>2, CoveredByWorker
  <2>4. QED
    BY <2>1, <2>3, WorkerFrame
<1>3. CASE RunPage(i)
  <2>1. UNCHANGED <<cur, caller, queue, lost>>
    BY <1>3 DEF RunPage
  <2>2. WorkerBecomes(i, "check", worker[i].task) \/ WorkerBecomes(i, "save", worker[i].task)
    BY <1>0, <1>3, PageEffect, WorkerSaveEffect DEF RunPage, FinalStatus
  <2>3. \A s \in SyncIds : Covered(s) => Covered(s)'
    BY <2>1, <2>2, CoveredByWorker
  <2>4. worker[i].task = SyncTask(worker[i].task.id)
    BY <1>0, <1>3, TaskIsSyncTask DEF ThreadsOK, RunPage
  <2>5. ASSUME NEW s \in SyncIds, s = worker[i].task.id
        PROVE  Covered(s)'
    BY <2>2, <2>4, <2>5 DEF Covered, WillReport, WorkerBecomes
  <2>6. \A s \in SyncIds : store'[s] = "RUNNING" => s = worker[i].task.id \/ store[s] = "RUNNING"
    BY <1>0, <1>3 DEF TypeOK, RunPage
  <2>7. \A d \in Callers : At(d, "markRunning")' => caller'[d].task.kind = "sync"
    BY <2>1 DEF NoOrphanInv
  <2>8. QED
    BY <1>0, <2>1, <2>3, <2>5, <2>6, <2>7, Frame
<1>4. CASE RunDone(i) \/ RunFailed(i)
  <2>1. UNCHANGED <<store, cur, caller, queue, lost>>
    BY <1>4 DEF RunDone, RunFailed
  <2>2. WorkerBecomes(i, "save", worker[i].task)
    BY <1>0, <1>4, WorkerSaveEffect DEF RunDone, RunFailed, FinalStatus
  <2>3. QED
    BY <2>1, <2>2, CoveredByWorker, WorkerFrame
<1>5. CASE RunRevoked(i)
  <2>1. UNCHANGED <<store, cur, caller, queue>> /\ lost' = lost \union {<<i, worker[i].task.id>>}
    BY <1>5 DEF RunRevoked
  <2>2. WorkerBecomes(i, "idle", NoTask)
    BY <1>0, <1>5, WorkerIdleEffect DEF RunRevoked
  <2>3. \A s \in SyncIds : Covered(s) => Covered(s)'
    BY <2>1, <2>2 DEF Covered, WillReport, WorkerBecomes, SyncTask
  <2>4. QED
    BY <2>1, <2>3, WorkerFrame
<1>6. CASE RunGhosts(i)
  <2>1. UNCHANGED <<store, cur, caller, queue, lost>> /\ worker[i].task.kind # "sync"
    BY <1>6 DEF RunGhosts
  <2>2. WorkerBecomes(i, "remove", worker[i].task)
    BY <1>0, <1>6, WorkerGotoEffect DEF RunGhosts, WorkerPc
  <2>3. QED
    BY <2>1, <2>2, CoveredByWorker, WorkerFrame
<1>7. CASE SaveFinal(i)
  <2>1. UNCHANGED <<cur, caller, queue, lost>>
    BY <1>7 DEF SaveFinal
  <2>2. WorkerBecomes(i, "remove", worker[i].task)
    BY <1>0, <1>7, WorkerGotoEffect, SaveThrowEffect DEF SaveFinal, WorkerPc
  <2>3. worker[i].out \in FinalStatus
    BY <1>0 DEF TypeOK, Worker
  <2>4. \A s \in SyncIds : store'[s] = "RUNNING" =>
           store[s] = "RUNNING" /\ s # worker[i].task.id
    BY <1>0, <1>7, <2>3 DEF TypeOK, SaveFinal, HasRow, FinalStatus
  <2>5. \A s \in SyncIds : s # worker[i].task.id /\ Covered(s) => Covered(s)'
    BY <2>1, <2>2 DEF Covered, WillReport, WorkerBecomes, SyncTask
  <2>6. QED
    BY <2>1, <2>4, <2>5, WorkerFrame
<1>8. CASE RemoveFromActiveSyncs(i)
  <2>1. UNCHANGED <<store, cur, caller, queue, lost>>
    BY <1>8 DEF RemoveFromActiveSyncs
  <2>2. worker[i].pc = "remove"
    BY <1>8 DEF RemoveFromActiveSyncs
  <2>3. WorkerBecomes(i, "save", worker[i].task) \/ WorkerBecomes(i, "idle", NoTask)
    BY <1>0, <1>8, WorkerSaveEffect, WorkerIdleEffect DEF RemoveFromActiveSyncs, FinalStatus
  <2>4. \A s \in SyncIds : Covered(s) => Covered(s)'
    BY <2>1, <2>2, <2>3, CoveredByWorker
  <2>5. QED
    BY <2>1, <2>4, WorkerFrame
<1>9. QED
  BY <1>1, <1>2, <1>3, <1>4, <1>5, <1>6, <1>7, <1>8 DEF WorkerStep

LEMMA NextNoOrphan == TypeInv /\ NoOrphanInv /\ [Next]_vars => NoOrphanInv'
<1> SUFFICES ASSUME TypeInv, NoOrphanInv, [Next]_vars
             PROVE  NoOrphanInv'
  OBVIOUS
<1>1. CASE UNCHANGED vars
  BY <1>1 DEF NoOrphanInv, RowsWith, Covered, WillReport
<1>2. CASE Crash
  BY <1>2 DEF NoOrphanInv, Crash, IdleCaller
<1>3. QED
  BY <1>1, <1>2, CallerCallNoOrphan, CallerStepNoOrphan, WorkerStepNoOrphan DEF Next

\* While a manager is registered, every row that says RUNNING belongs to a task
\* that is still going to report, or to one of the recorded losses: a revoked
\* token, or a submission refused by the pool of a manager that was reset.
THEOREM NoRunningRowIsOrphaned == Spec => []NoOrphanRunning
<1>1. NoOrphanInv => NoOrphanRunning
  BY DEF NoOrphanInv, NoOrphanRunning, Covered
<1>2. QED
  BY <1>1, InitNoOrphan, NextNoOrphan, TypeInvariant, PTL DEF Spec
----------------------------------------------------------------------------
(* ActiveIsOwned: an id in activeSyncs has a task that will take it out, or *)
(* is one the code itself has lost.  With TypeInv it is inductive.          *)

Owned(i, s) == WillRemove(i, s) \/ <<i, s>> \in lost
Submitting  == {"markRunning", "execute"}

\* A step of a caller that has no task to hand over, or keeps the one it has.
LEMMA OwnedByCaller ==
  ASSUME NEW c \in Callers, NEW pc, NEW task, NEW inst, NEW restarting, NEW todo,
         CallerBecomes(c, pc, task, inst, restarting, todo),
         \/ caller[c].pc \notin Submitting
         \/ pc \in Submitting /\ task = caller[c].task /\ inst = caller[c].inst,
         UNCHANGED <<queue, worker>>, lost \subseteq lost'
  PROVE  \A i \in Insts, s \in SyncIds : Owned(i, s) => Owned(i, s)'
  BY DEF Owned, WillRemove, CallerBecomes, Submitting

\* A step of a worker that has no task, or keeps the one it has.
LEMMA OwnedByWorker ==
  ASSUME NEW i \in Insts, NEW pc, NEW task, WorkerBecomes(i, pc, task),
         worker[i].pc = "idle" \/ (pc # "idle" /\ task = worker[i].task),
         UNCHANGED <<caller, queue>>, lost \subseteq lost'
  PROVE  \A j \in Insts, s \in SyncIds : Owned(j, s) => Owned(j, s)'
  BY DEF Owned, WillRemove, WorkerBecomes

\* A step that adds nothing to activeSyncs and leaves every id its owner.
LEMMA ActiveFrame ==
  ASSUME TypeOK, ActiveIsOwned,
         \A i \in Insts : active'[i] \subseteq active[i] /\ (shut[i] => shut'[i]),
         \A i \in Insts, s \in SyncIds : s \in active'[i] /\ Owned(i, s) => Owned(i, s)'
  PROVE  ActiveIsOwned'
<1>1. \A i \in Insts : active[i] \subseteq SyncIds
  BY DEF TypeOK
<1>2. \A i \in Insts : ~shut'[i] => \A s \in active'[i] : Owned(i, s)'
  BY <1>1 DEF ActiveIsOwned, Owned
<1>3. QED
  BY <1>2 DEF ActiveIsOwned, Owned

\* The case of most steps.
LEMMA ActiveUnchanged ==
  ASSUME TypeOK, ActiveIsOwned, UNCHANGED <<active, shut>>,
         \A i \in Insts, s \in SyncIds : Owned(i, s) => Owned(i, s)'
  PROVE  ActiveIsOwned'
  BY ActiveFrame

LEMMA CallerStepActive ==
  ASSUME TypeInv, ActiveIsOwned, NEW c \in Callers, CallerStep(c)
  PROVE  ActiveIsOwned'
<1>0. TypeOK /\ ThreadsOK
  BY DEF TypeInv
<1>1. CASE CleanupRow(c)
  <2>1. PICK s \in caller[c].todo :
           IF HasRow(s)
           THEN /\ store' = [store EXCEPT ![s] = "STOPPED"]
                /\ caller' = [caller EXCEPT ![c].todo = @ \ {s}]
           ELSE /\ caller' = [caller EXCEPT ![c] = IdleCaller]
                /\ UNCHANGED store
    BY <1>1 DEF CleanupRow
  <2>2. \/ CallerBecomes(c, "cleanup", caller[c].task, caller[c].inst, caller[c].restarting,
                         caller[c].todo \ {s})
        \/ CallerIdles(c)
    BY <1>0, <1>1, <2>1, CleanupEffect, IdleEffect DEF CleanupRow
  <2>3. caller[c].pc \notin Submitting /\ UNCHANGED <<queue, worker, active, shut, lost>>
    BY <1>1 DEF CleanupRow, Submitting
  <2>4. \A i \in Insts, r \in SyncIds : Owned(i, r) => Owned(i, r)'
    BY <2>2, <2>3, OwnedByCaller DEF CallerIdles
  <2>5. QED
    BY <1>0, <2>3, <2>4, ActiveUnchanged
<1>2. CASE RegisterInstance(c) \/ RestartDone(c)
  <2>1. CallerIdles(c)
    BY <1>0, <1>2, IdleEffect DEF RegisterInstance, RestartDone
  <2>2. caller[c].pc \notin Submitting /\ UNCHANGED <<queue, worker, active, shut, lost>>
    BY <1>2 DEF RegisterInstance, RestartDone, Submitting
  <2>3. \A i \in Insts, r \in SyncIds : Owned(i, r) => Owned(i, r)'
    BY <2>1, <2>2, OwnedByCaller DEF CallerIdles
  <2>4. QED
    BY <1>0, <2>2, <2>3, ActiveUnchanged
<1>3. CASE CheckNotRunning(c) \/ CheckAccepting(c)
  <2>1. PICK pc \in {"checkAccepting", "add"} :
           CallerIdles(c) \/ CallerBecomes(c, pc, caller[c].task, caller[c].inst,
                                           caller[c].restarting, caller[c].todo)
    BY <1>0, <1>3, ThrowEffect, GotoEffect DEF CheckNotRunning, CheckAccepting, CallerPc
  <2>2. caller[c].pc \notin Submitting /\ UNCHANGED <<queue, worker, active, shut, lost>>
    BY <1>3 DEF CheckNotRunning, CheckAccepting, Submitting
  <2>3. \A i \in Insts, r \in SyncIds : Owned(i, r) => Owned(i, r)'
    BY <2>1, <2>2, OwnedByCaller DEF CallerIdles
  <2>4. QED
    BY <1>0, <2>2, <2>3, ActiveUnchanged
<1>4. CASE AddToActiveSyncs(c)
  <2> DEFINE j == caller[c].inst  t == caller[c].task
  <2>1. j \in Insts /\ t \in Task
    BY <1>0, <1>4 DEF ThreadsOK, AddToActiveSyncs
  <2>2. PICK pc \in Submitting : Goto(c, pc)
    BY <1>4 DEF AddToActiveSyncs, Submitting
  <2>3. CallerBecomes(c, pc, t, j, caller[c].restarting, caller[c].todo)
    BY <1>0, <2>2, GotoEffect DEF CallerPc, Submitting
  <2>4. caller[c].pc \notin Submitting /\ UNCHANGED <<queue, worker, shut, lost>>
    BY <1>4 DEF AddToActiveSyncs, Submitting
  <2>5. \A i \in Insts, s \in SyncIds : Owned(i, s) => Owned(i, s)'
    BY <2>3, <2>4, OwnedByCaller
  <2>6. ASSUME NEW i, NEW s, i = j, s = t.id
        PROVE  WillRemove(i, s)'
    BY <2>3, <2>6 DEF WillRemove, CallerBecomes, Submitting
  <2>7. \A i \in Insts : active'[i] = IF i = j THEN active[i] \union {t.id} ELSE active[i]
    BY <1>0, <1>4, <2>1 DEF AddToActiveSyncs, TypeOK
  <2>8. \A i \in Insts : active[i] \subseteq SyncIds
    BY <1>0 DEF TypeOK
  <2>9. ASSUME NEW i \in Insts, ~shut'[i], NEW s \in active'[i]
        PROVE  Owned(i, s)'
    <3>1. CASE s \in active[i]
      <4>1. Owned(i, s)
        BY <2>4, <2>9, <3>1 DEF ActiveIsOwned, Owned
      <4>2. QED
        BY <2>5, <2>8, <3>1, <4>1
    <3>2. CASE s \notin active[i]
      <4>1. i = j /\ s = t.id
        BY <2>7, <2>9, <3>2
      <4>2. QED
        BY <2>6, <4>1 DEF Owned
    <3>3. QED
      BY <3>1, <3>2
  <2>10. QED
    BY <2>9 DEF ActiveIsOwned, Owned
<1>5. CASE MarkRunning(c)
  <2> DEFINE j == caller[c].inst  t == caller[c].task
  <2>1. UNCHANGED <<queue, worker, active, shut>>
    BY <1>5 DEF MarkRunning
  <2>2. CASE HasRow(t.id)
    <3>1. CallerBecomes(c, "execute", t, j, caller[c].restarting, caller[c].todo)
      BY <1>0, <1>5, <2>2, GotoEffect DEF CallerPc, MarkRunning
    <3>2. UNCHANGED lost
      BY <1>5, <2>2 DEF MarkRunning
    <3>3. \A i \in Insts, s \in SyncIds : Owned(i, s) => Owned(i, s)'
      BY <2>1, <3>1, <3>2, OwnedByCaller DEF Submitting
    <3>4. QED
      BY <1>0, <2>1, <3>3, ActiveUnchanged
  <2>3. CASE ~HasRow(t.id)
    <3>1. CallerIdles(c)
      BY <1>0, <1>5, <2>3, ThrowEffect DEF MarkRunning
    <3>2. lost' = lost \union {<<j, t.id>>}
      BY <1>5, <2>3 DEF MarkRunning
    <3>3. \A i \in Insts, s \in SyncIds : Owned(i, s) => Owned(i, s)'
      BY <2>1, <3>1, <3>2 DEF Owned, WillRemove, CallerIdles, CallerBecomes
    <3>4. QED
      BY <1>0, <2>1, <3>3, ActiveUnchanged
  <2>4. QED
    BY <2>2, <2>3
<1>6. CASE Execute(c)
  <2> DEFINE j == caller[c].inst  t == caller[c].task
  <2>1. j \in Insts /\ t \in Task
    BY <1>0, <1>6 DEF ThreadsOK, Execute
  <2>2. UNCHANGED <<worker, active, shut>>
    BY <1>6 DEF Execute
  <2>3. CASE shut[j]
    <3>1. CallerIdles(c)
      BY <1>0, <1>6, <2>3, ThrowEffect DEF Execute
    <3>2. lost' = lost \union {<<j, t.id>>} /\ UNCHANGED queue
      BY <1>6, <2>3 DEF Execute
    <3>3. \A i \in Insts, s \in SyncIds : Owned(i, s) => Owned(i, s)'
      BY <2>2, <3>1, <3>2 DEF Owned, WillRemove, CallerIdles, CallerBecomes
    <3>4. QED
      BY <1>0, <2>2, <3>3, ActiveUnchanged
  <2>4. CASE ~shut[j]
    <3>1. \/ CallerBecomes(c, "restartNext", NoTask, j, TRUE, caller[c].todo)
          \/ CallerIdles(c)
      BY <1>0, <1>6, <2>4, ReturnEffect DEF Execute
    <3>2. queue' = [queue EXCEPT ![j] = Append(@, t)] /\ UNCHANGED lost
      BY <1>6, <2>4 DEF Execute
    <3>3. /\ Range(queue'[j]) = Range(queue[j]) \union {t}
          /\ \A i \in Insts : Range(queue[i]) \subseteq Range(queue'[i])
      BY <1>0, <2>1, <3>2, RangeAppend DEF TypeOK
    <3>4. \A d \in Callers \ {c} : caller'[d] = caller[d]
      BY <3>1 DEF CallerIdles, CallerBecomes
    <3>5. \A i \in Insts, s \in SyncIds : Owned(i, s) => Owned(i, s)'
      BY <2>2, <3>2, <3>3, <3>4 DEF Owned, WillRemove
    <3>6. QED
      BY <1>0, <2>2, <3>5, ActiveUnchanged
  <2>5. QED
    BY <2>3, <2>4
<1>7. CASE RestartQuery(c)
  <2>1. CallerBecomes(c, "restartNext", caller[c].task, caller[c].inst,
                      caller[c].restarting, RowsWith("STOPPED"))
    BY <1>0, <1>7 DEF TypeOK, Caller, CallerPc, CallerBecomes, RestartQuery, RowsWith
  <2>2. caller[c].pc \notin Submitting /\ UNCHANGED <<queue, worker, active, shut, lost>>
    BY <1>7 DEF RestartQuery, Submitting
  <2>3. \A i \in Insts, r \in SyncIds : Owned(i, r) => Owned(i, r)'
    BY <2>1, <2>2, OwnedByCaller
  <2>4. QED
    BY <1>0, <2>2, <2>3, ActiveUnchanged
<1>8. CASE RestartNext(c)
  <2>1. PICK s \in caller[c].todo :
           IF HasRow(s)
           THEN /\ caller' = [caller EXCEPT ![c] =
                                [caller[c] EXCEPT !.pc = "checkNotRunning",
                                                  !.todo = @ \ {s},
                                                  !.task = [kind |-> "sync", id |-> s]]]
                /\ UNCHANGED monitor
           ELSE Throw(c)
    BY <1>8 DEF RestartNext
  <2>2. \/ CallerBecomes(c, "checkNotRunning", [kind |-> "sync", id |-> s], caller[c].inst,
                         caller[c].restarting, caller[c].todo \ {s})
        \/ CallerIdles(c)
    BY <1>0, <2>1, NextEffect, ThrowEffect
  <2>3. caller[c].pc \notin Submitting /\ UNCHANGED <<queue, worker, active, shut, lost>>
    BY <1>8 DEF RestartNext, Submitting
  <2>4. \A i \in Insts, r \in SyncIds : Owned(i, r) => Owned(i, r)'
    BY <2>2, <2>3, OwnedByCaller DEF CallerIdles
  <2>5. QED
    BY <1>0, <2>3, <2>4, ActiveUnchanged
<1>9. QED
  BY <1>1, <1>2, <1>3, <1>4, <1>5, <1>6, <1>7, <1>8 DEF CallerStep

LEMMA CallerCallActive ==
  ASSUME TypeInv, ActiveIsOwned, NEW c \in Callers, CallerCall(c)
  PROVE  ActiveIsOwned'
<1>0. TypeOK
  BY DEF TypeInv
<1>1. CASE GetInstance(c) \/ RestartStoppedSyncs(c)
  <2>1. PICK pc, task, inst, restarting, todo :
           CallerBecomes(c, pc, task, inst, restarting, todo)
    <3>1. CASE GetInstance(c)
      <4>1. CallerBecomes(c, "cleanup", caller[c].task, caller[c].inst, caller[c].restarting,
                          RowsWith("RUNNING"))
        BY <1>0, <3>1 DEF TypeOK, Caller, CallerPc, CallerBecomes, GetInstance,
                          InterruptedSyncs, RowsWith
      <4>2. QED
        BY <4>1
    <3>2. CASE RestartStoppedSyncs(c)
      <4>1. CallerBecomes(c, "restartQuery", caller[c].task, cur, TRUE, caller[c].todo)
        BY <1>0, <3>2 DEF TypeOK, Caller, CallerPc, CallerBecomes, RestartStoppedSyncs
      <4>2. QED
        BY <4>1
    <3>3. QED
      BY <1>1, <3>1, <3>2
  <2>2. caller[c].pc \notin Submitting /\ UNCHANGED <<queue, worker, active, shut, lost>>
    BY <1>1 DEF GetInstance, RestartStoppedSyncs, Idle, Submitting
  <2>3. \A i \in Insts, r \in SyncIds : Owned(i, r) => Owned(i, r)'
    BY <2>1, <2>2, OwnedByCaller
  <2>4. QED
    BY <1>0, <2>2, <2>3, ActiveUnchanged
<1>2. CASE Stop(c) \/ Restart(c)
  BY <1>2 DEF Stop, Restart, ActiveIsOwned, WillRemove
<1>3. CASE Reset(c)
  <2>1. \A i \in Insts : ~shut'[i] => ~shut[i] /\ queue'[i] = queue[i]
    BY <1>0, <1>3 DEF TypeOK, Reset
  <2>2. UNCHANGED <<worker, caller, active, lost>>
    BY <1>3 DEF Reset
  <2>3. QED
    BY <2>1, <2>2 DEF ActiveIsOwned, WillRemove
<1>4. ASSUME NEW s \in SyncIds, CreateSync(c, s) \/ ReSync(c, s) \/ CleanResyncGhosts(c, s)
      PROVE  ActiveIsOwned'
  <2>1. caller[c].pc \notin Submitting /\ UNCHANGED <<queue, worker, active, shut, lost>>
    BY <1>4 DEF CreateSync, ReSync, CleanResyncGhosts, Idle, Submitting
  <2>2. UNCHANGED caller \/ \E kind \in Kind : Submit(c, kind, s)
    BY <1>4 DEF CreateSync, ReSync, CleanResyncGhosts, Kind
  <2>3. CASE UNCHANGED caller
    BY <2>1, <2>3 DEF ActiveIsOwned, WillRemove
  <2>4. ASSUME NEW kind \in Kind, Submit(c, kind, s)
        PROVE  ActiveIsOwned'
    <3>1. CallerBecomes(c, "checkNotRunning", [kind |-> kind, id |-> s], cur,
                        caller[c].restarting, caller[c].todo)
      BY <1>0, <2>4, SubmitEffect
    <3>2. \A i \in Insts, r \in SyncIds : Owned(i, r) => Owned(i, r)'
      BY <2>1, <3>1, OwnedByCaller
    <3>3. QED
      BY <1>0, <2>1, <3>2, ActiveUnchanged
  <2>5. QED
    BY <2>2, <2>3, <2>4
<1>5. ASSUME NEW s \in SyncIds, DeleteSync(c, s)
      PROVE  ActiveIsOwned'
  BY <1>5 DEF DeleteSync, ActiveIsOwned, WillRemove
<1>6. QED
  BY <1>1, <1>2, <1>3, <1>4, <1>5 DEF CallerCall

LEMMA WorkerStepActive ==
  ASSUME TypeInv, ActiveIsOwned, NEW i \in Insts, WorkerStep(i)
  PROVE  ActiveIsOwned'
<1>0. TypeOK
  BY DEF TypeInv
<1>1. CASE TakeTask(i)
  <2>1. UNCHANGED <<active, shut, caller, lost>>
    BY <1>1 DEF TakeTask
  <2>2. Range(queue[i]) = Range(Tail(queue[i])) \union {Head(queue[i])}
    BY <1>0, <1>1, RangeHeadTail DEF TypeOK, TakeTask
  <2>3. /\ worker'[i].pc = "check" /\ worker'[i].task = Head(queue[i])
        /\ \A j \in Insts \ {i} : worker'[j] = worker[j]
    BY <1>0, <1>1 DEF TypeOK, TakeTask, IdleWorker
  <2>4. queue'[i] = Tail(queue[i]) /\ \A j \in Insts \ {i} : queue'[j] = queue[j]
    BY <1>0, <1>1 DEF TypeOK, TakeTask
  <2>5. worker[i].pc = "idle"
    BY <1>1 DEF TakeTask
  <2>6. \A j \in Insts, s \in SyncIds : Owned(j, s) => Owned(j, s)'
    BY <2>1, <2>2, <2>3, <2>4, <2>5 DEF Owned, WillRemove
  <2>7. QED
    BY <1>0, <2>1, <2>6, ActiveUnchanged
<1>2. CASE \/ RunPage(i) \/ RunDone(i) \/ RunFailed(i) \/ RunGhosts(i) \/ SaveFinal(i)
           \/ CheckIfStopRequested(i) /\ UNCHANGED lost
  <2>1. UNCHANGED <<active, shut, caller, queue, lost>>
    BY <1>2 DEF RunPage, RunDone, RunFailed, RunGhosts, SaveFinal, CheckIfStopRequested
  <2>2. worker[i].pc # "idle"
    BY <1>2 DEF RunPage, RunDone, RunFailed, RunGhosts, SaveFinal, CheckIfStopRequested
  <2>3. \/ \E pc \in {"check", "run", "save", "remove"} : WorkerBecomes(i, pc, worker[i].task)
        \/ WorkerBecomes(i, "idle", NoTask) /\ <<i, worker[i].task.id>> \in lost
    BY <1>0, <1>2, PageEffect, WorkerGotoEffect, WorkerSaveEffect, SaveThrowEffect,
       WorkerIdleEffect
    DEF RunPage, RunDone, RunFailed, RunGhosts, SaveFinal, CheckIfStopRequested, StopReported,
        WorkerPc, FinalStatus
  <2>4. ASSUME WorkerBecomes(i, "idle", NoTask), <<i, worker[i].task.id>> \in lost
        PROVE  \A j \in Insts, s \in SyncIds : Owned(j, s) => Owned(j, s)'
    BY <2>1, <2>4 DEF Owned, WillRemove, WorkerBecomes
  <2>5. \A j \in Insts, s \in SyncIds : Owned(j, s) => Owned(j, s)'
    BY <2>1, <2>2, <2>3, <2>4, OwnedByWorker
  <2>6. QED
    BY <1>0, <2>1, <2>5, ActiveUnchanged
<1>3. CASE RunRevoked(i) \/ (CheckIfStopRequested(i) /\ ~UNCHANGED lost)
  <2>1. UNCHANGED <<active, shut, caller, queue>>
    BY <1>3 DEF RunRevoked, CheckIfStopRequested
  <2>2. /\ worker' = [worker EXCEPT ![i] = IdleWorker]
        /\ lost' = lost \union {<<i, worker[i].task.id>>}
    BY <1>3 DEF RunRevoked, CheckIfStopRequested
  <2>3. WorkerBecomes(i, "idle", NoTask)
    BY <1>0, <2>2, WorkerIdleEffect
  <2>4. \A j \in Insts, s \in SyncIds : Owned(j, s) => Owned(j, s)'
    BY <2>1, <2>2, <2>3 DEF Owned, WillRemove, WorkerBecomes
  <2>5. QED
    BY <1>0, <2>1, <2>4, ActiveUnchanged
<1>4. CASE RemoveFromActiveSyncs(i)
  <2>1. UNCHANGED <<shut, caller, queue, lost>>
    BY <1>4 DEF RemoveFromActiveSyncs
  <2>2. WorkerBecomes(i, "save", worker[i].task) \/ WorkerBecomes(i, "idle", NoTask)
    BY <1>0, <1>4, WorkerSaveEffect, WorkerIdleEffect DEF RemoveFromActiveSyncs, FinalStatus
  <2>3. \A j \in Insts : active'[j] =
           IF j = i THEN active[j] \ {worker[i].task.id} ELSE active[j]
    BY <1>0, <1>4 DEF TypeOK, RemoveFromActiveSyncs
  <2>4. \A j \in Insts, s \in SyncIds : s \in active'[j] /\ Owned(j, s) => Owned(j, s)'
    BY <2>1, <2>2, <2>3, ZenonT(30) DEF Owned, WillRemove, WorkerBecomes
  <2>5. QED
    BY <1>0, <2>1, <2>3, <2>4, ActiveFrame
<1>5. QED
  BY <1>1, <1>2, <1>3, <1>4 DEF WorkerStep

LEMMA NextActive == TypeInv /\ ActiveIsOwned /\ [Next]_vars => ActiveIsOwned'
<1> SUFFICES ASSUME TypeInv, ActiveIsOwned, [Next]_vars
             PROVE  ActiveIsOwned'
  OBVIOUS
<1>1. CASE UNCHANGED vars
  BY <1>1 DEF ActiveIsOwned, WillRemove
<1>2. CASE Crash
  BY <1>2 DEF ActiveIsOwned, Crash
<1>3. QED
  BY <1>1, <1>2, CallerCallActive, CallerStepActive, WorkerStepActive DEF Next

\* An id in activeSyncs always has a task that will take it out, whatever the
\* threads do, except for a task the code itself drops and a manager that was
\* reset: checkNotRunning() refuses no sync for ever, and no stop() waits for a
\* task that is not there.
THEOREM ActiveSyncsAreOwned == Spec => []ActiveIsOwned
<1>1. Init => ActiveIsOwned
  BY DEF Init, ActiveIsOwned
<1>2. QED
  BY <1>1, NextActive, TypeInvariant, PTL DEF Spec
----------------------------------------------------------------------------
\* One thread calls the manager, which is never reset.
Serial == "reset" \notin Ops /\ \A c, d \in Callers : c = d

Submitted == {"checkNotRunning", "checkAccepting", "add", "markRunning", "execute"}

\* Without reset() only the registered instance has work.
OnlyCurrent ==
    \A i \in Insts : i # cur => queue[i] = <<>> /\ worker[i].pc = "idle" /\ active[i] = {}

\* What runSync() has checked stays true until it has handed its task over.
CallerOK(c) ==
    LET t == caller[c].task IN
    /\ caller[c].pc \in Submitted \union {"restartQuery", "restartNext"} => caller[c].inst = cur
    /\ caller[c].pc \in Submitted => HasRow(t.id)
    /\ caller[c].pc \in {"checkAccepting", "add"} => t.id \notin active[cur]
    /\ At(c, "add") => Accepting(cur)
    /\ caller[c].pc \in {"markRunning", "execute"} =>
          /\ t.id \in active[cur]
          /\ \A n \in DOMAIN queue[cur] : queue[cur][n].id # t.id
          /\ worker[cur].pc # "idle" => worker[cur].task.id # t.id
    /\ At(c, "execute") /\ t.kind = "sync" => store[t.id] = "RUNNING"
    /\ At(c, "cleanup") => \A s \in caller[c].todo : store[s] = "RUNNING"

\* A task in the queue is active, is the only one of its sync, and has marked
\* the row.
QueueOK(i, n) ==
    LET t == queue[i][n] IN
    /\ t.id \in active[i]
    /\ store[t.id] # "ABSENT"
    /\ t.kind = "sync" => store[t.id] \in {"RUNNING", "DELETED"}
    /\ worker[i].pc # "idle" => worker[i].task.id # t.id
    /\ \A m \in DOMAIN queue[i] : queue[i][m].id = t.id => m = n

\* So is the one on the thread, but a task whose row is gone may report twice.
WorkerOK(i) ==
    LET t == worker[i].task IN
    worker[i].pc # "idle" =>
        /\ store[t.id] # "ABSENT"
        /\ t.id \in active[i] \/ store[t.id] = "DELETED"
        /\ worker[i].pc \in {"check", "run", "save"} /\ t.kind = "sync" =>
              store[t.id] \in {"RUNNING", "DELETED"}
        /\ worker[i].threw => worker[i].pc = "remove" /\ store[t.id] = "DELETED"
        /\ worker[i].pc = "save" \/ worker[i].threw => t.kind = "sync"

CallerInv  == \A c \in Callers : CallerOK(c)
QueueInv   == \A i \in Insts : \A n \in DOMAIN queue[i] : QueueOK(i, n)
WorkerInv  == \A i \in Insts : WorkerOK(i)
StoppedInv == \A i \in Insts : state[i] = "STOPPED" => active[i] = {}

SerialInv == OnlyCurrent /\ CallerInv /\ QueueInv /\ WorkerInv /\ StoppedInv
----------------------------------------------------------------------------
LEMMA IdleIsOK ==
  ASSUME NEW c \in Callers, CallerIdles(c)
  PROVE  CallerOK(c)'
  BY DEF CallerIdles, CallerBecomes, CallerOK, Submitted

\* A step of a caller that touches nothing but itself and the row of no task.
LEMMA CallerAlone ==
  ASSUME Serial, SerialInv, NEW c \in Callers, CallerOK(c)',
         UNCHANGED <<store, cur, active, queue, worker>>,
         \A i \in Insts : state'[i] = "STOPPED" => state[i] = "STOPPED" \/ active[i] = {}
  PROVE  SerialInv'
<1>1. OnlyCurrent'
  BY DEF SerialInv, OnlyCurrent
<1>2. CallerInv'
  BY DEF Serial, CallerInv
<1>3. QueueInv'
  BY DEF SerialInv, QueueInv, QueueOK
<1>4. WorkerInv'
  BY DEF SerialInv, WorkerInv, WorkerOK
<1>5. StoppedInv'
  BY DEF SerialInv, StoppedInv
<1>6. QED
  BY <1>1, <1>2, <1>3, <1>4, <1>5 DEF SerialInv

LEMMA InitSerial == Init => SerialInv
  BY DEF Init, SerialInv, OnlyCurrent, CallerInv, CallerOK, QueueInv, WorkerInv, WorkerOK,
         StoppedInv, IdleCaller, IdleWorker, Submitted

LEMMA CallerStepSerial ==
  ASSUME Serial, TypeInv, SerialInv, NEW c \in Callers, CallerStep(c)
  PROVE  SerialInv'
<1>0. TypeOK /\ ThreadsOK /\ ConstructorOK /\ CallerOK(c) /\ \A d \in Callers : d = c
  BY DEF TypeInv, SerialInv, CallerInv, Serial
<1>1. CASE CleanupRow(c)
  <2>1. PICK s \in caller[c].todo :
           IF HasRow(s)
           THEN /\ store' = [store EXCEPT ![s] = "STOPPED"]
                /\ caller' = [caller EXCEPT ![c].todo = @ \ {s}]
           ELSE /\ caller' = [caller EXCEPT ![c] = IdleCaller]
                /\ UNCHANGED store
    BY <1>1 DEF CleanupRow
  <2>2. CASE HasRow(s)
    <3>1. CallerBecomes(c, "cleanup", caller[c].task, caller[c].inst, caller[c].restarting,
                        caller[c].todo \ {s})
      BY <1>0, <1>1, <2>1, <2>2, CleanupEffect DEF CleanupRow
    <3>2. UNCHANGED <<cur, active, queue, worker, state>> /\ cur = NoInst
      BY <1>0, <1>1 DEF CleanupRow, ConstructorOK
    <3>3. \A i \in Insts : queue[i] = <<>> /\ worker[i].pc = "idle"
      BY <3>2 DEF SerialInv, OnlyCurrent
    <3>4. CallerOK(c)'
      <4>1. caller[c].todo \subseteq SyncIds
        BY <1>0 DEF TypeOK, Caller
      <4>2. \A r \in caller'[c].todo : store'[r] = "RUNNING"
        BY <1>0, <1>1, <2>1, <2>2, <3>1, <4>1 DEF TypeOK, CallerOK, CallerBecomes, CleanupRow
      <4>3. QED
        BY <3>1, <4>2 DEF CallerOK, CallerBecomes, Submitted
    <3>5. QueueInv' /\ WorkerInv'
      BY <3>2, <3>3 DEF QueueInv, WorkerInv, WorkerOK
    <3>6. OnlyCurrent' /\ StoppedInv' /\ CallerInv'
      BY <1>0, <3>2, <3>4 DEF SerialInv, OnlyCurrent, StoppedInv, CallerInv
    <3>7. QED
      BY <3>5, <3>6 DEF SerialInv
  <2>3. CASE ~HasRow(s)
    <3>1. CallerIdles(c)
      BY <1>0, <2>1, <2>3, IdleEffect
    <3>2. UNCHANGED <<store, cur, active, queue, worker, state>>
      BY <1>1, <2>1, <2>3 DEF CleanupRow
    <3>3. QED
      BY <3>1, <3>2, IdleIsOK, CallerAlone
  <2>4. QED
    BY <2>2, <2>3
<1>2. CASE RegisterInstance(c)
  <2>1. CallerIdles(c)
    BY <1>0, <1>2, IdleEffect DEF RegisterInstance
  <2>2. UNCHANGED <<store, active, queue, worker, state>> /\ cur = NoInst
    BY <1>0, <1>2 DEF RegisterInstance, ConstructorOK
  <2>3. CallerInv'
    BY <1>0, <2>1, IdleIsOK DEF CallerInv
  <2>4. OnlyCurrent'
    BY <2>2 DEF SerialInv, OnlyCurrent
  <2>5. QueueInv' /\ WorkerInv' /\ StoppedInv'
    BY <2>2 DEF SerialInv, QueueInv, QueueOK, WorkerInv, WorkerOK, StoppedInv
  <2>6. QED
    BY <2>3, <2>4, <2>5 DEF SerialInv
<1>3. CASE CheckNotRunning(c)
  <2>1. UNCHANGED <<store, cur, active, queue, worker, state>>
    BY <1>3 DEF CheckNotRunning
  <2>2. CASE Throw(c)
    BY <1>0, <2>1, <2>2, ThrowEffect, IdleIsOK, CallerAlone
  <2>3. CASE Goto(c, "checkAccepting") /\ ~StillRunning(caller[c].inst, caller[c].task.id)
    <3>1. CallerBecomes(c, "checkAccepting", caller[c].task, caller[c].inst,
                        caller[c].restarting, caller[c].todo)
      BY <1>0, <2>3, GotoEffect DEF CallerPc
    <3>2. CallerOK(c)'
      BY <1>0, <1>3, <2>1, <2>3, <3>1
      DEF CallerOK, CallerBecomes, CheckNotRunning, StillRunning, Submitted, HasRow
    <3>3. QED
      BY <2>1, <3>2, CallerAlone
  <2>4. QED
    BY <1>3, <2>2, <2>3 DEF CheckNotRunning
<1>4. CASE CheckAccepting(c)
  <2>1. UNCHANGED <<store, cur, active, queue, worker, state>>
    BY <1>4 DEF CheckAccepting
  <2>2. CASE Throw(c)
    BY <1>0, <2>1, <2>2, ThrowEffect, IdleIsOK, CallerAlone
  <2>3. CASE Goto(c, "add") /\ Accepting(caller[c].inst)
    <3>1. CallerBecomes(c, "add", caller[c].task, caller[c].inst,
                        caller[c].restarting, caller[c].todo)
      BY <1>0, <2>3, GotoEffect DEF CallerPc
    <3>2. CallerOK(c)'
      BY <1>0, <1>4, <2>1, <2>3, <3>1
      DEF CallerOK, CallerBecomes, CheckAccepting, Accepting, Submitted, HasRow
    <3>3. QED
      BY <2>1, <3>2, CallerAlone
  <2>4. QED
    BY <1>4, <2>2, <2>3 DEF CheckAccepting
<1>5. CASE RestartQuery(c)
  <2>1. CallerBecomes(c, "restartNext", caller[c].task, caller[c].inst,
                      caller[c].restarting, RowsWith("STOPPED"))
    BY <1>0, <1>5 DEF TypeOK, Caller, CallerPc, CallerBecomes, RestartQuery, RowsWith
  <2>2. UNCHANGED <<store, cur, active, queue, worker, state>>
    BY <1>5 DEF RestartQuery
  <2>3. CallerOK(c)'
    BY <1>0, <1>5, <2>1, <2>2 DEF CallerOK, CallerBecomes, RestartQuery, Submitted
  <2>4. QED
    BY <2>2, <2>3, CallerAlone
<1>6. CASE RestartNext(c)
  <2>1. PICK s \in caller[c].todo :
           IF HasRow(s)
           THEN /\ caller' = [caller EXCEPT ![c] =
                                [caller[c] EXCEPT !.pc = "checkNotRunning",
                                                  !.todo = @ \ {s},
                                                  !.task = [kind |-> "sync", id |-> s]]]
                /\ UNCHANGED monitor
           ELSE Throw(c)
    BY <1>6 DEF RestartNext
  <2>2. UNCHANGED <<store, cur, active, queue, worker, state>>
    BY <1>6 DEF RestartNext
  <2>3. CASE ~HasRow(s)
    BY <1>0, <2>1, <2>2, <2>3, ThrowEffect, IdleIsOK, CallerAlone
  <2>4. CASE HasRow(s)
    <3>1. CallerBecomes(c, "checkNotRunning", [kind |-> "sync", id |-> s], caller[c].inst,
                        caller[c].restarting, caller[c].todo \ {s})
      BY <1>0, <2>1, <2>4, NextEffect
    <3>2. CallerOK(c)'
      BY <1>0, <1>6, <2>2, <2>4, <3>1
      DEF CallerOK, CallerBecomes, RestartNext, Submitted, HasRow
    <3>3. QED
      BY <2>2, <3>2, CallerAlone
  <2>5. QED
    BY <2>3, <2>4
<1>7. CASE RestartDone(c)
  <2>1. CallerIdles(c) /\ UNCHANGED <<store, cur, active, queue, worker, state>>
    BY <1>0, <1>7, IdleEffect DEF RestartDone
  <2>2. QED
    BY <2>1, IdleIsOK, CallerAlone
<1>8. CASE AddToActiveSyncs(c)
  <2> DEFINE t == caller[c].task
  <2>1. t \in Task /\ cur \in Insts /\ caller[c].inst = cur /\ t.id \in SyncIds
    BY <1>0, <1>8 DEF ThreadsOK, AddToActiveSyncs, CallerOK, Submitted, Task
  <2>2. PICK pc \in {"markRunning", "execute"} :
           Goto(c, pc) /\ (t.kind = "sync" => pc = "markRunning")
    BY <1>8 DEF AddToActiveSyncs
  <2>3. CallerBecomes(c, pc, t, cur, caller[c].restarting, caller[c].todo)
    BY <1>0, <2>1, <2>2, GotoEffect DEF CallerPc
  <2>4. UNCHANGED <<store, cur, queue, worker, state>>
    BY <1>8 DEF AddToActiveSyncs
  <2>5. \A i \in Insts : active'[i] = IF i = cur THEN active[i] \union {t.id} ELSE active[i]
    BY <1>0, <1>8, <2>1 DEF AddToActiveSyncs, TypeOK
  <2>6. t.id \notin active[cur] /\ Accepting(cur) /\ HasRow(t.id)
    BY <1>0, <1>8 DEF CallerOK, AddToActiveSyncs, Submitted
  <2>7. \A n \in DOMAIN queue[cur] : queue[cur][n].id # t.id
    BY <2>1, <2>6 DEF SerialInv, QueueInv, QueueOK
  <2>8. worker[cur].pc # "idle" => worker[cur].task.id # t.id
    BY <2>1, <2>6 DEF SerialInv, WorkerInv, WorkerOK, HasRow
  <2>9. CallerOK(c)'
    BY <2>1, <2>2, <2>3, <2>4, <2>5, <2>6, <2>7, <2>8
    DEF CallerOK, CallerBecomes, Submitted, HasRow
  <2>10. CallerInv' /\ OnlyCurrent' /\ StoppedInv'
    BY <1>0, <2>4, <2>5, <2>6, <2>9
    DEF SerialInv, CallerInv, OnlyCurrent, StoppedInv, Accepting
  <2>11. QueueInv'
    <3>1. \A i \in Insts : active[i] \subseteq active'[i]
      BY <2>5
    <3> HIDE DEF t
    <3>2. QED
      BY <2>4, <3>1 DEF SerialInv, QueueInv, QueueOK
  <2>12. WorkerInv'
    BY <2>4, <2>5 DEF SerialInv, WorkerInv, WorkerOK
  <2>13. QED
    BY <2>10, <2>11, <2>12 DEF SerialInv
<1>9. CASE MarkRunning(c)
  <2> DEFINE t == caller[c].task
  <2>1. t \in Task /\ cur \in Insts /\ caller[c].inst = cur /\ t.id \in SyncIds
    BY <1>0, <1>9 DEF ThreadsOK, MarkRunning, CallerOK, Submitted, Task
  <2>2. HasRow(t.id)
    BY <1>0, <1>9 DEF MarkRunning, CallerOK, Submitted
  <2>3. CallerBecomes(c, "execute", t, cur, caller[c].restarting, caller[c].todo)
    BY <1>0, <1>9, <2>1, <2>2, GotoEffect DEF CallerPc, MarkRunning
  <2>4. UNCHANGED <<cur, active, queue, worker, state>>
    BY <1>9 DEF MarkRunning
  <2>5. \A s \in SyncIds : store'[s] = IF s = t.id THEN "RUNNING" ELSE store[s]
    BY <1>0, <1>9, <2>1, <2>2 DEF MarkRunning, TypeOK
  <2>6. /\ t.id \in active[cur]
        /\ \A n \in DOMAIN queue[cur] : queue[cur][n].id # t.id
        /\ worker[cur].pc # "idle" => worker[cur].task.id # t.id
    BY <1>0, <1>9 DEF MarkRunning, CallerOK
  <2>7. CallerOK(c)'
    BY <2>1, <2>3, <2>4, <2>5, <2>6 DEF CallerOK, CallerBecomes, Submitted, HasRow
  <2>8. CallerInv' /\ OnlyCurrent' /\ StoppedInv'
    BY <1>0, <2>4, <2>7 DEF SerialInv, CallerInv, OnlyCurrent, StoppedInv
  <2>9. ASSUME NEW i \in Insts, NEW n \in DOMAIN queue[i]
        PROVE  QueueOK(i, n)'
    <3>1. QueueOK(i, n) /\ i = cur
      BY DEF SerialInv, QueueInv, OnlyCurrent
    <3>2. queue[i][n] \in Task
      BY <1>0, <2>9, ElementOfSeq, LenProperties DEF TypeOK
    <3>3. queue[i][n].id \in SyncIds /\ queue[i][n].id # t.id
      BY <2>6, <3>1, <3>2 DEF Task
    <3>4. QED
      BY <2>4, <2>5, <3>1, <3>3 DEF QueueOK
  <2>10. ASSUME NEW i \in Insts
         PROVE  WorkerOK(i)'
    <3>1. CASE worker[i].pc = "idle"
      BY <2>4, <3>1 DEF WorkerOK
    <3>2. CASE worker[i].pc # "idle"
      <4>1. i = cur /\ WorkerOK(i) /\ worker[i].task.id \in SyncIds
        BY <1>0, <3>2 DEF SerialInv, OnlyCurrent, WorkerInv, ThreadsOK, Task
      <4>2. worker[i].task.id # t.id
        BY <2>6, <3>2, <4>1
      <4>3. QED
        BY <2>4, <2>5, <4>1, <4>2 DEF WorkerOK
    <3>3. QED
      BY <3>1, <3>2
  <2>11. QED
    BY <2>4, <2>8, <2>9, <2>10 DEF SerialInv, QueueInv, WorkerInv
<1>10. CASE Execute(c)
  <2> DEFINE t == caller[c].task
  <2>1. t \in Task /\ cur \in Insts /\ caller[c].inst = cur
    BY <1>0, <1>10 DEF ThreadsOK, Execute, CallerOK, Submitted
  <2>2. UNCHANGED <<store, cur, active, worker, state>>
    BY <1>10 DEF Execute
  <2>3. CASE shut[cur]
    <3>1. CallerIdles(c) /\ UNCHANGED queue
      BY <1>0, <1>10, <2>1, <2>3, ThrowEffect DEF Execute
    <3>2. QED
      BY <2>2, <3>1, IdleIsOK, CallerAlone
  <2>4. CASE ~shut[cur]
    <3>1. \/ CallerBecomes(c, "restartNext", NoTask, cur, TRUE, caller[c].todo)
          \/ CallerIdles(c)
      BY <1>0, <1>10, <2>1, <2>4, ReturnEffect DEF Execute
    <3>2. queue' = [queue EXCEPT ![cur] = Append(@, t)]
      BY <1>10, <2>1, <2>4 DEF Execute
    <3>3. \A i \in Insts : queue'[i] = IF i = cur THEN Append(queue[cur], t) ELSE queue[i]
      BY <1>0, <2>1, <3>2 DEF TypeOK
    <3>4. /\ DOMAIN queue[cur] = 1 .. Len(queue[cur])
          /\ Len(queue[cur]) \in Nat
          /\ DOMAIN queue'[cur] = 1 .. Len(queue[cur]) + 1
          /\ \A n \in 1 .. Len(queue[cur]) : queue'[cur][n] = queue[cur][n]
          /\ queue'[cur][Len(queue[cur]) + 1] = t
      <4>1. queue[cur] \in Seq(Task)
        BY <1>0, <2>1 DEF TypeOK
      <4>2. queue'[cur] = Append(queue[cur], t)
        BY <2>1, <3>3
      <4> HIDE DEF t
      <4>3. QED
        BY <2>1, <4>1, <4>2, AppendProperties, LenProperties
    <3> HIDE DEF t
    <3>5. CallerOK(c)'
      BY <2>1, <2>2, <3>1 DEF CallerOK, CallerBecomes, CallerIdles, Submitted
    <3>6. CallerInv' /\ OnlyCurrent' /\ WorkerInv' /\ StoppedInv'
      BY <1>0, <2>2, <3>3, <3>5
      DEF SerialInv, CallerInv, OnlyCurrent, WorkerInv, WorkerOK, StoppedInv
    <3>7. /\ t.id \in active[cur]
          /\ \A n \in DOMAIN queue[cur] : queue[cur][n].id # t.id
          /\ worker[cur].pc # "idle" => worker[cur].task.id # t.id
          /\ store[t.id] # "ABSENT"
          /\ t.kind = "sync" => store[t.id] \in {"RUNNING", "DELETED"}
      BY <1>0, <1>10, SMTT(30) DEF Execute, CallerOK, Submitted, HasRow, t
    <3>8. ASSUME NEW n \in DOMAIN queue'[cur]
          PROVE  QueueOK(cur, n)'
      <4>1. CASE n \in DOMAIN queue[cur]
        <5>1. QueueOK(cur, n)
          BY <2>1, <4>1 DEF SerialInv, QueueInv
        <5>2. queue'[cur][n] = queue[cur][n]
          BY <3>4, <4>1
        <5>3. \A m \in DOMAIN queue'[cur] : queue'[cur][m].id = queue[cur][n].id => m = n
          BY <2>1, <3>4, <3>7, <4>1, <5>1 DEF QueueOK
        <5>4. QED
          BY <2>2, <5>1, <5>2, <5>3 DEF QueueOK
      <4>2. CASE n \notin DOMAIN queue[cur]
        <5>1. n = Len(queue[cur]) + 1 /\ queue'[cur][n] = t
          BY <3>4, <3>8, <4>2
        <5>2. \A m \in DOMAIN queue'[cur] : queue'[cur][m].id = t.id => m = n
          BY <3>4, <3>7, <5>1
        <5>3. QED
          BY <2>2, <3>7, <5>1, <5>2 DEF QueueOK
      <4>3. QED
        BY <4>1, <4>2
    <3>9. ASSUME NEW i \in Insts, NEW n \in DOMAIN queue'[i]
          PROVE  QueueOK(i, n)'
      <4>1. CASE i = cur
        BY <2>2, <3>8, <3>9, <4>1
      <4>2. CASE i # cur
        BY <2>2, <3>3, <3>9, <4>2 DEF SerialInv, OnlyCurrent
      <4>3. QED
        BY <4>1, <4>2
    <3>10. QED
      BY <3>6, <3>9 DEF SerialInv, QueueInv
  <2>5. QED
    BY <2>3, <2>4
<1>11. QED
  BY <1>1, <1>2, <1>3, <1>4, <1>5, <1>6, <1>7, <1>8, <1>9, <1>10 DEF CallerStep

\* A call that changes rows no task is to change.
LEMMA CallFrame ==
  ASSUME Serial, TypeInv, SerialInv, NEW c \in Callers, CallerOK(c)',
         UNCHANGED <<cur, active, queue, worker>>,
         \A s \in SyncIds : store[s] # "ABSENT" => store'[s] = store[s] \/ store'[s] = "DELETED",
         \A i \in Insts : state'[i] = "STOPPED" => state[i] = "STOPPED" \/ active[i] = {}
  PROVE  SerialInv'
<1>1. OnlyCurrent' /\ CallerInv' /\ StoppedInv'
  BY DEF SerialInv, Serial, OnlyCurrent, CallerInv, StoppedInv
<1>2. ASSUME NEW i \in Insts, NEW n \in DOMAIN queue[i]
      PROVE  QueueOK(i, n)'
  <2>1. queue[i][n] \in Task
    BY <1>2, ElementOfSeq, LenProperties DEF TypeInv, TypeOK
  <2>2. queue[i][n].id \in SyncIds /\ QueueOK(i, n)
    BY <2>1 DEF Task, SerialInv, QueueInv
  <2>3. QED
    BY <2>2 DEF QueueOK
<1>3. ASSUME NEW i \in Insts
      PROVE  WorkerOK(i)'
  <2>1. worker[i].pc # "idle" => worker[i].task.id \in SyncIds
    BY DEF TypeInv, ThreadsOK, Task
  <2>2. WorkerOK(i)
    BY DEF SerialInv, WorkerInv
  <2>3. QED
    BY <2>1, <2>2 DEF WorkerOK
<1>4. QED
  BY <1>1, <1>2, <1>3 DEF SerialInv, QueueInv, WorkerInv

LEMMA CallerCallSerial ==
  ASSUME Serial, TypeInv, SerialInv, NEW c \in Callers, CallerCall(c)
  PROVE  SerialInv'
<1>0. TypeOK /\ ThreadsOK /\ ConstructorOK
  BY DEF TypeInv
<1>1. CASE GetInstance(c)
  <2>1. CallerBecomes(c, "cleanup", caller[c].task, caller[c].inst, caller[c].restarting,
                      RowsWith("RUNNING"))
    BY <1>0, <1>1 DEF TypeOK, Caller, CallerPc, CallerBecomes, GetInstance,
                      InterruptedSyncs, RowsWith
  <2>2. UNCHANGED <<store, cur, active, queue, worker, state>>
    BY <1>1 DEF GetInstance
  <2>3. CallerOK(c)'
    BY <2>1, <2>2 DEF CallerOK, CallerBecomes, RowsWith, Submitted
  <2>4. QED
    BY <2>2, <2>3, CallerAlone
<1>2. CASE Stop(c) \/ Restart(c)
  <2>1. caller'[c].pc = "idle" /\ UNCHANGED <<store, cur, active, queue, worker>>
    BY <1>2 DEF Stop, Restart, Idle
  <2>2. CallerOK(c)'
    BY <2>1 DEF CallerOK, Submitted
  <2>3. \A i \in Insts : state'[i] = "STOPPED" => state[i] = "STOPPED" \/ active[i] = {}
    BY <1>0, <1>2 DEF TypeOK, Stop, Restart, StopState
  <2>4. QED
    BY <2>1, <2>2, <2>3, CallerAlone
<1>3. CASE RestartStoppedSyncs(c)
  <2>1. CallerBecomes(c, "restartQuery", caller[c].task, cur, TRUE, caller[c].todo)
    BY <1>0, <1>3 DEF TypeOK, Caller, CallerPc, CallerBecomes, RestartStoppedSyncs
  <2>2. UNCHANGED <<store, cur, active, queue, worker>>
    BY <1>3 DEF RestartStoppedSyncs
  <2>3. CallerOK(c)'
    BY <2>1, <2>2 DEF CallerOK, CallerBecomes, Submitted
  <2>4. \A i \in Insts : state'[i] = "STOPPED" => state[i] = "STOPPED"
    BY <1>0, <1>3 DEF TypeOK, RestartStoppedSyncs
  <2>5. QED
    BY <2>2, <2>3, <2>4, CallerAlone
<1>4. CASE Reset(c)
  BY <1>4 DEF Reset, Serial
<1>5. ASSUME NEW s \in SyncIds, CreateSync(c, s) \/ ReSync(c, s) \/ CleanResyncGhosts(c, s)
      PROVE  SerialInv'
  <2>1. UNCHANGED <<cur, active, queue, worker, state>> /\ caller[c].pc = "idle"
    BY <1>5 DEF CreateSync, ReSync, CleanResyncGhosts, Idle
  <2>2. /\ \A r \in SyncIds : store[r] # "ABSENT" => store'[r] = store[r]
        /\ HasRow(s)'
    BY <1>0, <1>5 DEF TypeOK, CreateSync, ReSync, CleanResyncGhosts, HasRow
  <2>3. UNCHANGED caller \/ \E kind \in Kind : Submit(c, kind, s)
    BY <1>5 DEF CreateSync, ReSync, CleanResyncGhosts, Kind
  <2>4. CASE UNCHANGED caller
    <3>1. CallerOK(c)'
      BY <2>1, <2>4 DEF CallerOK, Submitted
    <3>2. QED
      BY <2>1, <2>2, <3>1, CallFrame
  <2>5. ASSUME NEW kind \in Kind, Submit(c, kind, s)
        PROVE  SerialInv'
    <3>1. CallerBecomes(c, "checkNotRunning", [kind |-> kind, id |-> s], cur,
                        caller[c].restarting, caller[c].todo)
      BY <1>0, <2>5, SubmitEffect
    <3>2. CallerOK(c)'
      BY <2>1, <2>2, <3>1 DEF CallerOK, CallerBecomes, Submitted, HasRow
    <3>3. QED
      BY <2>1, <2>2, <3>2, CallFrame
  <2>6. QED
    BY <2>3, <2>4, <2>5
<1>6. ASSUME NEW s \in SyncIds, DeleteSync(c, s)
      PROVE  SerialInv'
  <2>1. UNCHANGED <<cur, active, queue, worker, state>> /\ caller'[c].pc = "idle"
    BY <1>6 DEF DeleteSync, Idle
  <2>2. \A r \in SyncIds : store'[r] = store[r] \/ store'[r] = "DELETED"
    BY <1>0, <1>6 DEF TypeOK, DeleteSync
  <2>3. CallerOK(c)'
    BY <2>1 DEF CallerOK, Submitted
  <2>4. QED
    BY <2>1, <2>2, <2>3, CallFrame
<1>7. QED
  BY <1>1, <1>2, <1>3, <1>4, <1>5, <1>6 DEF CallerCall
----------------------------------------------------------------------------
\* A step of a worker that goes on with its task, or drops it, and no more.
LEMMA WorkerAlone ==
  ASSUME SerialInv, NEW i \in Insts, NEW pc, NEW task, WorkerBecomes(i, pc, task),
         worker[i].pc # "idle", pc = "idle" \/ task = worker[i].task, WorkerOK(i)',
         UNCHANGED <<store, cur, active, queue, state, caller>>
  PROVE  SerialInv'
<1>1. i = cur
  BY DEF SerialInv, OnlyCurrent
<1>2. /\ worker'[i].pc # "idle" => worker'[i].task = worker[i].task
      /\ \A j \in Insts \ {i} : worker'[j] = worker[j]
  BY DEF WorkerBecomes
<1>3. OnlyCurrent' /\ StoppedInv'
  BY <1>1, <1>2 DEF SerialInv, OnlyCurrent, StoppedInv
<1>4. CallerInv'
  BY <1>1, <1>2 DEF SerialInv, CallerInv, CallerOK, Accepting, HasRow
<1>5. QueueInv'
  BY <1>2 DEF SerialInv, QueueInv, QueueOK
<1>6. WorkerInv'
  BY <1>2 DEF SerialInv, WorkerInv, WorkerOK
<1>7. QED
  BY <1>3, <1>4, <1>5, <1>6 DEF SerialInv

LEMMA WorkerStepSerial ==
  ASSUME TypeInv, SerialInv, NEW i \in Insts, WorkerStep(i)
  PROVE  SerialInv'
<1>0. TypeOK /\ ThreadsOK /\ WorkerOK(i)
  BY DEF TypeInv, SerialInv, WorkerInv
<1> DEFINE t == worker[i].task
<1>1. CASE CheckIfStopRequested(i)
  <2>1. UNCHANGED <<store, cur, active, queue, state, caller>> /\ worker[i].pc = "check"
    BY <1>1 DEF CheckIfStopRequested
  <2>2. CASE WorkerGoto(i, "run")
    <3>1. WorkerBecomes(i, "run", t) /\ worker'[i].threw = worker[i].threw
      BY <1>0, <2>2, WorkerGotoEffect DEF WorkerPc, WorkerGoto, TypeOK, Worker
    <3>2. WorkerOK(i)'
      BY <1>0, <2>1, <3>1 DEF WorkerOK, WorkerBecomes
    <3>3. QED
      BY <2>1, <3>1, <3>2, WorkerAlone
  <2>3. CASE WorkerSave(i, "STOPPED") /\ t.kind = "sync"
    <3>1. WorkerBecomes(i, "save", t) /\ worker'[i].threw = FALSE
      BY <1>0, <2>3, WorkerSaveEffect DEF FinalStatus, WorkerSave, TypeOK, Worker
    <3>2. WorkerOK(i)'
      BY <1>0, <2>1, <2>3, <3>1 DEF WorkerOK, WorkerBecomes
    <3>3. QED
      BY <2>1, <3>1, <3>2, WorkerAlone
  <2>4. CASE worker' = [worker EXCEPT ![i] = IdleWorker]
    <3>1. WorkerBecomes(i, "idle", NoTask)
      BY <1>0, <2>4, WorkerIdleEffect
    <3>2. QED
      BY <2>1, <3>1, WorkerAlone DEF WorkerOK, WorkerBecomes
  <2>5. QED
    BY <1>1, <2>2, <2>3, <2>4 DEF CheckIfStopRequested, StopReported
<1>2. CASE RunPage(i)
  <2>1. UNCHANGED <<cur, active, queue, state, caller>> /\ worker[i].pc = "run" /\ t.kind = "sync"
    BY <1>2 DEF RunPage
  <2>2. UNCHANGED store
    <3>1. t.id \in SyncIds
      BY <1>0, <2>1 DEF ThreadsOK, Task
    <3>2. HasRow(t.id) => store[t.id] = "RUNNING"
      BY <1>0, <2>1 DEF WorkerOK, HasRow
    <3>3. QED
      BY <1>0, <1>2, <3>1, <3>2 DEF RunPage, TypeOK
  <2>3. CASE HasRow(t.id)
    <3>0. /\ MorePages(i)
          /\ worker' = [worker EXCEPT ![i] = [worker[i] EXCEPT !.pc = "check", !.page = @ + 1]]
      BY <1>2, <2>3 DEF RunPage
    <3>1. WorkerBecomes(i, "check", t) /\ worker'[i].threw = worker[i].threw
      BY <1>0, <3>0, PageEffect DEF TypeOK, Worker
    <3>2. WorkerOK(i)'
      BY <1>0, <2>1, <2>2, <3>1 DEF WorkerOK, WorkerBecomes
    <3>3. QED
      BY <2>1, <2>2, <3>1, <3>2, WorkerAlone
  <2>4. CASE ~HasRow(t.id)
    <3>0. WorkerSave(i, "FAILED")
      BY <1>2, <2>4 DEF RunPage
    <3>1. WorkerBecomes(i, "save", t) /\ worker'[i].threw = FALSE
      BY <1>0, <3>0, WorkerSaveEffect DEF FinalStatus, WorkerSave, TypeOK, Worker
    <3>2. WorkerOK(i)'
      BY <1>0, <2>1, <2>2, <3>1 DEF WorkerOK, WorkerBecomes
    <3>3. QED
      BY <2>1, <2>2, <3>1, <3>2, WorkerAlone
  <2>5. QED
    BY <2>3, <2>4
<1>3. CASE RunDone(i) \/ RunFailed(i)
  <2>1. /\ UNCHANGED <<store, cur, active, queue, state, caller>>
        /\ worker[i].pc = "run" /\ t.kind = "sync"
    BY <1>3 DEF RunDone, RunFailed
  <2>2. WorkerBecomes(i, "save", t) /\ worker'[i].threw = FALSE
    BY <1>0, <1>3, WorkerSaveEffect, ZenonT(30) DEF FinalStatus, WorkerSave, RunDone, RunFailed, TypeOK, Worker
  <2>3. WorkerOK(i)'
    BY <1>0, <2>1, <2>2 DEF WorkerOK, WorkerBecomes
  <2>4. QED
    BY <2>1, <2>2, <2>3, WorkerAlone
<1>4. CASE RunRevoked(i)
  <2>1. UNCHANGED <<store, cur, active, queue, state, caller>> /\ worker[i].pc = "run"
    BY <1>4 DEF RunRevoked
  <2>2. WorkerBecomes(i, "idle", NoTask)
    BY <1>0, <1>4, WorkerIdleEffect DEF RunRevoked
  <2>3. QED
    BY <2>1, <2>2, WorkerAlone DEF WorkerOK, WorkerBecomes
<1>5. CASE RunGhosts(i)
  <2>1. UNCHANGED <<store, cur, active, queue, state, caller>> /\ worker[i].pc = "run"
    BY <1>5 DEF RunGhosts
  <2>2. WorkerBecomes(i, "remove", t) /\ worker'[i].threw = worker[i].threw
    BY <1>0, <1>5, WorkerGotoEffect DEF WorkerPc, WorkerGoto, RunGhosts, TypeOK, Worker
  <2>3. WorkerOK(i)'
    BY <1>0, <2>1, <2>2 DEF WorkerOK, WorkerBecomes
  <2>4. QED
    BY <2>1, <2>2, <2>3, WorkerAlone
<1>6. CASE TakeTask(i)
  <2>1. UNCHANGED <<store, cur, active, state, caller>> /\ worker[i].pc = "idle"
    BY <1>6 DEF TakeTask
  <2>2. i = cur /\ queue[i] # <<>> /\ queue[i] \in Seq(Task)
    BY <1>0, <1>6 DEF TakeTask, SerialInv, OnlyCurrent, TypeOK
  <2>3. /\ worker'[i].pc = "check" /\ worker'[i].task = Head(queue[i])
        /\ worker'[i].threw = FALSE
        /\ \A j \in Insts \ {i} : worker'[j] = worker[j]
    BY <1>0, <1>6 DEF TypeOK, TakeTask, IdleWorker
  <2>4. queue'[i] = Tail(queue[i]) /\ \A j \in Insts \ {i} : queue'[j] = queue[j]
    BY <1>0, <1>6 DEF TypeOK, TakeTask
  <2>5. /\ Len(queue[i]) \in Nat \ {0}
        /\ DOMAIN queue[i] = 1 .. Len(queue[i])
        /\ DOMAIN queue'[i] = 1 .. (Len(queue[i]) - 1)
        /\ \A n \in DOMAIN queue'[i] : queue'[i][n] = queue[i][n + 1]
        /\ Head(queue[i]) = queue[i][1]
    BY <2>2, <2>4, HeadTailProperties, LenProperties, EmptySeq
  <2>6. 1 \in DOMAIN queue[i] /\ \A n \in DOMAIN queue'[i] : n + 1 \in DOMAIN queue[i] /\ n + 1 # 1
    BY <2>5
  <2>7. \A n \in DOMAIN queue[i] : QueueOK(i, n)
    BY DEF SerialInv, QueueInv
  <2>8. WorkerOK(i)'
    BY <2>1, <2>3, <2>5, <2>6, <2>7 DEF WorkerOK, QueueOK
  <2>9. ASSUME NEW n \in DOMAIN queue'[i]
        PROVE  QueueOK(i, n)'
    <3>1. QueueOK(i, n + 1) /\ QueueOK(i, 1) /\ queue'[i][n] = queue[i][n + 1]
      BY <2>5, <2>6, <2>7
    <3>2. worker'[i].task.id # queue'[i][n].id
      BY <2>3, <2>5, <2>6, <3>1 DEF QueueOK
    <3>3. \A m \in DOMAIN queue'[i] : queue'[i][m].id = queue'[i][n].id => m = n
      <4>1. ASSUME NEW m \in DOMAIN queue'[i], queue'[i][m].id = queue'[i][n].id
            PROVE  m + 1 = n + 1
        BY <2>5, <2>6, <3>1, <4>1 DEF QueueOK
      <4>2. QED
        BY <2>5, <4>1
    <3>4. QED
      BY <2>1, <3>1, <3>2, <3>3 DEF QueueOK
  <2>10. QueueInv'
    <3>1. \A j \in Insts \ {i} : queue'[j] = <<>>
      BY <2>2, <2>4 DEF SerialInv, OnlyCurrent
    <3>2. QED
      BY <2>9, <3>1 DEF QueueInv
  <2>11. WorkerInv'
    BY <2>1, <2>3, <2>8 DEF SerialInv, WorkerInv, WorkerOK
  <2>12. OnlyCurrent' /\ StoppedInv'
    BY <2>1, <2>2, <2>3, <2>4 DEF SerialInv, OnlyCurrent, StoppedInv
  <2>13. ASSUME NEW c \in Callers
         PROVE  CallerOK(c)'
    <3>1. CallerOK(c)
      BY DEF SerialInv, CallerInv
    <3>2. ASSUME \A n \in DOMAIN queue[i] : queue[i][n].id # caller[c].task.id
          PROVE  /\ \A n \in DOMAIN queue'[i] : queue'[i][n].id # caller[c].task.id
                 /\ worker'[i].task.id # caller[c].task.id
      BY <2>3, <2>5, <2>6, <3>2
    <3>3. QED
      BY <2>1, <2>2, <3>1, <3>2 DEF CallerOK, Accepting, HasRow
  <2>14. QED
    BY <2>10, <2>11, <2>12, <2>13 DEF SerialInv, CallerInv
<1>7. CASE SaveFinal(i)
  <2>1. /\ UNCHANGED <<cur, active, queue, state, caller>>
        /\ worker[i].pc = "save" /\ t.kind = "sync" /\ t.id \in SyncIds
    BY <1>0, <1>7 DEF SaveFinal, WorkerOK, ThreadsOK, Task
  <2>2. CASE ~HasRow(t.id)
    <3>1. UNCHANGED store /\ store[t.id] = "DELETED"
      BY <1>0, <1>7, <2>1, <2>2 DEF SaveFinal, WorkerOK, HasRow
    <3>2. worker' = [worker EXCEPT ![i] = [@ EXCEPT !.pc = "remove", !.threw = TRUE]]
      BY <1>7, <2>2 DEF SaveFinal
    <3>3. WorkerBecomes(i, "remove", t)
      BY <1>0, <3>2, SaveThrowEffect
    <3>4. WorkerOK(i)'
      BY <2>1, <3>1, <3>3 DEF WorkerOK, WorkerBecomes
    <3>5. QED
      BY <2>1, <3>1, <3>3, <3>4, WorkerAlone
  <2>3. CASE HasRow(t.id)
    <3>1. store[t.id] = "RUNNING" /\ t.id \in active[i] /\ i = cur
      BY <1>0, <2>1, <2>3 DEF WorkerOK, HasRow, SerialInv, OnlyCurrent
    <3>2. worker[i].out \in FinalStatus /\ worker[i].threw = FALSE
      BY <1>0, <2>1 DEF TypeOK, Worker, WorkerOK
    <3>3. \A s \in SyncIds : store'[s] = IF s = t.id THEN worker[i].out ELSE store[s]
      BY <1>0, <1>7, <2>1, <2>3 DEF SaveFinal, TypeOK
    <3>4. WorkerGoto(i, "remove")
      BY <1>7, <2>3 DEF SaveFinal
    <3>5. WorkerBecomes(i, "remove", t) /\ worker'[i].threw = FALSE
      BY <1>0, <3>2, <3>4, WorkerGotoEffect DEF WorkerPc, WorkerGoto, TypeOK, Worker
    <3>6. WorkerOK(i)'
      BY <2>1, <3>1, <3>2, <3>3, <3>5 DEF WorkerOK, WorkerBecomes, FinalStatus
    <3>7. WorkerInv' /\ OnlyCurrent' /\ StoppedInv'
      BY <2>1, <3>1, <3>5, <3>6
      DEF WorkerInv, WorkerOK, WorkerBecomes, SerialInv, OnlyCurrent, StoppedInv
    <3>8. ASSUME NEW n \in DOMAIN queue[i]
          PROVE  QueueOK(i, n)'
      <4>1. QueueOK(i, n) /\ queue[i][n].id # t.id
        BY <2>1, <3>8 DEF SerialInv, QueueInv, QueueOK
      <4>2. queue[i][n] \in Task
        BY <1>0, <3>8, ElementOfSeq, LenProperties DEF TypeOK
      <4>3. queue[i][n].id \in SyncIds
        BY <4>2 DEF Task
      <4>4. QED
        BY <2>1, <3>3, <3>5, <4>1, <4>3 DEF QueueOK, WorkerBecomes
    <3>9. QueueInv'
      BY <2>1, <3>1, <3>8 DEF SerialInv, OnlyCurrent, QueueInv
    <3>10. ASSUME NEW c \in Callers
           PROVE  CallerOK(c)'
      <4>1. CallerOK(c)
        BY DEF SerialInv, CallerInv
      <4>2. caller[c].pc # "cleanup"
        BY <1>0, <3>1 DEF TypeInv, ConstructorOK, NoInst
      <4>3. caller[c].pc \in Submitted => caller[c].task.id \in SyncIds
        BY <1>0 DEF ThreadsOK, Task, Submitted
      <4>4. caller[c].pc \in Submitted => HasRow(caller[c].task.id)'
        BY <2>1, <3>2, <3>3, <4>1, <4>3 DEF CallerOK, HasRow, FinalStatus
      <4>5. At(c, "execute") => store'[caller[c].task.id] = store[caller[c].task.id]
        BY <2>1, <3>1, <3>3, <4>1, <4>3 DEF CallerOK, Submitted, At
      <4>6. QED
        BY <2>1, <3>1, <3>5, <4>1, <4>2, <4>4, <4>5
        DEF CallerOK, Accepting, HasRow, WorkerBecomes, Submitted
    <3>11. QED
      BY <3>7, <3>9, <3>10 DEF SerialInv, CallerInv
  <2>4. QED
    BY <2>2, <2>3
<1>8. CASE RemoveFromActiveSyncs(i)
  <2>1. /\ UNCHANGED <<store, cur, queue, caller>>
        /\ worker[i].pc = "remove" /\ t.id \in SyncIds
    BY <1>0, <1>8 DEF RemoveFromActiveSyncs, ThreadsOK, Task
  <2>2. i = cur
    BY <2>1 DEF SerialInv, OnlyCurrent
  <2>3. \A j \in Insts : active'[j] = IF j = i THEN active[i] \ {t.id} ELSE active[j]
    BY <1>0, <1>8 DEF TypeOK, RemoveFromActiveSyncs
  <2>4. /\ state'[i] = "STOPPED" => state[i] = "STOPPED" \/ active'[i] = {}
        /\ state'[i] = "ACCEPTING_SYNCS" <=> state[i] = "ACCEPTING_SYNCS"
        /\ \A j \in Insts \ {i} : state'[j] = state[j]
    BY <1>0, <1>8 DEF TypeOK, RemoveFromActiveSyncs, StateAfterRemoval
  <2>5. /\ \E pc \in {"save", "idle"}, task \in {t, NoTask} :
              WorkerBecomes(i, pc, task) /\ (pc # "idle" => task = t)
        /\ WorkerOK(i)'
    <3>1. CASE worker[i].threw /\ worker[i].out = "DONE"
      <4>1. WorkerSave(i, "FAILED")
        BY <1>8, <3>1 DEF RemoveFromActiveSyncs
      <4>2. WorkerBecomes(i, "save", t) /\ worker'[i].threw = FALSE
        BY <1>0, <4>1, WorkerSaveEffect DEF FinalStatus, WorkerSave, TypeOK, Worker
      <4>3. store[t.id] = "DELETED" /\ t.kind = "sync"
        BY <1>0, <2>1, <3>1 DEF WorkerOK
      <4>4. QED
        BY <2>1, <4>2, <4>3 DEF WorkerOK, WorkerBecomes
    <3>2. CASE ~(worker[i].threw /\ worker[i].out = "DONE")
      <4>1. WorkerBecomes(i, "idle", NoTask)
        BY <1>0, <1>8, <3>2, WorkerIdleEffect DEF RemoveFromActiveSyncs
      <4>2. QED
        BY <4>1 DEF WorkerOK, WorkerBecomes
    <3>3. QED
      BY <3>1, <3>2
  <2>6. /\ worker'[i].pc # "idle" => worker'[i].task = t
        /\ \A j \in Insts \ {i} : worker'[j] = worker[j]
    BY <2>5 DEF WorkerBecomes
  <2>7. OnlyCurrent' /\ StoppedInv'
    BY <2>1, <2>2, <2>3, <2>4, <2>6 DEF SerialInv, OnlyCurrent, StoppedInv
  <2>8. WorkerInv'
    BY <2>1, <2>3, <2>5, <2>6 DEF SerialInv, WorkerInv, WorkerOK
  <2>9. ASSUME NEW n \in DOMAIN queue[i]
        PROVE  QueueOK(i, n)'
    <3>1. QueueOK(i, n) /\ queue[i][n].id # t.id
      BY <2>1, <2>9 DEF SerialInv, QueueInv, QueueOK
    <3>2. QED
      BY <2>1, <2>3, <2>6, <3>1 DEF QueueOK
  <2>10. QueueInv'
    BY <2>1, <2>2, <2>9 DEF SerialInv, OnlyCurrent, QueueInv
  <2>11. ASSUME NEW c \in Callers
         PROVE  CallerOK(c)'
    <3>1. CallerOK(c)
      BY DEF SerialInv, CallerInv
    <3>2. QED
      BY <2>1, <2>2, <2>3, <2>4, <2>6, <3>1 DEF CallerOK, Accepting, HasRow
  <2>12. QED
    BY <2>7, <2>8, <2>10, <2>11 DEF SerialInv, CallerInv
<1>9. QED
  BY <1>1, <1>2, <1>3, <1>4, <1>5, <1>6, <1>7, <1>8 DEF WorkerStep

LEMMA NextSerial == Serial /\ TypeInv /\ SerialInv /\ [Next]_vars => SerialInv'
<1> SUFFICES ASSUME Serial, TypeInv, SerialInv, [Next]_vars
             PROVE  SerialInv'
  OBVIOUS
<1>1. CASE UNCHANGED vars
  BY <1>1 DEF SerialInv, OnlyCurrent, CallerInv, CallerOK, QueueInv, QueueOK, WorkerInv,
              WorkerOK, StoppedInv, Accepting, HasRow
<1>2. CASE Crash
  BY <1>2 DEF Crash, SerialInv, OnlyCurrent, CallerInv, CallerOK, QueueInv, WorkerInv,
              WorkerOK, StoppedInv, IdleCaller, IdleWorker, Submitted
<1>3. QED
  BY <1>1, <1>2, CallerCallSerial, CallerStepSerial, WorkerStepSerial DEF Next

LEMMA SerialInvariant == Serial => (Spec => []SerialInv)
<1> SUFFICES ASSUME Serial
             PROVE  Spec => []SerialInv
  OBVIOUS
<1>1. TypeInv /\ SerialInv /\ [Next]_vars => SerialInv'
  BY NextSerial
<1>2. QED
  BY <1>1, InitSerial, TypeInvariant, PTL DEF Spec
----------------------------------------------------------------------------
(* What the invariant gives.                                               *)

LEMMA SerialOneTask ==
  ASSUME Serial, SerialInv, NEW i \in Insts, NEW s \in SyncIds,
         NEW r1 \in Runs(i, s), NEW r2 \in Runs(i, s)
  PROVE  r1 = r2
<1> DEFINE ByCaller(r) == \E c \in Callers :
                             /\ r = <<"caller", c>>
                             /\ caller[c].pc \in {"markRunning", "execute"}
                             /\ caller[c].inst = i
                             /\ caller[c].task.id = s
           ByQueue(r)  == \E n \in DOMAIN queue[i] :
                             r = <<"queue", n>> /\ queue[i][n].id = s
           ByWorker(r) == /\ r = <<"worker", i>>
                          /\ worker[i].pc \in {"check", "run", "save"}
                          /\ worker[i].task.id = s
<1>1. \A r \in Runs(i, s) : ByCaller(r) \/ ByQueue(r) \/ ByWorker(r)
  BY DEF Runs
<1>2. \A c \in Callers : CallerOK(c)
  BY DEF SerialInv, CallerInv
<1>3. \A n \in DOMAIN queue[i] : QueueOK(i, n)
  BY DEF SerialInv, QueueInv
<1>4. \A c \in Callers :
        caller[c].pc \in {"markRunning", "execute"} /\ caller[c].inst = i
        /\ caller[c].task.id = s =>
          /\ \A n \in DOMAIN queue[i] : queue[i][n].id # s
          /\ worker[i].pc # "idle" => worker[i].task.id # s
  BY <1>2 DEF CallerOK, Submitted
<1>5. \A n \in DOMAIN queue[i] : queue[i][n].id = s =>
          /\ worker[i].pc # "idle" => worker[i].task.id # s
          /\ \A m \in DOMAIN queue[i] : queue[i][m].id = s => m = n
  BY <1>3 DEF QueueOK
<1>6. CASE ByCaller(r1)
  <2>1. ~ByQueue(r2) /\ ~ByWorker(r2)
    BY <1>4, <1>6
  <2>2. QED
    BY <1>1, <1>6, <2>1 DEF Serial
<1>7. CASE ByQueue(r1)
  <2>1. ~ByCaller(r2) /\ ~ByWorker(r2)
    BY <1>4, <1>5, <1>7
  <2>2. ByQueue(r2)
    BY <1>1, <2>1
  <2>3. QED
    BY <1>5, <1>7, <2>2
<1>8. CASE ByWorker(r1)
  <2>1. ~ByCaller(r2) /\ ~ByQueue(r2)
    BY <1>4, <1>5, <1>8
  <2>2. QED
    BY <1>1, <1>8, <2>1
<1>9. QED
  BY <1>1, <1>6, <1>7, <1>8

\* Called from one thread and never reset, a manager has at most one task for a
\* sync at any time, between the constructor of the task and its last save: two
\* runs of a sync never change its row, or upload its records, side by side.
THEOREM OneTaskWhenSerial == Serial => (Spec => []OneTaskPerSync)
<1> SUFFICES ASSUME Serial
             PROVE  Spec => []OneTaskPerSync
  OBVIOUS
<1>1. SerialInv => OneTaskPerSync
  BY SerialOneTask DEF OneTaskPerSync
<1>2. QED
  BY <1>1, SerialInvariant, PTL

\* Then a manager that says STOPPED has no task left, in a method, in the queue
\* or on the thread, that would still write a row: an application may take it
\* at its word.
THEOREM StoppedWhenSerial == Serial => (Spec => []StoppedIsQuiescent)
<1>1. SerialInv => StoppedIsQuiescent
  <2> SUFFICES ASSUME SerialInv, NEW i \in Insts, state[i] = "STOPPED",
                      NEW s \in SyncIds, HasRow(s), WillReport(i, s)
               PROVE  FALSE
    BY DEF StoppedIsQuiescent
  <2>1. active[i] = {} /\ WorkerOK(i)
    BY DEF SerialInv, StoppedInv, WorkerInv
  <2>2. \A c \in Callers : At(c, "execute") => caller[c].inst = cur
                                             /\ caller[c].task.id \in active[cur]
    BY DEF SerialInv, CallerInv, CallerOK, Submitted
  <2>3. SyncTask(s) \notin Range(queue[i])
    BY <2>1 DEF SerialInv, QueueInv, QueueOK, Range
  <2>4. ~(worker[i].pc \in {"check", "run", "save"} /\ worker[i].task = SyncTask(s))
    BY <2>1 DEF WorkerOK, SyncTask, HasRow
  <2>5. QED
    BY <2>1, <2>2, <2>3, <2>4 DEF WillReport
<1>2. QED
  BY <1>1, SerialInvariant, PTL
----------------------------------------------------------------------------
(* The statuses follow SyncLifecycle.                                      *)

LEMMA CallerStepLifecycle ==
  ASSUME Serial, TypeInv, SerialInv, NEW c \in Callers, CallerStep(c)
  PROVE  [Lifecycle!Next]_store
<1>0. TypeOK /\ ThreadsOK /\ CallerOK(c)
  BY DEF TypeInv, SerialInv, CallerInv
<1>1. CASE CleanupRow(c)
  <2>1. caller[c].todo \subseteq SyncIds
    BY <1>0 DEF TypeOK, Caller
  <2>2. \A s \in caller[c].todo : store[s] = "RUNNING"
    BY <1>0, <1>1 DEF CleanupRow, CallerOK
  <2>3. QED
    BY <1>1, <2>1, <2>2 DEF CleanupRow, Lifecycle!Next, Lifecycle!End
<1>2. CASE MarkRunning(c)
  <2> DEFINE s == caller[c].task.id
  <2>1. s \in SyncIds /\ store[s] \in Row
    BY <1>0, <1>2 DEF ThreadsOK, MarkRunning, Task, TypeOK
  <2>2. HasRow(s) /\ store' = [store EXCEPT ![s] = "RUNNING"]
    BY <1>0, <1>2 DEF MarkRunning, CallerOK, Submitted
  <2>3. CASE store[s] = "RUNNING"
    BY <1>0, <2>1, <2>2, <2>3 DEF TypeOK
  <2>4. CASE store[s] # "RUNNING"
    <3>1. store[s] \in {"NEW", "STOPPED", "DONE", "FAILED"}
      BY <2>1, <2>2, <2>4 DEF HasRow, Row, Status, FinalStatus
    <3>2. QED
      BY <2>1, <2>2, <3>1 DEF Lifecycle!Next, Lifecycle!Start
  <2>5. QED
    BY <2>3, <2>4
<1>3. CASE ~CleanupRow(c) /\ ~MarkRunning(c)
  BY <1>3 DEF CallerStep, RegisterInstance, CheckNotRunning, CheckAccepting,
              AddToActiveSyncs, Execute, RestartQuery, RestartNext, RestartDone
<1>4. QED
  BY <1>1, <1>2, <1>3

LEMMA CallerCallLifecycle ==
  ASSUME NEW c \in Callers, CallerCall(c)
  PROVE  [Lifecycle!Next]_store
<1>1. ASSUME NEW s \in SyncIds, CreateSync(c, s)
      PROVE  Lifecycle!Next
  BY <1>1 DEF CreateSync, Lifecycle!Next, Lifecycle!Create
<1>2. ASSUME NEW s \in SyncIds, DeleteSync(c, s)
      PROVE  Lifecycle!Next
  BY <1>2 DEF DeleteSync, HasRow, Lifecycle!Next, Lifecycle!Delete
<1>3. ASSUME NEW s \in SyncIds, ReSync(c, s) \/ CleanResyncGhosts(c, s)
      PROVE  UNCHANGED store
  BY <1>3 DEF ReSync, CleanResyncGhosts
<1>4. GetInstance(c) \/ Stop(c) \/ Restart(c) \/ RestartStoppedSyncs(c) \/ Reset(c)
         => UNCHANGED store
  BY DEF GetInstance, Stop, Restart, RestartStoppedSyncs, Reset
<1>5. QED
  BY <1>1, <1>2, <1>3, <1>4 DEF CallerCall

LEMMA WorkerStepLifecycle ==
  ASSUME TypeInv, SerialInv, NEW i \in Insts, WorkerStep(i)
  PROVE  [Lifecycle!Next]_store
<1>0. TypeOK /\ ThreadsOK /\ WorkerOK(i)
  BY DEF TypeInv, SerialInv, WorkerInv
<1> DEFINE s == worker[i].task.id
<1>1. CASE RunPage(i)
  <2>1. s \in SyncIds
    BY <1>0, <1>1 DEF ThreadsOK, RunPage, Task
  <2>2. HasRow(s) => store[s] = "RUNNING"
    BY <1>0, <1>1 DEF RunPage, WorkerOK, HasRow
  <2>3. QED
    BY <1>0, <1>1, <2>1, <2>2 DEF RunPage, TypeOK
<1>2. CASE SaveFinal(i)
  <2>1. s \in SyncIds /\ worker[i].out \in FinalStatus
    BY <1>0, <1>2 DEF ThreadsOK, SaveFinal, Task, TypeOK, Worker
  <2>2. HasRow(s) => store[s] = "RUNNING"
    BY <1>0, <1>2 DEF SaveFinal, WorkerOK, HasRow
  <2>3. QED
    BY <1>2, <2>1, <2>2 DEF SaveFinal, FinalStatus, Lifecycle!Next, Lifecycle!End
<1>3. CASE ~RunPage(i) /\ ~SaveFinal(i)
  BY <1>3 DEF WorkerStep, TakeTask, CheckIfStopRequested, RunDone, RunFailed, RunRevoked,
              RunGhosts, RemoveFromActiveSyncs
<1>4. QED
  BY <1>1, <1>2, <1>3

LEMMA NextLifecycle ==
  Serial /\ TypeInv /\ SerialInv /\ [Next]_vars => [Lifecycle!Next]_store
<1> SUFFICES ASSUME Serial, TypeInv, SerialInv, [Next]_vars
             PROVE  [Lifecycle!Next]_store
  OBVIOUS
<1>1. CASE UNCHANGED vars
  BY <1>1
<1>2. CASE Crash
  BY <1>2 DEF Crash
<1>3. QED
  BY <1>1, <1>2, CallerCallLifecycle, CallerStepLifecycle, WorkerStepLifecycle DEF Next

\* Then the manager, with its threads, its checks and its restarts, implements
\* the lifecycle of a status: a run starts in a row that exists, ends once, and a
\* final status is replaced by nothing but a new run.
THEOREM ImplementsLifecycle == Serial => (Spec => LifecycleSpec)
<1> SUFFICES ASSUME Serial
             PROVE  Spec => LifecycleSpec
  OBVIOUS
<1>1. Init => Lifecycle!Init
  BY DEF Init, Lifecycle!Init
<1>2. TypeInv /\ SerialInv /\ [Next]_vars => [Lifecycle!Next]_store
  BY NextLifecycle
<1>3. QED
  BY <1>1, <1>2, SerialInvariant, TypeInvariant, PTL
  DEF Spec, LifecycleSpec, Lifecycle!Spec
=============================================================================
